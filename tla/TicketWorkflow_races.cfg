SPECIFICATION Spec
CONSTANTS
  t1 = t1  t2 = t2  cust = cust  agent = agent  k1 = k1   f1 = f1
  Tickets = {t1}  Customers = {cust}  Staff = {agent}
  Keys = {k1}  Files = {}  Procs = {p1, p2}
  Requests <- RaceRequests
  Free = Free  Nobody = Nobody
  MaxClock = 5  MaxLapses = 0
SYMMETRY Symmetry
INVARIANTS
  TypeOK
  ReadsStayCurrent
  ResolutionWasExplained
  HistoryExplainsTicket
PROPERTIES
  NoPublicReplyOnClosed
  EditsAreNotStale
  InternalWorkIsInvisible
  SerialTickets
CHECK_DEADLOCK FALSE
