SPECIFICATION FairSpec
CONSTANTS
  t1 = t1  t2 = t2  cust = cust  agent = agent  k1 = k1   f1 = f1
  Tickets = {t1, t2}  Customers = {cust}  Staff = {agent}
  Keys = {k1}  Files = {f1}  Procs = {p1, p2}
  Requests <- RetryRequests
  Free = Free  Nobody = Nobody
  MaxClock = 4  MaxLapses = 1
INVARIANTS
  OneEffectPerKey
PROPERTIES
  AttachesOnce
  RequestsEnd
CHECK_DEADLOCK FALSE
