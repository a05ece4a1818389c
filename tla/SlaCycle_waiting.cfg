\* A priority change of a waiting ticket.
SPECIFICATION Spec
CONSTANTS
  t1 = t1
  t2 = t2
  w1 = w1
  w2 = w2
  Tickets = {t1}
  Workers = {}
  OpenedAs = {"HIGH", "LOW"}
  Requests <- PricingRequests
  Second = 2
  FirstTarget <- FirstTargets
  ResolutionTarget <- ResolutionTargets
  Limit = 1
  MaxClock = 7
  MaxRequests = 3
INVARIANT WaitingNeverCounts
CHECK_DEADLOCK FALSE
