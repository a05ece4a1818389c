\* Overdue timers of two tickets, one row per scan; the bounds end the run.
SPECIFICATION FairSpec
CONSTANTS
  t1 = t1
  t2 = t2
  w1 = w1
  w2 = w2
  Tickets = {t1, t2}
  Workers = {w1}
  OpenedAs = {"HIGH"}
  Requests <- ProgressRequests
  Second = 2
  FirstTarget <- FirstTargets
  ResolutionTarget <- ResolutionTargets
  Limit = 1
  MaxClock = 5
  MaxRequests = 2
PROPERTY OverdueIsRecorded
CHECK_DEADLOCK FALSE
