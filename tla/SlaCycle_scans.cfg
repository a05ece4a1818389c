\* Two breach scans against the handlers of one ticket; the bounds end the run.
SPECIFICATION Spec
CONSTANTS
  t1 = t1
  t2 = t2
  w1 = w1
  w2 = w2
  Tickets = {t1}
  Workers = {w1, w2}
  OpenedAs = {"HIGH", "LOW"}
  Requests <- LifeRequests
  Second = 2
  FirstTarget <- FirstTargets
  ResolutionTarget <- ResolutionTargets
  Limit = 1
  MaxClock = 5
  MaxRequests = 4
INVARIANTS TypeOK ReadsStayCurrent AnnouncedOnce BreachesAreExact DeadlineHonoursTarget
PROPERTIES BreachIsEarned
CHECK_DEADLOCK FALSE
