\* Two requests at a time that race for one account; the bounds end the run.
SPECIFICATION FairSpec
CONSTANTS
  Users = {u1}
  Nobody = Nobody
  Requests = {r1, r2}
  BootstrapLimit = 1
  LoginIpLimit = 2
  LoginEmailLimit = 1
  Window = 1
  PreauthTtl = 4
  SessionTtl = 1
  MaxClock = 4
  MaxSessions = 3
  MaxPassword = 2
INVARIANTS TypeOK BootstrapUsedOnce TriesAreBounded
CONSTRAINT LateIsCalm
PROPERTIES GrantsAreCurrent RequestsEnd
CHECK_DEADLOCK FALSE
