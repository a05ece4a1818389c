\* A public and an internal change for the tab of a customer, queues of one.
SPECIFICATION FairSpec
CONSTANTS
  e1 = e1
  e2 = e2
  cust = cust
  agent = agent
  w1 = w1
  w2 = w2
  Events = {e1, e2}
  PublicEvents = {e1}
  CustomerOf <- OwnEvents
  Tabs = {cust}
  Staff = {agent}
  Workers = {w1, w2}
  MaxAttempts = 2
  Limit = 2
  IncomingSize = 1
  QueueSize = 1
INVARIANTS TypeOK NotifiedOnce NothingIsLostSilently
PROPERTIES InternalIsSilent ViewsCatchUp
