\* Two workers and two retries for an e-mail and a queue entry.
SPECIFICATION FairSpec
CONSTANTS
  mail = mail
  entry = entry
  w1 = w1
  w2 = w2
  r1 = r1
  r2 = r2
  Deliveries = {mail, entry}
  Queued = {entry}
  Workers = {w1, w2}
  Retries = {r1, r2}
  MaxAttempts = 2
  Limit = 2
  MaxLosses = 1
INVARIANTS TypeOK MailsAreAllowed
PROPERTIES DeliveriesSettle
CHECK_DEADLOCK FALSE
