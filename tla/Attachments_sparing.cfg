\* A message binds a file that a clean-up has read.
SPECIFICATION Spec
CONSTANTS
  f1 = f1
  f2 = f2
  f3 = f3
  t1 = t1
  t2 = t2
  c1 = c1
  c2 = c2
  Files = {f1, f2, f3}
  Tickets = {t1, t2}
  TicketOf <- Homes
  CleanUps = {c1, c2}
  MaxAttachments = 2
PROPERTIES CleanUpSparesMessages
CHECK_DEADLOCK FALSE
