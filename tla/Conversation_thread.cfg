\* A thread that outgrows a page.
SPECIFICATION FairSpec
CONSTANTS
  Writers = {me, you}
  Me = me
  PageSize = 2
  MaxMessages = 3
INVARIANTS TypeOK SkippedHasReason NothingShownTwice
PROPERTIES RepliesArrive
CHECK_DEADLOCK FALSE
