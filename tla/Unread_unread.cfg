\* One user reads while two others write; the user's own messages count too.
SPECIFICATION FairSpec
CONSTANTS
  Writers = {me, you, they}
  Me = me
  MaxMessages = 4
  MaxMarks = 2
INVARIANT MarkMissesAtMostOne
PROPERTY ReadGetsMarked
CHECK_DEADLOCK FALSE
