-------------------------- MODULE AttachmentsProofs --------------------------
(***************************************************************************)
(* Theorems about Attachments, for any files, tickets and clean-ups.       *)
(***************************************************************************)
EXTENDS Attachments, TLAPS

\* What a clean-up has read had expired, and what it is done with has no object.
CleanUpsAreEntitled ==
  \A c \in CleanUps : /\ found[c] \subseteq expired \cup late
                      /\ (found[c] \ left[c]) \cap objects = {}

FilesInv == TypeOK /\ CleanUpsAreEntitled /\ OnlyExpiredFilesAreRemoved /\ RowsGoLast

LEMMA FilesInitially == Init => FilesInv
BY DEF Init, FilesInv, TypeOK, CleanUpsAreEntitled, OnlyExpiredFilesAreRemoved, RowsGoLast

LEMMA FilesInductive == FilesInv /\ [Next]_vars => FilesInv'
<1> SUFFICES ASSUME FilesInv, [Next]_vars
             PROVE  FilesInv'
  OBVIOUS
<1> USE DEF FilesInv
<1>1. CASE UNCHANGED vars
  BY <1>1 DEF vars, TypeOK, CleanUpsAreEntitled, OnlyExpiredFilesAreRemoved, RowsGoLast
<1>2. ASSUME NEW f \in Files, SaveObject(f)
      PROVE  FilesInv'
  BY <1>2 DEF SaveObject, TypeOK, CleanUpsAreEntitled, OnlyExpiredFilesAreRemoved, RowsGoLast
<1>3. ASSUME NEW f \in Files, CommitUpload(f)
      PROVE  FilesInv'
  BY <1>3 DEF CommitUpload, TypeOK, CleanUpsAreEntitled, OnlyExpiredFilesAreRemoved, RowsGoLast
<1>4. ASSUME NEW f \in Files, UploadFails(f) \/ Expires(f)
      PROVE  FilesInv'
  BY <1>4 DEF UploadFails, Expires, Staged, TypeOK, CleanUpsAreEntitled,
              OnlyExpiredFilesAreRemoved, RowsGoLast
<1>5. ASSUME NEW t \in Tickets, BindReads(t) \/ BindRollsBack(t)
      PROVE  FilesInv'
  <2>1. TypeOK'
    BY <1>5 DEF BindReads, BindRollsBack, Staged, TypeOK
  <2> QED
    BY <1>5, <2>1 DEF BindReads, BindRollsBack, CleanUpsAreEntitled,
                      OnlyExpiredFilesAreRemoved, RowsGoLast
<1>6. ASSUME NEW t \in Tickets, BindCommits(t)
      PROVE  FilesInv'
  <2>1. TypeOK'
    BY <1>6 DEF BindCommits, TypeOK
  <2>2. expired \cup late \subseteq expired' \cup late'
    BY <1>6 DEF BindCommits
  <2> QED
    BY <1>6, <2>1, <2>2 DEF BindCommits, TypeOK, CleanUpsAreEntitled,
                            OnlyExpiredFilesAreRemoved, RowsGoLast
<1>7. ASSUME NEW c \in CleanUps, CleanUpReads(c) \/ CleanUpFails(c)
      PROVE  FilesInv'
  BY <1>7 DEF CleanUpReads, CleanUpFails, Staged, TypeOK, CleanUpsAreEntitled,
              OnlyExpiredFilesAreRemoved, RowsGoLast
<1>8. ASSUME NEW c \in CleanUps, RemoveObject(c)
      PROVE  FilesInv'
  BY <1>8 DEF RemoveObject, TypeOK, CleanUpsAreEntitled, OnlyExpiredFilesAreRemoved, RowsGoLast
<1>9. ASSUME NEW c \in CleanUps, CleanUpCommits(c)
      PROVE  FilesInv'
  BY <1>9 DEF CleanUpCommits, TypeOK, CleanUpsAreEntitled, OnlyExpiredFilesAreRemoved, RowsGoLast
<1> QED
  BY <1>1, <1>2, <1>3, <1>4, <1>5, <1>6, <1>7, <1>8, <1>9 DEF Next

LEMMA FilesInvariant == Spec => []FilesInv
BY FilesInitially, FilesInductive, PTL DEF Spec

\* Rows, objects and what the steps under way have read fit together.
THEOREM FilesAreTyped == Spec => []TypeOK
<1>1. FilesInv => TypeOK
  BY DEF FilesInv
<1> QED
  BY <1>1, FilesInvariant, PTL

\* A file that was bound before it expired loses neither row nor object.
THEOREM BoundInTimeIsKept == Spec => []OnlyExpiredFilesAreRemoved
<1>1. FilesInv => OnlyExpiredFilesAreRemoved
  BY DEF FilesInv
<1> QED
  BY <1>1, FilesInvariant, PTL

\* No clean-up leaves an object without a row, even with others at work.
THEOREM NothingIsLeftOver == Spec => []RowsGoLast
<1>1. FilesInv => RowsGoLast
  BY DEF FilesInv
<1> QED
  BY <1>1, FilesInvariant, PTL
=============================================================================
