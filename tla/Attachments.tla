----------------------------- MODULE Attachments -----------------------------
(***************************************************************************)
(* Uploaded files: the row and the stored object of each, from the upload  *)
(* through the binding to a message or the clean-up after expiry.  Rows    *)
(* change with commits, objects at once and for good.  Several clean-ups   *)
(* may run (an operator's command), several tickets get messages.          *)
(*                                                                         *)
(* A file is known by its storage key, which no upload uses twice.  Of two *)
(* handlers that bind, the lock of the ticket lets one through, so that a  *)
(* ticket has at most one binding under way.                               *)
(***************************************************************************)
EXTENDS Naturals, FiniteSets

CONSTANTS
  Files,            \* uploads that may happen
  Tickets,
  TicketOf,         \* the ticket of each file
  CleanUps,         \* runs of python -m app.cleanup
  MaxAttachments    \* MAX_ATTACHMENTS_PER_MESSAGE

VARIABLES
  row,       \* attachments: absent, staged, bound to a message, or deleted
  objects,   \* files that are in the storage
  saving,    \* uploads between the object and the commit of its row
  expired,   \* files whose expires_at has passed
  late,      \* history: files that were bound when they had expired
  posting,   \* the files that the message under way on each ticket has read
  found,     \* the rows that each clean-up has read and is to delete
  left       \* the ones whose object it has not removed yet

vars == <<row, objects, saving, expired, late, posting, found, left>>

ASSUME FileAssumption == TicketOf \in [Files -> Tickets] /\ MaxAttachments \in Nat

Staged == {f \in Files : row[f] = "staged"}

Init ==
  /\ row = [f \in Files |-> "absent"] /\ objects = {} /\ saving = {}
  /\ expired = {} /\ late = {} /\ posting = [t \in Tickets |-> {}]
  /\ found = [c \in CleanUps |-> {}] /\ left = [c \in CleanUps |-> {}]

-----------------------------------------------------------------------------
(* upload_attachment.                                                      *)

\* The checked data are stored before the row is written.
SaveObject(f) ==
  /\ row[f] = "absent" /\ f \notin objects
  /\ objects' = objects \cup {f} /\ saving' = saving \cup {f}
  /\ UNCHANGED <<row, expired, late, posting, found, left>>

CommitUpload(f) ==
  /\ f \in saving
  /\ row' = [row EXCEPT ![f] = "staged"] /\ saving' = saving \ {f}
  /\ UNCHANGED <<objects, expired, late, posting, found, left>>

\* A crash or a database error leaves the object behind.
UploadFails(f) ==
  /\ f \in saving
  /\ saving' = saving \ {f}
  /\ UNCHANGED <<row, objects, expired, late, posting, found, left>>

\* attachment_ttl_seconds pass.
Expires(f) ==
  /\ f \in Staged \ expired
  /\ expired' = expired \cup {f}
  /\ UNCHANGED <<row, objects, saving, late, posting, found, left>>

-----------------------------------------------------------------------------
(* create_message.                                                         *)

\* The ticket of the files is not asked for.
BindReads_AnyTicket(t) ==
  /\ posting[t] = {}
  /\ \E fs \in SUBSET Staged :
       /\ fs # {} /\ Cardinality(fs) <= MaxAttachments
       /\ posting' = [posting EXCEPT ![t] = fs]
  /\ UNCHANGED <<row, objects, saving, expired, late, found, left>>

\* bind_attachments reads unbound files of the ticket, expired or not.
BindReads(t) ==
  /\ posting[t] = {}
  /\ \E fs \in SUBSET {f \in Staged : TicketOf[f] = t} :
       /\ fs # {} /\ Cardinality(fs) <= MaxAttachments
       /\ posting' = [posting EXCEPT ![t] = fs]
  /\ UNCHANGED <<row, objects, saving, expired, late, found, left>>

\* The commit sets message_id and clears expires_at, provided that the rows still exist.
BindCommits(t) ==
  /\ posting[t] # {} /\ \A f \in posting[t] : row[f] # "deleted"
  /\ row' = [f \in Files |-> IF f \in posting[t] THEN "bound" ELSE row[f]]
  /\ expired' = expired \ posting[t]
  /\ late' = late \cup (posting[t] \cap expired)
  /\ posting' = [posting EXCEPT ![t] = {}]
  /\ UNCHANGED <<objects, saving, found, left>>

\* An update that meets no row (StaleDataError), a crash, or any other error.
BindRollsBack(t) ==
  /\ posting[t] # {}
  /\ posting' = [posting EXCEPT ![t] = {}]
  /\ UNCHANGED <<row, objects, saving, expired, late, found, left>>

-----------------------------------------------------------------------------
(* delete_expired.                                                         *)

\* All staged files are taken, expired or not.
CleanUpReads_Everything(c) ==
  /\ found[c] = {} /\ Staged # {}
  /\ found' = [found EXCEPT ![c] = Staged] /\ left' = [left EXCEPT ![c] = Staged]
  /\ UNCHANGED <<row, objects, saving, expired, late, posting>>

\* The expired unbound files are read without a lock.
CleanUpReads(c) ==
  /\ found[c] = {} /\ Staged \cap expired # {}
  /\ found' = [found EXCEPT ![c] = Staged \cap expired]
  /\ left' = [left EXCEPT ![c] = Staged \cap expired]
  /\ UNCHANGED <<row, objects, saving, expired, late, posting>>

\* One object goes, at once.
RemoveObject(c) ==
  /\ \E f \in left[c] :
       objects' = objects \ {f} /\ left' = [left EXCEPT ![c] = @ \ {f}]
  /\ UNCHANGED <<row, saving, expired, late, posting, found>>

\* The rows are deleted before the objects are.
CleanUpCommits_RowsFirst(c) ==
  /\ found[c] # {}
  /\ row' = [f \in Files |-> IF f \in found[c] THEN "deleted" ELSE row[f]]
  /\ found' = [found EXCEPT ![c] = left[c]]
  /\ UNCHANGED <<objects, saving, expired, late, posting, left>>

\* The rows go with the commit, by their id: bound or not by now.
CleanUpCommits(c) ==
  /\ found[c] # {} /\ left[c] = {}
  /\ row' = [f \in Files |-> IF f \in found[c] THEN "deleted" ELSE row[f]]
  /\ found' = [found EXCEPT ![c] = {}]
  /\ UNCHANGED <<objects, saving, expired, late, posting, left>>

\* A crash, at any point: the rows stay, removed objects do not come back.
CleanUpFails(c) ==
  /\ found[c] # {}
  /\ found' = [found EXCEPT ![c] = {}] /\ left' = [left EXCEPT ![c] = {}]
  /\ UNCHANGED <<row, objects, saving, expired, late, posting>>

-----------------------------------------------------------------------------
Next ==
  \/ \E f \in Files : SaveObject(f) \/ CommitUpload(f) \/ UploadFails(f) \/ Expires(f)
  \/ \E t \in Tickets : BindReads(t) \/ BindCommits(t) \/ BindRollsBack(t)
  \/ \E c \in CleanUps :
       CleanUpReads(c) \/ RemoveObject(c) \/ CleanUpCommits(c) \/ CleanUpFails(c)

Spec == Init /\ [][Next]_vars

-----------------------------------------------------------------------------
(* Properties.                                                             *)

\* A row appears after its object, and a message binds files of its own ticket.
TypeOK ==
  /\ row \in [Files -> {"absent", "staged", "bound", "deleted"}]
  /\ objects \subseteq Files /\ expired \subseteq Files /\ late \subseteq Files
  /\ saving \subseteq objects /\ \A f \in saving : row[f] = "absent"
  /\ \A f \in expired \cup late : row[f] # "absent"
  /\ posting \in [Tickets -> SUBSET Files]
  /\ \A t \in Tickets : \A f \in posting[t] : TicketOf[f] = t /\ row[f] # "absent"
  /\ found \in [CleanUps -> SUBSET Files] /\ left \in [CleanUps -> SUBSET Files]
  /\ \A c \in CleanUps : left[c] \subseteq found[c] /\ \A f \in found[c] : row[f] # "absent"

\* Only a file that expired before a message bound it can lose its object or its row:
\* one that is bound in time is kept, whatever clean-ups run, race and crash
\* (attachments.py:177-179, and 134, which clears the expiry of what is bound).
OnlyExpiredFilesAreRemoved ==
  \A f \in Files :
    row[f] = "deleted" \/ (row[f] \in {"staged", "bound"} /\ f \notin objects)
      => f \in expired \cup late

\* A row is the only trace of its object, so it goes last: a clean-up leaves no object
\* that no row names, also when it crashes or when another one takes the same files
\* (attachments.py:183-185).
RowsGoLast ==
  \A f \in Files : row[f] = "deleted" => f \notin objects

\* "Delete staged-but-unattached attachment objects" (cleanup.py:1): what a message has
\* bound loses neither row nor object.
CleanUpSparesMessages ==
  [][\A f \in Files : row[f] = "bound" =>
       row'[f] = "bound" /\ (f \in objects => f \in objects')]_vars
=============================================================================
