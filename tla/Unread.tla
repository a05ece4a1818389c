-------------------------------- MODULE Unread --------------------------------
(***************************************************************************)
(* The private marker of one user on one ticket: messages that are dated   *)
(* before they commit, the requests of an open tab that move the marker,   *)
(* and the messages that count as unread.                                  *)
(*                                                                         *)
(* An instant is the number of messages that have been dated before it.    *)
(* Only messages that the user may see occur.                              *)
(***************************************************************************)
EXTENDS Naturals, Sequences, FiniteSets

CONSTANTS
  Writers,       \* those who write to the ticket
  Me,            \* the one whose marker is modelled
  MaxMessages,   \* bound: messages ever dated
  MaxMarks       \* bound: requests for the marker that are under way at a time

VARIABLES
  stored,   \* ticket_messages by position: sender and created_at
  dated,    \* the clock
  writing,  \* writer -> created_at of the message that is not committed yet, or 0
  open,     \* the user has the ticket open, and the ticket itself has been answered
  sent,     \* requests for the marker that the server has not dated
  stamps,   \* those it has dated, and not committed
  seen      \* last_seen_at, with the length of the thread when it was dated

vars == <<stored, dated, writing, open, sent, stamps, seen>>
threadVars == <<stored, dated, writing>>
markVars == <<open, sent, stamps, seen>>

ASSUME WriterAssumption == Me \in Writers
ASSUME BoundAssumption == MaxMessages \in Nat /\ MaxMarks \in Nat \ {0}

\* Without a marker the creation of the ticket is the baseline.
Init ==
  /\ stored = << >> /\ dated = 0 /\ writing = [w \in Writers |-> 0]
  /\ open = FALSE /\ sent = 0 /\ stamps = {}
  /\ seen = [now |-> 0, length |-> 0]

-----------------------------------------------------------------------------
(* create_message, between the lock on the ticket and the commit.          *)

\* The date is taken before the lock.
PostLocks_DatedFirst(w) ==
  /\ writing[w] = 0
  /\ dated < MaxMessages
  /\ dated' = dated + 1
  /\ writing' = [writing EXCEPT ![w] = dated + 1]
  /\ UNCHANGED <<stored, markVars>>

\* The row of the ticket is locked before the message is dated, until the commit.
PostLocks(w) ==
  /\ \A other \in Writers : writing[other] = 0
  /\ dated < MaxMessages
  /\ dated' = dated + 1
  /\ writing' = [writing EXCEPT ![w] = dated + 1]
  /\ UNCHANGED <<stored, markVars>>

PostCommits(w) ==
  /\ writing[w] # 0
  /\ stored' = Append(stored, [by |-> w, at |-> writing[w]])
  /\ writing' = [writing EXCEPT ![w] = 0]
  /\ UNCHANGED <<dated, markVars>>

PostRollsBack(w) ==
  /\ writing[w] # 0
  /\ writing' = [writing EXCEPT ![w] = 0]
  /\ UNCHANGED <<stored, dated, markVars>>

-----------------------------------------------------------------------------
(* The tab.                                                                *)

\* A request beyond the bound is lost.
SendMark ==
  sent' = IF sent + Cardinality(stamps) < MaxMarks THEN sent + 1 ELSE sent

OpenTab ==
  /\ ~open
  /\ open' = TRUE
  /\ SendMark
  /\ UNCHANGED <<threadVars, stamps, seen>>

\* A tab that is closed leaves its requests behind.
CloseTab ==
  /\ open
  /\ open' = FALSE
  /\ UNCHANGED <<threadVars, sent, stamps, seen>>

\* The marker moves when the ticket is opened only.
Revise_Unmarked ==
  /\ open
  /\ UNCHANGED vars

\* An event of the stream, the poll or the focus.
Revise ==
  /\ open
  /\ SendMark
  /\ UNCHANGED <<threadVars, open, stamps, seen>>

-----------------------------------------------------------------------------
(* mark_ticket_seen.                                                       *)

MarkStamps ==
  /\ sent > 0
  /\ sent' = sent - 1
  /\ stamps' = stamps \cup {[now |-> dated, length |-> Len(stored)]}
  /\ UNCHANGED <<threadVars, open, seen>>

\* The marker is overwritten, whichever is the later one.
MarkCommits ==
  /\ \E stamp \in stamps : seen' = stamp /\ stamps' = stamps \ {stamp}
  /\ UNCHANGED <<threadVars, open, sent>>

\* A request that is lost, refused or rolled back: the tab takes no notice.
MarkFails ==
  /\ \/ sent > 0 /\ sent' = sent - 1 /\ UNCHANGED stamps
     \/ \E stamp \in stamps : stamps' = stamps \ {stamp} /\ UNCHANGED sent
  /\ UNCHANGED <<threadVars, open, seen>>

\* What unread_counts counts, at its boundary and beyond.
IsUnread(message) == message.by # Me /\ message.at > seen.now

-----------------------------------------------------------------------------
Next ==
  \/ \E w \in Writers : PostLocks(w) \/ PostCommits(w) \/ PostRollsBack(w)
  \/ OpenTab \/ CloseTab \/ Revise
  \/ MarkStamps \/ MarkCommits \/ MarkFails

Spec == Init /\ [][Next]_vars

\* The poll revises an open tab for ever (useLiveUpdates); a request that is sent again
\* and again reaches the server and commits now and then.
Fairness == WF_vars(Revise) /\ SF_vars(MarkStamps) /\ SF_vars(MarkCommits)

FairSpec == Spec /\ Fairness

-----------------------------------------------------------------------------
(* Properties.                                                             *)

\* Of the messages of others that were not in the thread when the marker was dated, at
\* most the first one, which was being written, is taken as read: the lock on the ticket
\* comes before the date of a message, however late the marker commits and whichever
\* request overwrites it (messages.py:151-174, unread.py:21-29, 51).
MarkMissesAtMostOne ==
  \A id \in DOMAIN stored :
    id > seen.length + 1 /\ stored[id].by # Me => IsUnread(stored[id])

\* A message stays unread for ever only in a ticket that is closed in the browser,
\* though requests for the marker get lost and overtake one another
\* (TicketDetail.tsx:552-557).
ReadGetsMarked ==
  \A id \in 1..MaxMessages :
    (open /\ id \in DOMAIN stored)
      ~> (~open \/ (id \in DOMAIN stored /\ ~IsUnread(stored[id])))
=============================================================================
