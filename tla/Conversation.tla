----------------------------- MODULE Conversation -----------------------------
(***************************************************************************)
(* A ticket that one user has open in the browser while others write: the  *)
(* pages of GET /messages, how TicketDetail merges them, and the reply     *)
(* that is sent from there.                                                *)
(*                                                                         *)
(* Only messages that the viewer may see occur; a message is known by its  *)
(* place in the thread, and 0 is no message.                               *)
(***************************************************************************)
EXTENDS Naturals, Sequences, FiniteSets

CONSTANTS
  Writers,       \* those who write to the ticket
  Me,            \* the one whose tab is modelled
  PageSize,      \* the limit of a page
  MaxMessages    \* bound: messages ever stored

VARIABLES
  stored,    \* who wrote each of ticket_messages, by position
  open,      \* TicketDetail is mounted
  loaded,    \* the ticket itself has been answered
  shown,     \* messages: what the tab holds, and renders once the first load has ended
  newest,    \* newestId
  older,     \* olderCursor, 0 when has_more is false
  initial,   \* the first load: whether it has been read, and how long the thread was
  load,      \* the load of a revision, likewise, and its cursor
  draft,     \* the reply of this tab, and the message stored under its key
  overtaken  \* history: the cursor of a load under way when the first load moved it back

vars == <<stored, open, loaded, shown, newest, older, initial, load, draft, overtaken>>
viewVars == <<shown, newest, older, overtaken>>

ASSUME WriterAssumption == Me \in Writers
ASSUME BoundAssumption == PageSize \in Nat \ {0} /\ MaxMessages \in Nat

NoLoad == [pc |-> "none", after |-> 0, upTo |-> 0]
NoDraft == [pc |-> "idle", result |-> 0]

Init ==
  /\ stored = << >>
  /\ open = FALSE /\ loaded = FALSE
  /\ shown = << >> /\ newest = 0 /\ older = 0 /\ overtaken = 0
  /\ initial = NoLoad /\ load = NoLoad /\ draft = NoDraft

-----------------------------------------------------------------------------
(* The server: create_message and list_messages.                           *)

\* A message is committed.  What Me writes may be the reply of this tab, as long as its
\* key has no message, or one that was given up, or come from another tab.
Post(w) ==
  /\ Len(stored) < MaxMessages
  /\ stored' = Append(stored, w)
  /\ \/ UNCHANGED draft
     \/ /\ w = Me /\ draft.pc # "idle" /\ draft.result = 0
        /\ draft' = [draft EXCEPT !.result = Len(stored) + 1]
  /\ UNCHANGED <<open, loaded, viewVars, initial, load>>

Lesser(a, b) == IF a < b THEN a ELSE b

\* What a thread of length upTo answers: the last page, or the first one after a cursor.
Page(after, upTo) ==
  LET first == IF after # 0 THEN after + 1
               ELSE IF upTo > PageSize THEN upTo - PageSize + 1 ELSE 1
  IN  [i \in 1..(Lesser(first + PageSize - 1, upTo) - first + 1) |-> first + i - 1]

-----------------------------------------------------------------------------
(* The tab: mounting, revisions and answers.                               *)

Asked(after) == [pc |-> "asked", after |-> after, upTo |-> 0]
Ids(sequence) == {sequence[i] : i \in DOMAIN sequence}

Open ==
  /\ ~open
  /\ open' = TRUE
  /\ initial' = Asked(0)
  /\ UNCHANGED <<stored, loaded, viewVars, load, draft>>

\* Without the clean-up of the effects.
Close_KeepsLoads ==
  /\ open
  /\ open' = FALSE /\ loaded' = FALSE
  /\ shown' = << >> /\ newest' = 0 /\ older' = 0 /\ overtaken' = 0 /\ draft' = NoDraft
  /\ UNCHANGED <<stored, initial, load>>

\* The state of the component is gone, and its requests are aborted.
Close ==
  /\ open
  /\ open' = FALSE /\ loaded' = FALSE
  /\ shown' = << >> /\ newest' = 0 /\ older' = 0 /\ overtaken' = 0
  /\ initial' = NoLoad /\ load' = NoLoad /\ draft' = NoDraft
  /\ UNCHANGED stored

\* getTicket is asked at first and at every revision; it has to succeed once.
TicketArrives ==
  /\ open /\ ~loaded
  /\ loaded' = TRUE
  /\ UNCHANGED <<stored, open, viewVars, initial, load, draft>>

\* An event of the stream, the poll or the focus: the load under way is aborted, and
\* another one goes out.
Revise ==
  /\ open
  /\ load' = Asked(newest)
  /\ UNCHANGED <<stored, open, loaded, viewVars, initial, draft>>

InitialReads ==
  /\ initial.pc = "asked"
  /\ initial' = [initial EXCEPT !.pc = "read", !.upTo = Len(stored)]
  /\ UNCHANGED <<stored, open, loaded, viewVars, load, draft>>

LoadReads ==
  /\ load.pc = "asked"
  /\ load' = [load EXCEPT !.pc = "read", !.upTo = Len(stored)]
  /\ UNCHANGED <<stored, open, loaded, viewVars, initial, draft>>

\* A cursor that a revision has moved is kept.
InitialArrives_KeepsCursor ==
  LET page == Page(0, initial.upTo)
  IN  /\ initial.pc = "read"
      /\ shown' = page
      /\ newest' = IF newest # 0 \/ page = << >> THEN newest ELSE page[Len(page)]
      /\ older' = IF page # << >> /\ page[1] > 1 THEN page[1] ELSE 0
      /\ overtaken' = IF load.pc # "none" /\ load.after > newest' THEN load.after ELSE overtaken
      /\ initial' = NoLoad
      /\ UNCHANGED <<stored, open, loaded, load, draft>>

\* The first load takes the place of whatever is shown by then.
InitialArrives ==
  LET page == Page(0, initial.upTo)
  IN  /\ initial.pc = "read"
      /\ shown' = page
      /\ newest' = IF page = << >> THEN 0 ELSE page[Len(page)]
      /\ older' = IF page # << >> /\ page[1] > 1 THEN page[1] ELSE 0
      /\ overtaken' = IF load.pc # "none" /\ load.after > newest' THEN load.after ELSE overtaken
      /\ initial' = NoLoad
      /\ UNCHANGED <<stored, open, loaded, load, draft>>

\* The notice of a failure has a button to load again; nothing older is offered.
InitialFails ==
  /\ initial.pc \in {"asked", "read"}
  /\ initial' = [NoLoad EXCEPT !.pc = "failed"]
  /\ older' = 0
  /\ UNCHANGED <<stored, open, loaded, shown, newest, overtaken, load, draft>>

LoadAgain ==
  /\ initial.pc = "failed"
  /\ initial' = Asked(0)
  /\ UNCHANGED <<stored, open, loaded, viewVars, load, draft>>

\* Every message of the page is new.
Merged_All(page) == shown \o page

\* The messages of a page are in the order of the thread.
InOrder(ids) ==
  [i \in 1..Cardinality(ids) |->
     CHOOSE id \in ids : Cardinality({other \in ids : other <= id}) = i]
Additions(page) == InOrder(Ids(page) \ Ids(shown))

\* The messages of a page that are not there yet come last.
Merged(page) == shown \o Additions(page)

\* Nothing is merged before the first load has succeeded.
LoadArrives_AfterFirst ==
  LET page == Page(load.after, load.upTo)
  IN  /\ load.pc = "read"
      /\ shown' = IF initial.pc = "none" THEN Merged(page) ELSE shown
      /\ newest' = IF initial.pc = "none" /\ page # << >> THEN page[Len(page)] ELSE newest
      /\ load' = NoLoad
      /\ UNCHANGED <<stored, open, loaded, older, overtaken, initial, draft>>

\* The answer to the load of a revision: its messages are merged, the cursor goes to
\* the last of them.
LoadArrives ==
  LET page == Page(load.after, load.upTo)
  IN  /\ load.pc = "read"
      /\ shown' = Merged(page)
      /\ newest' = IF page # << >> THEN page[Len(page)]
                   ELSE IF load.after # 0 THEN load.after ELSE newest
      /\ load' = NoLoad
      /\ UNCHANGED <<stored, open, loaded, older, overtaken, initial, draft>>

LoadFails ==
  /\ load.pc # "none"
  /\ load' = NoLoad
  /\ UNCHANGED <<stored, open, loaded, viewVars, initial, draft>>

\* Messages before the cursor do not change, so that the request is one step.
LoadOlder ==
  LET first == IF older > PageSize THEN older - PageSize ELSE 1
      page == [i \in 1..(older - first) |-> first + i - 1]
  IN  /\ older # 0
      /\ shown' = Additions(page) \o shown
      /\ older' = IF first > 1 THEN first ELSE 0
      /\ UNCHANGED <<stored, open, loaded, newest, overtaken, initial, load, draft>>

-----------------------------------------------------------------------------
(* The tab: the reply.                                                     *)

\* Sent for the first time, or again under the same key.
SendReply ==
  /\ loaded /\ draft.pc \in {"idle", "failed"}
  /\ draft' = [draft EXCEPT !.pc = "sending"]
  /\ UNCHANGED <<stored, open, loaded, viewVars, initial, load>>

\* The created message is appended at once.
Appended_Blindly(id) == Append(shown, id)

\* The created message is appended unless a load has brought it.
Appended(id) == IF id \in Ids(shown) THEN shown ELSE Append(shown, id)

\* The cursor goes to the message; the next reply has another key.
SendAnswered ==
  /\ draft.pc = "sending" /\ draft.result # 0
  /\ shown' = Appended(draft.result)
  /\ newest' = draft.result
  /\ draft' = NoDraft
  /\ UNCHANGED <<stored, open, loaded, older, overtaken, initial, load>>

\* A refusal, a time-out or a lost answer: the server may have stored the message.
SendFails ==
  /\ draft.pc = "sending"
  /\ draft' = [draft EXCEPT !.pc = "failed"]
  /\ UNCHANGED <<stored, open, loaded, viewVars, initial, load>>

\* A reply that is edited gets another key; when that happens while it is sent, the key
\* matters once the request has failed.
EditReply ==
  /\ draft.pc = "failed"
  /\ draft' = NoDraft
  /\ UNCHANGED <<stored, open, loaded, viewVars, initial, load>>

-----------------------------------------------------------------------------
Next ==
  \/ \E w \in Writers : Post(w)
  \/ Open \/ Close \/ TicketArrives \/ Revise
  \/ InitialReads \/ InitialArrives \/ InitialFails \/ LoadAgain
  \/ LoadReads \/ LoadArrives \/ LoadFails \/ LoadOlder
  \/ SendReply \/ SendAnswered \/ SendFails \/ EditReply

Spec == Init /\ [][Next]_vars

\* The poll revises an open tab for ever (useLiveUpdates), more slowly than an answer
\* takes; a load that is asked again and again is answered now and then.
Fairness == WF_vars(Revise) /\ SF_vars(LoadReads) /\ SF_vars(LoadArrives)

FairSpec == Spec /\ Fairness

-----------------------------------------------------------------------------
(* Properties.                                                             *)

Loads == [pc: {"none", "asked", "read", "failed"}, after: Nat, upTo: Nat]

\* What the tab knows is in the thread, and a tab that is closed knows and waits for nothing.
TypeOK ==
  /\ stored \in Seq(Writers) /\ {open, loaded} \subseteq BOOLEAN
  /\ shown \in Seq(DOMAIN stored) /\ {newest, older, overtaken} \subseteq 0..Len(stored)
  /\ {initial, load} \subseteq Loads
  /\ {initial.upTo, load.upTo, load.after} \subseteq 0..Len(stored)
  /\ draft \in [pc: {"idle", "sending", "failed"}, result: 0..Len(stored)]
  /\ ~open => initial = NoLoad /\ load = NoLoad /\ shown = << >> /\ draft = NoDraft

ByMe(id) == stored[id] = Me

\* Why a message may be missing: an own one that came after it has been answered, which
\* moves the cursor past it; the first load has removed it again, and a load that was
\* under way has put the cursor back; or a page without a cursor did not reach back to it.
Excused(id) ==
  (\E j \in Ids(shown) : j > id /\ ByMe(j)) \/ id <= overtaken \/ id + PageSize <= Len(stored)

\* Whatever order answers come in, among them one of the first load that has been
\* overtaken and one of a reply, the cursor is never past a message that is not shown,
\* except for the reasons above: the next load brings it (TicketDetail.tsx:378-415,
\* messages.py:112-134).
SkippedHasReason ==
  \A id \in 1..newest : (shown # << >> /\ id > shown[1] /\ id \notin Ids(shown)) => Excused(id)

\* "message IDs are deduplicated" (docs/decisions/0003-live-conversation.md:13-14): no
\* message is shown twice, though a load, a reply and older pages may bring it.
NothingShownTwice ==
  \A i, j \in DOMAIN shown : shown[i] = shown[j] => i = j

\* While the tab is open, a reply gets into it, or can be loaded with the earlier ones,
\* or is missing for a reason, whatever loads fail (TicketDetail.tsx:394-415).
RepliesArrive ==
  \A id \in 1..MaxMessages :
    (open /\ id \in DOMAIN stored)
      ~> (~open \/ id \in Ids(shown) \/ id < older \/ Excused(id))
=============================================================================
