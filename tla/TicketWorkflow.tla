--------------------------- MODULE TicketWorkflow ---------------------------
(***************************************************************************)
(* The ticket write path: POST /tickets, PATCH /tickets/{id} and           *)
(* POST /tickets/{id}/messages as concurrent PostgreSQL transactions       *)
(* (READ COMMITTED) run by API processes.                                  *)
(*                                                                         *)
(* A request is several steps of its process.  It begins (its transaction  *)
(* timestamp is fixed), takes the advisory lock of its Idempotency-Key     *)
(* when it has one, takes the ticket row FOR UPDATE, and commits all it    *)
(* writes at once.  Until the commit nothing is visible; a rejection, an   *)
(* error or a crash rolls back and frees every lock of the transaction.    *)
(* What the commit writes is computed from the row read under the lock.    *)
(*                                                                         *)
(* Deadlines, the delivery of notifications and of outbox events, and the  *)
(* stored objects of attachments have modules of their own; here they are  *)
(* the rows that the two handlers insert or flip.                          *)
(***************************************************************************)
EXTENDS Naturals, Sequences, FiniteSets, TicketPolicy

CONSTANTS
  Tickets,      \* ticket ids that a creation may draw
  Customers,    \* users of role CUSTOMER
  Staff,        \* active users of role AGENT or ADMIN
  Keys,         \* Idempotency-Key header values
  Files,        \* attachment ids that an upload may draw
  Procs,        \* request handlers in flight
  Requests,     \* the requests that clients send
  Free,         \* an unheld lock
  Nobody,       \* no assignee
  MaxClock,     \* bound: requests ever begun
  MaxLapses     \* bound: idempotency records that ever expire

VARIABLES
  ticket,       \* rows of tickets
  messages,     \* rows of ticket_messages, in commit order
  events,       \* rows of ticket_events (the audit trail), in commit order
  outbox,       \* visibility of the outbox_events rows, in commit order
  cycles,       \* rows of ticket_sla_cycles: phase and first_response_at
  deliveries,   \* rows of notification_deliveries
  files,        \* rows of attachments
  records,      \* rows of idempotency_records
  keyLock,      \* pg_advisory_xact_lock holders
  rowLock,      \* SELECT ... FOR UPDATE holders of ticket rows
  tx,           \* the transaction of each process
  clock,        \* wall clock, advanced by each new transaction
  lapses        \* how often each key's record has expired

dbVars   == <<ticket, messages, events, outbox, cycles, deliveries, files>>
lockVars == <<keyLock, rowLock>>
vars     == <<dbVars, records, lockVars, tx, clock, lapses>>

-----------------------------------------------------------------------------
(* Constants of the schema.                                                *)

Visibilities == {"PUBLIC", "INTERNAL"}
Users == Customers \cup Staff
Assignees == Users \cup {Nobody}
Keep == "keep"       \* a field that a PATCH payload leaves out
Null == "null"

CreateRequests == [kind: {"create"}, actor: Users, ticket: Tickets, key: Keys,
                   customer: Customers, priority: Priorities]
MessageRequests == [kind: {"message"}, actor: Users, ticket: Tickets, key: Keys,
                    visibility: Visibilities, files: SUBSET Files]
PatchRequests == [kind: {"patch"}, actor: Staff, ticket: Tickets,
                  status: Statuses \cup {Keep}, priority: Priorities \cup {Keep},
                  assignee: Assignees \cup {Keep}, reason: BOOLEAN]

ASSUME RequestAssumption ==
  Requests \subseteq CreateRequests \cup MessageRequests \cup PatchRequests
ASSUME BoundAssumption == MaxClock \in Nat /\ MaxLapses \in Nat
ASSUME SentinelAssumption ==
  Free \notin Procs /\ Nobody \notin Users /\ Keep \notin Assignees
ASSUME RoleAssumption == Customers \cap Staff = {}

Slots == Users \X (Tickets \cup {"new"}) \X Keys

\* The advisory lock and the primary key of idempotency_records.
Slot(r) == <<r.actor, IF r.kind = "create" THEN "new" ELSE r.ticket, r.key>>

\* What request_digest tells apart.
Content(r) == IF r.kind = "create" THEN <<r.customer, r.priority>>
                                   ELSE <<r.visibility, r.files>>

NoTicket == [status |-> Null, priority |-> Null, assignee |-> Nobody,
             customer |-> Nobody, version |-> 0, updated |-> 0,
             publicUpdated |-> 0, resolvedAt |-> 0, closedAt |-> 0,
             firstResponse |-> 0]
NoFile == [ticket |-> Null, owner |-> Nobody, message |-> 0]
IdleTx == [pc |-> "idle"]

Exists(t) == ticket[t].version > 0

-----------------------------------------------------------------------------
(* sla.py, deadlines left out: the cycle rows a handler opens, pauses,     *)
(* resumes, answers and completes.                                         *)

\* is_active is TRUE in the first two phases; timestamps are 0 while NULL.
Phases == {"running", "paused", "completed"}

NewCycle(answered) == [phase |-> "running", answered |-> answered]

\* The active row with the highest cycle number; 0 when there is none.
ActiveCycle(cs) ==
  LET active == {i \in DOMAIN cs : cs[i].phase # "completed"}
  IN  IF active = {} THEN 0 ELSE CHOOSE i \in active : \A j \in active : j <= i

SetPhase(cs, phase) ==
  [i \in DOMAIN cs |-> IF i = ActiveCycle(cs) THEN [cs[i] EXCEPT !.phase = phase] ELSE cs[i]]

RecordFirstPublicResponse(cs, now) ==
  [i \in DOMAIN cs |-> IF i = ActiveCycle(cs) /\ cs[i].answered = 0
                       THEN [cs[i] EXCEPT !.answered = now] ELSE cs[i]]

\* Mutant: a reopening resumes the old cycle.
ApplyStatusChange_Resume(cs, old, new, answered) ==
  IF old = new THEN cs
  ELSE SetPhase(cs, IF new \in Completed THEN "completed"
                    ELSE IF new = "WAITING_FOR_CUSTOMER" THEN "paused" ELSE "running")

\* A reopening opens a cycle whose first response counts as given at answered.
ApplyStatusChange(cs, old, new, answered) ==
  CASE old = new -> cs
    [] old # new /\ new \in Completed -> SetPhase(cs, "completed")
    [] old # new /\ new = "WAITING_FOR_CUSTOMER" -> SetPhase(cs, "paused")
    [] old # new /\ new \notin Completed /\ new # "WAITING_FOR_CUSTOMER" ->
         IF old \in Completed THEN Append(SetPhase(cs, "running"), NewCycle(answered))
                              ELSE SetPhase(cs, "running")

OrNow(at, now) == IF at = 0 THEN now ELSE at

-----------------------------------------------------------------------------
(* The rows a commit writes, as functions of the row read under the lock.  *)

\* Mutant: the audience of an audit row is left to a default that is not there.
Event_NoAudience(field, old, new, visibility, at) ==
  [field |-> field, old |-> old, new |-> new, visibility |-> Null, at |-> at]

Event(field, old, new, visibility, at) ==
  [field |-> field, old |-> old, new |-> new, visibility |-> visibility, at |-> at]

\* Mutant: old and new value swapped.
ChangeEvent_Swapped(field, old, new, visibility, at) ==
  IF old = new THEN << >> ELSE <<Event(field, new, old, visibility, at)>>

\* The audit row of a column, when the column changes.  created_at is the server
\* default now(), which PostgreSQL fixes when the transaction starts.
ChangeEvent(field, old, new, visibility, at) ==
  IF old = new THEN << >> ELSE <<Event(field, old, new, visibility, at)>>

ChangeEvents(old, new, at) ==
  ChangeEvent("status", old.status, new.status, "PUBLIC", at)
    \o ChangeEvent("priority", old.priority, new.priority, "PUBLIC", at)
    \o ChangeEvent("assignee", old.assignee, new.assignee, "INTERNAL", at)

\* Mutant: an assignment counts as public.
PublicChange_Assignee(old, new) ==
  old.status # new.status \/ old.priority # new.priority \/ old.assignee # new.assignee

\* Customers see a change of status or priority, never one of assignee.
PublicChange(old, new) == old.status # new.status \/ old.priority # new.priority

\* Mutant: a reopening keeps closed_at.
Stamped_KeepsClosed(row, old, now) ==
  IF row.status = old THEN row
  ELSE IF row.status = "RESOLVED" THEN [row EXCEPT !.resolvedAt = now]
  ELSE IF row.status = "CLOSED" THEN [row EXCEPT !.closedAt = now]
  ELSE [row EXCEPT !.resolvedAt = 0]

\* resolved_at and closed_at after a status change.
Stamped(row, old, now) ==
  CASE row.status = old -> row
    [] row.status # old /\ row.status = "RESOLVED" ->
         [row EXCEPT !.resolvedAt = now, !.closedAt = 0]
    [] row.status # old /\ row.status = "CLOSED" -> [row EXCEPT !.closedAt = now]
    [] row.status # old /\ row.status \notin Completed ->
         IF old \in Completed THEN [row EXCEPT !.resolvedAt = 0, !.closedAt = 0] ELSE row

OrKeep(value, kept) == IF value = Keep THEN kept ELSE value

\* The columns a PATCH asks for; the bookkeeping columns as they were.
Wanted(row, r) ==
  [row EXCEPT !.status = OrKeep(r.status, @), !.priority = OrKeep(r.priority, @),
              !.assignee = OrKeep(r.assignee, @)]

Patched(row, r, now) ==
  LET new == Stamped(Wanted(row, r), row.status, now)
  IN  [new EXCEPT !.version = @ + 1, !.updated = now,
                  !.publicUpdated = IF PublicChange(row, new) THEN now ELSE @]

FromStaff(r) == r.actor \in Staff

\* Mutant: a customer's reply moves any ticket.
ReopensOnReply_Any(row, r) == r.visibility = "PUBLIC" /\ ~FromStaff(r)

\* A public reply of the customer takes the ticket back from these states.
ReopensOnReply(row, r) ==
  /\ r.visibility = "PUBLIC" /\ ~FromStaff(r)
  /\ row.status \in {"WAITING_FOR_CUSTOMER", "RESOLVED"}

\* Mutant: an internal note counts as the first response.
Replied_NoteResponds(row, r, now) ==
  LET reopen == ReopensOnReply(row, r)
  IN  [row EXCEPT
         !.version = @ + 1, !.updated = now,
         !.publicUpdated = IF r.visibility = "PUBLIC" THEN now ELSE @,
         !.firstResponse = IF FromStaff(r) /\ @ = 0 THEN now ELSE @,
         !.status = IF reopen THEN "IN_PROGRESS" ELSE @,
         !.resolvedAt = IF reopen THEN 0 ELSE @,
         !.closedAt = IF reopen THEN 0 ELSE @]

Replied(row, r, now) ==
  LET public == r.visibility = "PUBLIC"
      reopen == ReopensOnReply(row, r)
  IN  [row EXCEPT
         !.version = @ + 1, !.updated = now,
         !.publicUpdated = IF public THEN now ELSE @,
         !.firstResponse = IF public /\ FromStaff(r) /\ @ = 0 THEN now ELSE @,
         !.status = IF reopen THEN "IN_PROGRESS" ELSE @,
         !.resolvedAt = IF reopen THEN 0 ELSE @,
         !.closedAt = IF reopen THEN 0 ELSE @]

\* Mutant: the customer's answer to a waiting ticket opens a cycle, too.
RepliedCycles_Reopen(cs, row, r, now) ==
  IF r.visibility = "PUBLIC" /\ FromStaff(r) THEN RecordFirstPublicResponse(cs, now)
  ELSE IF ReopensOnReply(row, r)
  THEN Append(SetPhase(cs, "completed"), NewCycle(OrNow(row.firstResponse, now)))
  ELSE cs

RepliedCycles(cs, row, r, now) ==
  IF r.visibility = "PUBLIC" /\ FromStaff(r) THEN RecordFirstPublicResponse(cs, now)
  ELSE IF ReopensOnReply(row, r)
  THEN ApplyStatusChange(cs, row.status, "IN_PROGRESS", OrNow(row.firstResponse, now))
  ELSE cs

\* Mutant: internal notes are announced as well.
NewDeliveries_Notes(row, r, position) ==
  LET to == IF FromStaff(r) THEN row.customer ELSE row.assignee
  IN  IF to = r.actor THEN {} ELSE {[message |-> position, recipient |-> to]}

\* enqueue_for_message: a public message is announced to the other side, and to
\* the support queue when nobody is assigned; never to its author.
NewDeliveries(row, r, position) ==
  LET to == IF FromStaff(r) THEN row.customer ELSE row.assignee
  IN  IF r.visibility # "PUBLIC" \/ to = r.actor THEN {}
      ELSE {[message |-> position, recipient |-> to]}

-----------------------------------------------------------------------------
(* What a handler answers after it has read the rows it depends on.        *)

\* Mutant: an internal note explains a resolution.
HasPublicStaffReply_Note(t) == \E i \in DOMAIN messages[t] : messages[t][i].sender \in Staff

HasPublicStaffReply(t) ==
  \E i \in DOMAIN messages[t] :
     messages[t][i].visibility = "PUBLIC" /\ messages[t][i].sender \in Staff

\* Mutant: If-Match is required but not compared.
PatchRefused_AnyMatch(row, r, match) ==
  LET new == Wanted(row, r)
  IN  \/ row.version = 0 \/ match = 0
      \/ new.assignee \notin Staff \cup {Nobody}
      \/ ~ValidTransition(row.status, new.status, r.reason)
      \/ new.status # row.status /\ new.status = "RESOLVED" /\ ~HasPublicStaffReply(r.ticket)

\* 404, 428 (match 0: no If-Match), 412, 422 and 409 of patch_ticket.
PatchRefused(row, r, match) ==
  LET new == Wanted(row, r)
  IN  \/ row.version = 0
      \/ match # row.version
      \/ new.assignee \notin Staff \cup {Nobody}
      \/ ~ValidTransition(row.status, new.status, r.reason)
      \/ new.status # row.status /\ new.status = "RESOLVED" /\ ~HasPublicStaffReply(r.ticket)

\* Mutant: a bound file can be sent again.
Bindable_Again(r) ==
  \A f \in r.files : files[f].ticket = r.ticket /\ files[f].owner = r.actor

\* A file binds once, to a message of its own ticket, by its uploader.
Bindable(r) ==
  \A f \in r.files :
    files[f].ticket = r.ticket /\ files[f].owner = r.actor /\ files[f].message = 0

\* The checks of create_message in front of the replay answer, and behind it.
MessageForbidden(row, r) ==
  \/ row.version = 0
  \/ ~FromStaff(r) /\ row.customer # r.actor
  \/ ~FromStaff(r) /\ r.visibility # "PUBLIC"

\* Mutant: only staff is kept from replying publicly on a closed ticket.
MessageRefused_Staff(row, r) ==
  \/ row.status = "CLOSED" /\ r.visibility = "PUBLIC" /\ FromStaff(r)
  \/ ~Bindable(r)

MessageRefused(row, r) ==
  \/ row.status = "CLOSED" /\ r.visibility = "PUBLIC"
  \/ ~Bindable(r)

-----------------------------------------------------------------------------
Init ==
  /\ ticket = [t \in Tickets |-> NoTicket]
  /\ messages = [t \in Tickets |-> << >>]
  /\ events = [t \in Tickets |-> << >>]
  /\ outbox = [t \in Tickets |-> << >>]
  /\ cycles = [t \in Tickets |-> << >>]
  /\ deliveries = [t \in Tickets |-> {}]
  /\ files = [f \in Files |-> NoFile]
  /\ records = {}
  /\ keyLock = [s \in Slots |-> Free]
  /\ rowLock = [t \in Tickets |-> Free]
  /\ tx = [p \in Procs |-> IdleTx]
  /\ clock = 0
  /\ lapses = [s \in Slots |-> 0]

Busy(p) == tx[p].pc # "idle"

\* A creation draws an id that no row has and no other transaction draws.
FreshTicket(t) ==
  /\ ~Exists(t)
  /\ \A p \in Procs : Busy(p) => ~(tx[p].req.kind = "create" /\ tx[p].req.ticket = t)

\* A client sends a request; authenticating it is the first statement of its
\* transaction, and PostgreSQL's now() is that moment from here on.
Begin(p) ==
  /\ ~Busy(p) /\ clock < MaxClock
  /\ \E r \in Requests :
       \E match \in IF r.kind = "patch" THEN 0..ticket[r.ticket].version ELSE {0} :
         /\ r.kind = "create" => FreshTicket(r.ticket)
         /\ tx' = [tx EXCEPT ![p] =
              [pc |-> IF r.kind = "patch" THEN "locking" ELSE "keying",
               req |-> r, match |-> match, began |-> clock + 1, replay |-> FALSE,
               row |-> NoTicket, last |-> 0, now |-> 0]]
  /\ clock' = clock + 1
  /\ UNCHANGED <<dbVars, records, lockVars, lapses>>

\* Mutant: a row lock outlives its transaction.
End_KeepsRow(p) ==
  /\ tx' = [tx EXCEPT ![p] = IdleTx]
  /\ keyLock' = [s \in Slots |-> IF keyLock[s] = p THEN Free ELSE keyLock[s]]
  /\ UNCHANGED rowLock

\* The end of a transaction frees its locks, however it ends.
End(p) ==
  /\ tx' = [tx EXCEPT ![p] = IdleTx]
  /\ keyLock' = [s \in Slots |-> IF keyLock[s] = p THEN Free ELSE keyLock[s]]
  /\ rowLock' = [t \in Tickets |-> IF rowLock[t] = p THEN Free ELSE rowLock[t]]

Live(s) == {rec \in records : rec.slot = s /\ ~rec.lapsed}

MayCreate(r) == FromStaff(r) \/ r.customer = r.actor

\* Mutant: no advisory lock in front of the record.
BeginIdempotency_NoLock(p) ==
  LET r == tx[p].req
      live == Live(Slot(r))
  IN  /\ tx[p].pc = "keying"
      /\ \A rec \in live : rec.content = Content(r)
      /\ r.kind = "create" => live = {} /\ MayCreate(r)
      /\ tx' = [tx EXCEPT ![p].pc = IF r.kind = "create" THEN "ready" ELSE "locking",
                          ![p].replay = live # {}, ![p].now = clock]
      /\ UNCHANGED <<dbVars, records, lockVars, clock, lapses>>

\* begin_idempotency: the advisory lock, then the record of the key.  An expired
\* record counts as none; the same key for other content is a 409.
BeginIdempotency(p) ==
  LET r == tx[p].req
      live == Live(Slot(r))
  IN  /\ tx[p].pc = "keying" /\ keyLock[Slot(r)] = Free
      /\ \A rec \in live : rec.content = Content(r)
      /\ r.kind = "create" => live = {} /\ MayCreate(r)
      /\ keyLock' = [keyLock EXCEPT ![Slot(r)] = p]
      /\ tx' = [tx EXCEPT ![p].pc = IF r.kind = "create" THEN "ready" ELSE "locking",
                          ![p].replay = live # {}, ![p].now = clock]
      /\ UNCHANGED <<dbVars, records, rowLock, clock, lapses>>

\* The key's lock is waited for, and the answer ends the request: 409 for other
\* content, the stored ticket for a repeated creation, or 403.
AnswerFromKey(p) ==
  LET r == tx[p].req
      live == Live(Slot(r))
  IN  /\ tx[p].pc = "keying" /\ keyLock[Slot(r)] = Free
      /\ \/ \E rec \in live : rec.content # Content(r)
         \/ r.kind = "create" /\ live # {}
         \/ r.kind = "create" /\ ~MayCreate(r)
      /\ End(p)
      /\ UNCHANGED <<dbVars, records, clock, lapses>>

\* Does the row leave the handler something to write?
Proceeds(p, row) ==
  LET r == tx[p].req
  IN  \/ /\ r.kind = "patch"
         /\ ~PatchRefused(row, r, tx[p].match)
         /\ Wanted(row, r) # row
      \/ /\ r.kind = "message" /\ ~tx[p].replay
         /\ ~MessageForbidden(row, r) /\ ~MessageRefused(row, r)

\* Mutant: the row is read without FOR UPDATE.
LockTicket_NoLock(p) ==
  LET t == tx[p].req.ticket
  IN  /\ tx[p].pc = "locking" /\ Proceeds(p, ticket[t])
      /\ tx' = [tx EXCEPT ![p].pc = "ready", ![p].row = ticket[t],
                          ![p].last = Len(messages[t]), ![p].now = clock]
      /\ UNCHANGED <<dbVars, records, lockVars, clock, lapses>>

\* SELECT ... FOR UPDATE: the row is read once no other transaction holds it;
\* the clock that stamps the write is read after that.
LockTicket(p) ==
  LET t == tx[p].req.ticket
  IN  /\ tx[p].pc = "locking" /\ rowLock[t] = Free
      /\ Proceeds(p, ticket[t])
      /\ rowLock' = [rowLock EXCEPT ![t] = p]
      /\ tx' = [tx EXCEPT ![p].pc = "ready", ![p].row = ticket[t],
                          ![p].last = Len(messages[t]), ![p].now = clock]
      /\ UNCHANGED <<dbVars, records, keyLock, clock, lapses>>

\* The row is waited for, and the handler ends without a write: a refusal, an
\* unchanged PATCH, or the stored message of a repeated reply.
AnswerFromRow(p) ==
  LET t == tx[p].req.ticket
  IN  /\ tx[p].pc = "locking" /\ rowLock[t] = Free
      /\ ~Proceeds(p, ticket[t])
      /\ End(p)
      /\ UNCHANGED <<dbVars, records, clock, lapses>>

\* Mutant: the record names the position before the reply's.
Claim_Behind(r, position) ==
  {rec \in records : rec.slot # Slot(r) \/ ~rec.lapsed}
    \cup {[slot |-> Slot(r), content |-> Content(r), ticket |-> r.ticket,
           message |-> IF position > 1 THEN position - 1 ELSE position, lapsed |-> FALSE]}

\* finish_idempotency, and the expired record that begin_idempotency deleted.
Claim(r, position) ==
  {rec \in records : rec.slot # Slot(r) \/ ~rec.lapsed}
    \cup {[slot |-> Slot(r), content |-> Content(r), ticket |-> r.ticket,
           message |-> position, lapsed |-> FALSE]}

CommitCreate(p) ==
  LET r == tx[p].req
      t == r.ticket
      now == tx[p].now
  IN  /\ tx[p].pc = "ready" /\ r.kind = "create"
      /\ ticket' = [ticket EXCEPT ![t] =
           [NoTicket EXCEPT !.status = "OPEN", !.priority = r.priority,
                            !.customer = r.customer, !.version = 1,
                            !.updated = now, !.publicUpdated = now]]
      /\ cycles' = [cycles EXCEPT ![t] = Append(@, NewCycle(0))]
      /\ events' = [events EXCEPT ![t] =
           Append(@, Event("status", Null, "OPEN", "PUBLIC", tx[p].began))]
      /\ outbox' = [outbox EXCEPT ![t] = Append(@, "PUBLIC")]
      /\ records' = Claim(r, 0)
      /\ End(p)
      /\ UNCHANGED <<messages, deliveries, files, clock, lapses>>

CommitPatch(p) ==
  LET r == tx[p].req
      t == r.ticket
      old == tx[p].row
      new == Patched(old, r, tx[p].now)
  IN  /\ tx[p].pc = "ready" /\ r.kind = "patch"
      /\ ticket' = [ticket EXCEPT ![t] = new]
      /\ cycles' = [cycles EXCEPT ![t] = 
           ApplyStatusChange(@, old.status, new.status,
                             OrNow(old.firstResponse, tx[p].now))]
      /\ events' = [events EXCEPT ![t] = @ \o ChangeEvents(old, new, tx[p].began)]
      /\ outbox' = [outbox EXCEPT ![t] =
           Append(@, IF PublicChange(old, new) THEN "PUBLIC" ELSE "INTERNAL")]
      /\ End(p)
      /\ UNCHANGED <<messages, deliveries, files, records, clock, lapses>>

CommitMessage(p) ==
  LET r == tx[p].req
      t == r.ticket
      old == tx[p].row
      new == Replied(old, r, tx[p].now)
      position == tx[p].last + 1
  IN  /\ tx[p].pc = "ready" /\ r.kind = "message"
      /\ ticket' = [ticket EXCEPT ![t] = new]
      /\ messages' = [messages EXCEPT ![t] =
           Append(@, [sender |-> r.actor, visibility |-> r.visibility,
                      position |-> position, created |-> tx[p].now,
                      slot |-> Slot(r)])]
      /\ files' = [f \in Files |->
           IF f \in r.files THEN [files[f] EXCEPT !.message = position] ELSE files[f]]
      /\ cycles' = [cycles EXCEPT ![t] = RepliedCycles(@, old, r, tx[p].now)]
      /\ events' = [events EXCEPT ![t] =
           Append(@ \o ChangeEvents(old, new, tx[p].began),
                  Event("message", Null, Null, r.visibility, tx[p].began))]
      /\ outbox' = [outbox EXCEPT ![t] = Append(@, r.visibility)]
      /\ deliveries' = [deliveries EXCEPT ![t] = @ \cup NewDeliveries(old, r, position)]
      /\ records' = Claim(r, position)
      /\ End(p)
      /\ UNCHANGED <<clock, lapses>>

\* A crash, a lost connection or a database error before the commit.
Rollback(p) ==
  /\ Busy(p)
  /\ End(p)
  /\ UNCHANGED <<dbVars, records, clock, lapses>>

\* The committed effect of an upload: a staged file of a visible ticket.
Upload(f) ==
  /\ files[f] = NoFile
  /\ \E t \in Tickets, u \in Users :
       /\ Exists(t) /\ (u \in Customers => ticket[t].customer = u)
       /\ files' = [files EXCEPT ![f] = [ticket |-> t, owner |-> u, message |-> 0]]
  /\ UNCHANGED <<ticket, messages, events, outbox, cycles, deliveries, records,
                 lockVars, tx, clock, lapses>>

\* 24 hours pass for an idempotency record.
Lapse(rec) ==
  /\ ~rec.lapsed /\ lapses[rec.slot] < MaxLapses
  /\ records' = (records \ {rec}) \cup {[rec EXCEPT !.lapsed = TRUE]}
  /\ lapses' = [lapses EXCEPT ![rec.slot] = @ + 1]
  /\ UNCHANGED <<dbVars, lockVars, tx, clock>>

Step(p) ==
  \/ BeginIdempotency(p) \/ AnswerFromKey(p)
  \/ LockTicket(p) \/ AnswerFromRow(p)
  \/ CommitCreate(p) \/ CommitPatch(p) \/ CommitMessage(p)

Next ==
  \/ \E p \in Procs : Begin(p) \/ Step(p) \/ Rollback(p)
  \/ \E f \in Files : Upload(f)
  \/ \E rec \in records : Lapse(rec)

Spec == Init /\ [][Next]_vars

\* A handler whose lock is free goes on; PostgreSQL queues lock waiters, so a
\* waiter that is passed over gets its turn (strong fairness).
Fairness == \A p \in Procs : SF_vars(Step(p))

FairSpec == Spec /\ Fairness

-----------------------------------------------------------------------------
(* Types.                                                                  *)

TicketRow ==
  [status: Statuses \cup {Null}, priority: Priorities \cup {Null},
   assignee: Assignees, customer: Customers \cup {Nobody}, version: Nat,
   updated: Nat, publicUpdated: Nat, resolvedAt: Nat, closedAt: Nat,
   firstResponse: Nat]
MessageRow == [sender: Users, visibility: Visibilities, position: Nat \ {0},
               created: Nat, slot: Slots]
EventRow == [field: {"status", "priority", "assignee", "message"},
             old: Statuses \cup Priorities \cup Assignees \cup {Null},
             new: Statuses \cup Priorities \cup Assignees \cup {Null},
             visibility: Visibilities, at: Nat]
CycleRow == [phase: Phases, answered: Nat]
DeliveryRow == [message: Nat \ {0}, recipient: Assignees]
FileRow == [ticket: Tickets \cup {Null}, owner: Assignees, message: Nat]
RecordRow == [slot: Slots,
              content: (Customers \X Priorities) \cup (Visibilities \X SUBSET Files),
              ticket: Tickets, message: Nat, lapsed: BOOLEAN]
BusyTx == [pc: {"keying", "locking", "ready"}, req: Requests, match: Nat,
           began: Nat, replay: BOOLEAN, row: TicketRow, last: Nat, now: Nat]

\* Every row has the columns and the domains that models.py declares.
TypeOK ==
  /\ ticket \in [Tickets -> TicketRow]
  /\ messages \in [Tickets -> Seq(MessageRow)]
  /\ events \in [Tickets -> Seq(EventRow)]
  /\ outbox \in [Tickets -> Seq(Visibilities)]
  /\ cycles \in [Tickets -> Seq(CycleRow)]
  /\ deliveries \in [Tickets -> SUBSET DeliveryRow]
  /\ files \in [Files -> FileRow]
  /\ records \subseteq RecordRow
  /\ keyLock \in [Slots -> Procs \cup {Free}]
  /\ rowLock \in [Tickets -> Procs \cup {Free}]
  /\ tx \in [Procs -> {IdleTx} \cup BusyTx]
  /\ clock \in Nat
  /\ lapses \in [Slots -> Nat]

-----------------------------------------------------------------------------
(* Safety.                                                                 *)

ReadIsCurrent(p) ==
  LET t == tx[p].req.ticket
  IN  /\ rowLock[t] = p
      /\ tx[p].row = ticket[t] /\ tx[p].last = Len(messages[t])
      /\ Proceeds(p, ticket[t])

\* While a PATCH or a reply is about to commit, it holds its ticket alone, the
\* row and the end of the thread it read are still the committed ones, and what
\* its handler decided on them (If-Match, the policy, the required public reply,
\* the open ticket, the free files) would be decided again: FOR UPDATE with
\* populate_existing leaves no room between the checks and the write.
ReadsStayCurrent ==
  \A p \in Procs : tx[p].pc = "ready" /\ tx[p].req.kind # "create" => ReadIsCurrent(p)

\* Every committed write of a ticket counted its version up once and left one
\* outbox row (those that the SLA worker adds, which change no column of the
\* ticket, are not in this model): no update is lost, and none is invisible to the
\* live channel.
VersionCountsWrites == \A t \in Tickets : ticket[t].version = Len(outbox[t])

ToldPublicly(t) ==
  \E i \in DOMAIN messages[t] :
     messages[t][i].visibility = "PUBLIC" /\ messages[t][i].sender \in Staff

\* The audit rows of a column: each changes it, the next one starts where it left the
\* column, and the last one left it as it is.
RowsOf(trail, field) == {i \in DOMAIN trail : trail[i].field = field}
TrailExplains(trail, field, value) ==
  LET rows == RowsOf(trail, field)
  IN  \A i \in rows :
        /\ trail[i].old # trail[i].new
        /\ (\A j \in rows : j <= i) => trail[i].new = value
        /\ \A j \in rows : i < j /\ (\A k \in rows : k <= i \/ j <= k)
                             => trail[i].new = trail[j].old

\* In commit order the audit rows of a column are a chain that ends in its value.
TrailExplainsColumns(t) ==
  /\ TrailExplains(events[t], "status", ticket[t].status)
  /\ TrailExplains(events[t], "priority", ticket[t].priority)
  /\ TrailExplains(events[t], "assignee", ticket[t].assignee)

StampsFollowStatus(t) ==
  /\ ticket[t].resolvedAt > 0 <=> ticket[t].status \in Completed
  /\ ticket[t].closedAt > 0 <=> ticket[t].status = "CLOSED"
  /\ ticket[t].closedAt > 0 => ticket[t].closedAt >= ticket[t].resolvedAt

\* The audit rows that take a resolved or closed ticket back.
Reopenings(trail) ==
  {i \in RowsOf(trail, "status") : trail[i].old \in Completed /\ trail[i].new = "IN_PROGRESS"}

\* The creation and each reopening open a cycle, and nothing else does; the last one
\* has the phase that belongs to the status, the others are completed.
CyclesFollowTrail(t) ==
  LET cs == cycles[t]
  IN  /\ \A i \in 1..(Len(cs) - 1) : cs[i].phase = "completed"
      /\ Exists(t) =>
           /\ Len(cs) = 1 + Cardinality(Reopenings(events[t]))
           /\ cs[Len(cs)].phase = CASE ticket[t].status \in Completed -> "completed"
                                    [] ticket[t].status = "WAITING_FOR_CUSTOMER" -> "paused"
                                    [] OTHER -> "running"

\* first_agent_response_at and every cycle carry the moment of the first public staff
\* reply, never that of a note.
ResponseFollowsThread(t) ==
  /\ ticket[t].firstResponse > 0 <=> ToldPublicly(t)
  /\ \A i \in DOMAIN cycles[t] : cycles[t][i].answered = ticket[t].firstResponse

\* Exactly the public messages are announced, each once and to the other side.
DeliveriesFollowThread(t) ==
  /\ {d.message : d \in deliveries[t]} =
       {i \in DOMAIN messages[t] : messages[t][i].visibility = "PUBLIC"}
  /\ \A d1, d2 \in deliveries[t] : d1.message = d2.message => d1 = d2
  /\ \A d \in deliveries[t] :
       d.recipient \in Customers <=> messages[t][d.message].sender \in Staff

\* The columns, timestamps, SLA cycles and notifications of a ticket are those that its
\* audit trail and its thread account for, over every order of moves, replies and
\* reopenings by both handlers (ADR 0004: atomic ticket/audit writes).
HistoryExplainsTicket ==
  \A t \in Tickets :
    /\ TrailExplainsColumns(t) /\ StampsFollowStatus(t) /\ CyclesFollowTrail(t)
    /\ ResponseFollowsThread(t) /\ DeliveriesFollowThread(t)

\* A ticket rests in RESOLVED or CLOSED only if the customer was told why: a
\* public staff reply exists (tickets.py, resolution_requires_public_reply), and
\* no race of moves, notes and replies gets around it.
ResolutionWasExplained ==
  \A t \in Tickets : ticket[t].status \in Completed => ToldPublicly(t)

\* Whatever is retried, and however the retries overlap, one Idempotency-Key has
\* one record, which points to what the key wrote, and writes one message per lifetime
\* of that record.
OneEffectPerKey ==
  /\ \A r1, r2 \in records : r1.slot = r2.slot => r1 = r2
  /\ \A rec \in records :
       /\ Exists(rec.ticket)
       /\ rec.message > 0 => /\ rec.message <= Len(messages[rec.ticket])
                             /\ messages[rec.ticket][rec.message].slot = rec.slot
  /\ \A t \in Tickets, s \in Slots :
       Cardinality({i \in DOMAIN messages[t] : messages[t][i].slot = s}) <= 1 + lapses[s]

-----------------------------------------------------------------------------
(* What a step may never do.                                               *)

\* A PATCH overwrites exactly the version its client has seen (If-Match): two
\* edits of one version never both commit.
EditsAreNotStale ==
  [][\A p \in Procs : CommitPatch(p) =>
       tx[p].match = ticket[tx[p].req.ticket].version]_vars

\* A public reply never lands on a closed ticket, whatever the race with the
\* PATCH that closes it (ADR 0004: public messages cannot race past a close).
NoPublicReplyOnClosed ==
  [][\A t \in Tickets : ticket[t].status = "CLOSED" =>
       \A i \in DOMAIN messages'[t] \ DOMAIN messages[t] :
          messages'[t][i].visibility = "INTERNAL"]_vars

\* Internal work leaves no trace a customer can see: public_updated_at moves, and
\* a PUBLIC outbox row appears, exactly when status, priority or the public thread
\* changed; a write never moves the timestamps backwards.
InternalWorkIsInvisible ==
  [][\A t \in Tickets : ticket'[t] # ticket[t] =>
       LET visible == \/ ticket'[t].status # ticket[t].status
                      \/ ticket'[t].priority # ticket[t].priority
                      \/ \E i \in DOMAIN messages'[t] \ DOMAIN messages[t] :
                            messages'[t][i].visibility = "PUBLIC"
       IN  /\ visible <=> outbox'[t][Len(outbox'[t])] = "PUBLIC"
           /\ visible => ticket'[t].publicUpdated = ticket'[t].updated
           /\ ~visible => ticket'[t].publicUpdated = ticket[t].publicUpdated
           /\ ticket[t].updated <= ticket'[t].updated]_vars

\* What a file is attached to never changes.
AttachesOnce ==
  [][\A f \in Files : files[f].message > 0 => files'[f] = files[f]]_vars

-----------------------------------------------------------------------------
(* The transactions implement the serial ledger: a commit is a ledger step,  *)
(* everything else is invisible to it.                                       *)

Thread(s) == [i \in 1..Len(s) |-> [sender |-> s[i].sender, visibility |-> s[i].visibility]]

Ledger == INSTANCE TicketLedger WITH
  Message <- [sender: Users, visibility: Visibilities],
  status  <- [t \in Tickets |-> ticket[t].status],
  version <- [t \in Tickets |-> ticket[t].version],
  thread  <- [t \in Tickets |-> Thread(messages[t])]

\* Concurrent requests, retries, aborts and crashes included, every ticket
\* behaves as a serial object that follows the policy table.
SerialTickets == Ledger!Spec

-----------------------------------------------------------------------------
(* Liveness, under FairSpec.                                               *)

\* Advisory lock before row lock, and locks freed by every end: no request that
\* was begun hangs behind others.
RequestsEnd == \A p \in Procs : Busy(p) ~> ~Busy(p)
====
