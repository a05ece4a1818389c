------------------------ MODULE TicketWorkflowProofs ------------------------
(***************************************************************************)
(* What holds of TicketWorkflow for every set of tickets, users, keys,     *)
(* files, processes and requests: types, the lock discipline, that the     *)
(* transactions implement the serial ledger, and what an Idempotency-Key   *)
(* promises over any number of expiries.  Then what the history of a       *)
(* ticket says of it: its audit trail, its thread, its SLA cycles and its  *)
(* notifications account for its columns, and internal work leaves no      *)
(* trace that a customer can see.                                          *)
(***************************************************************************)
EXTENDS TicketWorkflow, SequenceTheorems, FiniteSetTheorems, TLAPS

-----------------------------------------------------------------------------
(* Requests and transactions.                                              *)

\* The kind of a request tells which payload it has.
LEMMA RequestKinds ==
  ASSUME NEW r \in Requests
  PROVE  /\ r.kind \in {"create", "patch", "message"}
         /\ r.ticket \in Tickets /\ r.actor \in Users
         /\ r.kind = "create" => r \in CreateRequests
         /\ r.kind = "patch" => r \in PatchRequests
         /\ r.kind = "message" => r \in MessageRequests
         /\ r.kind # "patch" => Slot(r) \in Slots
BY RequestAssumption, RoleAssumption
   DEF CreateRequests, PatchRequests, MessageRequests, Users, Slot, Slots

\* A transaction in flight has all its columns.
LEMMA BusyTxType ==
  ASSUME TypeOK, NEW p \in Procs, tx[p].pc # "idle"
  PROVE  tx[p] \in BusyTx
BY DEF TypeOK, IdleTx

\* However a transaction ends, it leaves well-typed locks.
LEMMA EndType ==
  ASSUME TypeOK, NEW p \in Procs, End(p)
  PROVE  /\ keyLock' \in [Slots -> Procs \cup {Free}]
         /\ rowLock' \in [Tickets -> Procs \cup {Free}]
         /\ tx' \in [Procs -> {IdleTx} \cup BusyTx]
BY DEF TypeOK, End

-----------------------------------------------------------------------------
(* The rows that a commit writes.                                          *)

\* A patched row is a row, one version further; its status is the wanted one.
LEMMA PatchedRow ==
  ASSUME NEW row \in TicketRow, NEW r \in PatchRequests, NEW now \in Nat
  PROVE  /\ Patched(row, r, now) \in TicketRow
         /\ Patched(row, r, now).version = row.version + 1
         /\ Patched(row, r, now).status = Wanted(row, r).status
         /\ Wanted(row, r).status \in Statuses \cup {row.status}
<1> DEFINE new == Stamped(Wanted(row, r), row.status, now)
<1>1. /\ Wanted(row, r) \in TicketRow
      /\ Wanted(row, r).version = row.version
      /\ Wanted(row, r).status \in Statuses \cup {row.status}
  <2>1. /\ OrKeep(r.status, row.status) \in Statuses \cup {row.status}
        /\ OrKeep(r.priority, row.priority) \in Priorities \cup {row.priority}
        /\ OrKeep(r.assignee, row.assignee) \in Assignees \cup {row.assignee}
    BY DEF OrKeep, PatchRequests
  <2>2. Wanted(row, r) = [row EXCEPT !.status = OrKeep(r.status, row.status),
                                     !.priority = OrKeep(r.priority, row.priority),
                                     !.assignee = OrKeep(r.assignee, row.assignee)]
    BY DEF Wanted, TicketRow
  <2> QED
    BY <2>1, <2>2 DEF TicketRow
<1>2. /\ new \in TicketRow
      /\ new.version = row.version
      /\ new.status = Wanted(row, r).status
  <2>1. \A w \in TicketRow : \A old :
           /\ Stamped(w, old, now) \in TicketRow
           /\ Stamped(w, old, now).version = w.version
           /\ Stamped(w, old, now).status = w.status
    <3> TAKE w \in TicketRow
    <3> TAKE old
    <3>1. CASE w.status = old
      BY <3>1 DEF Stamped
    <3>2. CASE w.status # old /\ w.status = "RESOLVED"
      BY <3>2 DEF Stamped, TicketRow, Completed
    <3>3. CASE w.status # old /\ w.status = "CLOSED"
      BY <3>3 DEF Stamped, TicketRow, Completed
    <3>4. CASE w.status # old /\ w.status \notin Completed
      BY <3>4 DEF Stamped, TicketRow, Completed
    <3> QED
      BY <3>1, <3>2, <3>3, <3>4 DEF Completed
  <2> QED
    BY <1>1, <2>1
<1> HIDE DEF new
<1>3. PICK pub \in Nat : Patched(row, r, now) =
        [new EXCEPT !.version = new.version + 1, !.updated = now, !.publicUpdated = pub]
  BY <1>2 DEF Patched, new, TicketRow
<1>4. new.version + 1 \in Nat
  BY <1>2 DEF TicketRow
<1>5. Patched(row, r, now) \in TicketRow
  BY <1>2, <1>3, <1>4 DEF TicketRow
<1>6. /\ Patched(row, r, now).version = new.version + 1
      /\ Patched(row, r, now).status = new.status
  BY <1>2, <1>3 DEF TicketRow
<1> QED
  BY <1>1, <1>2, <1>5, <1>6

\* A reply leaves a row one version further, in the status it had or in progress.
LEMMA RepliedRow ==
  ASSUME NEW row \in TicketRow, NEW r \in MessageRequests, NEW now \in Nat
  PROVE  /\ Replied(row, r, now) \in TicketRow
         /\ Replied(row, r, now).version = row.version + 1
         /\ Replied(row, r, now).status =
              IF ReopensOnReply(row, r) THEN "IN_PROGRESS" ELSE row.status
<1> DEFINE public == r.visibility = "PUBLIC"
           reopen == ReopensOnReply(row, r)
           pub == IF public THEN now ELSE row.publicUpdated
           first == IF public /\ FromStaff(r) /\ row.firstResponse = 0
                    THEN now ELSE row.firstResponse
           status == IF reopen THEN "IN_PROGRESS" ELSE row.status
           resolved == IF reopen THEN 0 ELSE row.resolvedAt
           closed == IF reopen THEN 0 ELSE row.closedAt
<1>1. /\ pub \in Nat /\ first \in Nat /\ resolved \in Nat /\ closed \in Nat
      /\ status \in Statuses \cup {Null}
  BY DEF TicketRow, Statuses
<1>2. Replied(row, r, now) =
        [row EXCEPT !.version = row.version + 1, !.updated = now, !.publicUpdated = pub,
                    !.firstResponse = first, !.status = status,
                    !.resolvedAt = resolved, !.closedAt = closed]
  BY DEF Replied, TicketRow
<1>3. row.version + 1 \in Nat
  BY DEF TicketRow
<1> HIDE DEF pub, first, resolved, closed, status, public
<1>4. Replied(row, r, now) \in TicketRow
  <2> DEFINE old == [row EXCEPT !.version = row.version + 1, !.updated = now,
                                !.publicUpdated = pub, !.firstResponse = first]
  <2>1. old \in TicketRow
    BY <1>1, <1>3 DEF TicketRow
  <2>2. Replied(row, r, now) =
          [old EXCEPT !.status = status, !.resolvedAt = resolved, !.closedAt = closed]
    BY <1>2
  <2> HIDE DEF old
  <2> QED
    BY <1>1, <2>1, <2>2 DEF TicketRow
<1>5. Replied(row, r, now).version = row.version + 1 /\ Replied(row, r, now).status = status
  BY <1>2 DEF TicketRow
<1> QED
  BY <1>4, <1>5 DEF status

\* Audit rows of a change are well typed.
LEMMA ChangeEventsType ==
  ASSUME NEW old \in TicketRow, NEW new \in TicketRow, NEW at \in Nat
  PROVE  ChangeEvents(old, new, at) \in Seq(EventRow)
<1> DEFINE Value == Statuses \cup Priorities \cup Assignees \cup {Null}
<1>1. /\ old.status \in Value /\ new.status \in Value
      /\ old.priority \in Value /\ new.priority \in Value
      /\ old.assignee \in Value /\ new.assignee \in Value
  BY DEF TicketRow
<1>2. ASSUME NEW field \in {"status", "priority", "assignee", "message"},
             NEW v \in Value, NEW w \in Value, NEW visibility \in Visibilities
      PROVE  ChangeEvent(field, v, w, visibility, at) \in Seq(EventRow)
  <2>1. Event(field, v, w, visibility, at) \in EventRow
    BY DEF Event, EventRow
  <2> QED
    BY <2>1 DEF ChangeEvent
<1>3. "PUBLIC" \in Visibilities /\ "INTERNAL" \in Visibilities
  BY DEF Visibilities
<1> HIDE DEF Value
<1>4. /\ ChangeEvent("status", old.status, new.status, "PUBLIC", at) \in Seq(EventRow)
      /\ ChangeEvent("priority", old.priority, new.priority, "PUBLIC", at) \in Seq(EventRow)
      /\ ChangeEvent("assignee", old.assignee, new.assignee, "INTERNAL", at) \in Seq(EventRow)
  BY <1>1, <1>2, <1>3
<1> QED
  BY <1>4 DEF ChangeEvents

\* Moving the active cycle to another phase keeps the cycles a sequence of rows.
LEMMA SetPhaseType ==
  ASSUME NEW cs \in Seq(CycleRow), NEW phase \in Phases
  PROVE  SetPhase(cs, phase) \in Seq(CycleRow)
<1>1. DOMAIN cs = 1..Len(cs) /\ Len(cs) \in Nat
  OBVIOUS
<1>2. \A i \in 1..Len(cs) : [cs[i] EXCEPT !.phase = phase] \in CycleRow /\ cs[i] \in CycleRow
  <2>1. \A c \in CycleRow : [c EXCEPT !.phase = phase] \in CycleRow
    BY DEF CycleRow
  <2>2. \A i \in 1..Len(cs) : cs[i] \in CycleRow
    OBVIOUS
  <2> QED
    BY <2>1, <2>2
<1>3. SetPhase(cs, phase) \in [1..Len(cs) -> CycleRow]
  <2> SUFFICES [i \in 1..Len(cs) |->
                  IF i = ActiveCycle(cs) THEN [cs[i] EXCEPT !.phase = phase] ELSE cs[i]]
                 \in [1..Len(cs) -> CycleRow]
    BY <1>1 DEF SetPhase
  <2> QED
    BY <1>2
<1> QED
  BY <1>1, <1>3, SeqDef

\* So does recording the first public response.
LEMMA RecordFirstType ==
  ASSUME NEW cs \in Seq(CycleRow), NEW now \in Nat
  PROVE  RecordFirstPublicResponse(cs, now) \in Seq(CycleRow)
<1>1. DOMAIN cs = 1..Len(cs) /\ Len(cs) \in Nat
  OBVIOUS
<1>2. \A i \in 1..Len(cs) : [cs[i] EXCEPT !.answered = now] \in CycleRow /\ cs[i] \in CycleRow
  <2>1. \A c \in CycleRow : [c EXCEPT !.answered = now] \in CycleRow
    BY DEF CycleRow
  <2>2. \A i \in 1..Len(cs) : cs[i] \in CycleRow
    OBVIOUS
  <2> QED
    BY <2>1, <2>2
<1>3. RecordFirstPublicResponse(cs, now) \in [1..Len(cs) -> CycleRow]
  <2> SUFFICES [i \in 1..Len(cs) |->
                  IF i = ActiveCycle(cs) /\ cs[i].answered = 0
                  THEN [cs[i] EXCEPT !.answered = now] ELSE cs[i]]
                 \in [1..Len(cs) -> CycleRow]
    BY <1>1 DEF RecordFirstPublicResponse
  <2> QED
    BY <1>2
<1> QED
  BY <1>1, <1>3, SeqDef

\* And so does every status change.
LEMMA ApplyStatusChangeType ==
  ASSUME NEW cs \in Seq(CycleRow), NEW old, NEW new, NEW answered \in Nat
  PROVE  ApplyStatusChange(cs, old, new, answered) \in Seq(CycleRow)
<1>1. CASE old = new
  BY <1>1 DEF ApplyStatusChange
<1>2. CASE old # new /\ new \in Completed
  BY <1>2, SetPhaseType DEF ApplyStatusChange, Completed, Phases
<1>3. CASE old # new /\ new = "WAITING_FOR_CUSTOMER"
  BY <1>3, SetPhaseType DEF ApplyStatusChange, Completed, Phases
<1>4. CASE old # new /\ new \notin Completed /\ new # "WAITING_FOR_CUSTOMER"
  <2>1. SetPhase(cs, "running") \in Seq(CycleRow)
    BY SetPhaseType DEF Phases
  <2>2. NewCycle(answered) \in CycleRow
    BY DEF NewCycle, CycleRow, Phases
  <2>3. Append(SetPhase(cs, "running"), NewCycle(answered)) \in Seq(CycleRow)
    BY <2>1, <2>2
  <2>4. ApplyStatusChange(cs, old, new, answered) =
          IF old \in Completed THEN Append(SetPhase(cs, "running"), NewCycle(answered))
                               ELSE SetPhase(cs, "running")
    BY <1>4 DEF ApplyStatusChange
  <2> QED
    BY <2>1, <2>3, <2>4
<1> QED
  BY <1>1, <1>2, <1>3, <1>4

\* The cycles that a reply leaves are well typed.
LEMMA RepliedCyclesType ==
  ASSUME NEW cs \in Seq(CycleRow), NEW row \in TicketRow, NEW r, NEW now \in Nat
  PROVE  RepliedCycles(cs, row, r, now) \in Seq(CycleRow)
<1>1. OrNow(row.firstResponse, now) \in Nat
  BY DEF OrNow, TicketRow
<1> QED
  BY <1>1, RecordFirstType, ApplyStatusChangeType DEF RepliedCycles

-----------------------------------------------------------------------------
(* Types.                                                                  *)

\* The record that finish_idempotency inserts is a row.
LEMMA ClaimType ==
  ASSUME records \subseteq RecordRow, NEW r \in Requests, r.kind # "patch", NEW position \in Nat
  PROVE  Claim(r, position) \subseteq RecordRow
<1>1. Slot(r) \in Slots /\ r.ticket \in Tickets
  BY RequestKinds
<1>2. Content(r) \in (Customers \X Priorities) \cup (Visibilities \X SUBSET Files)
  BY RequestKinds DEF Content, CreateRequests, MessageRequests
<1>3. [slot |-> Slot(r), content |-> Content(r), ticket |-> r.ticket,
       message |-> position, lapsed |-> FALSE] \in RecordRow
  BY <1>1, <1>2 DEF RecordRow
<1> QED
  BY <1>3 DEF Claim

\* A request begins with a complete transaction record.
LEMMA BeginType ==
  ASSUME TypeOK, NEW p \in Procs, Begin(p)
  PROVE  TypeOK'
<1>1. PICK r \in Requests, match \in Nat :
        tx' = [tx EXCEPT ![p] =
              [pc |-> IF r.kind = "patch" THEN "locking" ELSE "keying",
               req |-> r, match |-> match, began |-> clock + 1, replay |-> FALSE,
               row |-> NoTicket, last |-> 0, now |-> 0]]
  <2>1. PICK r \in Requests :
        \E match \in IF r.kind = "patch" THEN 0..ticket[r.ticket].version ELSE {0} :
        tx' = [tx EXCEPT ![p] =
              [pc |-> IF r.kind = "patch" THEN "locking" ELSE "keying",
               req |-> r, match |-> match, began |-> clock + 1, replay |-> FALSE,
               row |-> NoTicket, last |-> 0, now |-> 0]]
    BY DEF Begin
  <2>2. (IF r.kind = "patch" THEN 0..ticket[r.ticket].version ELSE {0}) \subseteq Nat
    OBVIOUS
  <2> QED
    BY <2>1, <2>2
<1>2. NoTicket \in TicketRow
  BY DEF NoTicket, TicketRow, Assignees
<1>3. clock + 1 \in Nat /\ FALSE \in BOOLEAN
  BY DEF TypeOK
<1>4. [pc |-> IF r.kind = "patch" THEN "locking" ELSE "keying",
       req |-> r, match |-> match, began |-> clock + 1, replay |-> FALSE,
       row |-> NoTicket, last |-> 0, now |-> 0] \in BusyTx
  BY <1>2, <1>3 DEF BusyTx
<1>5. tx' \in [Procs -> {IdleTx} \cup BusyTx]
  BY <1>1, <1>4 DEF TypeOK
<1> QED
  BY <1>3, <1>5 DEF TypeOK, Begin, dbVars, lockVars

\* A step of p that rewrites some columns of its transaction.
LEMMA TxColumns ==
  ASSUME NEW u \in BusyTx, NEW pc \in {"keying", "locking", "ready"}, NEW now \in Nat
  PROVE  /\ \A replay \in BOOLEAN :
              [u EXCEPT !.pc = pc, !.replay = replay, !.now = now] \in BusyTx
         /\ \A row \in TicketRow, last \in Nat :
              [u EXCEPT !.pc = pc, !.row = row, !.last = last, !.now = now] \in BusyTx
BY DEF BusyTx

\* Taking the key's lock keeps the transaction well typed.
LEMMA BeginIdempotencyType ==
  ASSUME TypeOK, NEW p \in Procs, BeginIdempotency(p)
  PROVE  TypeOK'
<1> DEFINE r == tx[p].req
           pc == IF r.kind = "create" THEN "ready" ELSE "locking"
           replay == Live(Slot(r)) # {}
<1>1. tx[p] \in BusyTx
  BY BusyTxType DEF BeginIdempotency
<1>2. tx' = [tx EXCEPT ![p] = [tx[p] EXCEPT !.pc = pc, !.replay = replay, !.now = clock]]
  BY DEF BeginIdempotency, TypeOK
<1>3. pc \in {"keying", "locking", "ready"} /\ replay \in BOOLEAN /\ clock \in Nat
  BY DEF TypeOK
<1> HIDE DEF pc, replay
<1>4. tx' \in [Procs -> {IdleTx} \cup BusyTx]
  BY <1>1, <1>2, <1>3, TxColumns DEF TypeOK
<1>5. keyLock' \in [Slots -> Procs \cup {Free}]
  BY DEF TypeOK, BeginIdempotency
<1> QED
  BY <1>4, <1>5 DEF TypeOK, BeginIdempotency, dbVars

\* Taking the row lock keeps the transaction well typed.
LEMMA LockTicketType ==
  ASSUME TypeOK, NEW p \in Procs, LockTicket(p)
  PROVE  TypeOK'
<1> DEFINE t == tx[p].req.ticket
<1>1. tx[p] \in BusyTx /\ t \in Tickets
  BY BusyTxType, RequestKinds DEF LockTicket, BusyTx
<1>2. tx' = [tx EXCEPT ![p] = [tx[p] EXCEPT !.pc = "ready", !.row = ticket[t],
                                            !.last = Len(messages[t]), !.now = clock]]
  BY DEF LockTicket, TypeOK
<1>3. ticket[t] \in TicketRow /\ Len(messages[t]) \in Nat /\ clock \in Nat
  BY <1>1 DEF TypeOK
<1>4. tx' \in [Procs -> {IdleTx} \cup BusyTx]
  <2>1. [tx[p] EXCEPT !.pc = "ready", !.row = ticket[t], !.last = Len(messages[t]),
                      !.now = clock] \in BusyTx
    BY <1>1, <1>3, TxColumns
  <2> QED
    BY <1>2, <2>1 DEF TypeOK
<1>5. rowLock' \in [Tickets -> Procs \cup {Free}]
  BY DEF TypeOK, LockTicket
<1> QED
  BY <1>4, <1>5 DEF TypeOK, LockTicket, dbVars

\* A created ticket is a row.
LEMMA CommitCreateType ==
  ASSUME TypeOK, NEW p \in Procs, CommitCreate(p)
  PROVE  TypeOK'
<1> DEFINE r == tx[p].req
           t == r.ticket
           row == [NoTicket EXCEPT !.status = "OPEN", !.priority = r.priority,
                            !.customer = r.customer, !.version = 1,
                            !.updated = tx[p].now, !.publicUpdated = tx[p].now]
           e == Event("status", Null, "OPEN", "PUBLIC", tx[p].began)
<1>1. tx[p] \in BusyTx /\ r \in CreateRequests /\ t \in Tickets
  BY BusyTxType, RequestKinds DEF CommitCreate, BusyTx
<1>2. tx[p].now \in Nat /\ tx[p].began \in Nat
  BY <1>1 DEF BusyTx
<1>3. row \in TicketRow
  BY <1>1, <1>2 DEF NoTicket, TicketRow, CreateRequests, Statuses, Assignees
<1>4. e \in EventRow
  BY <1>2 DEF Event, EventRow, Statuses, Visibilities
<1>5. NewCycle(0) \in CycleRow
  BY DEF NewCycle, CycleRow, Phases
<1>6. records' \subseteq RecordRow
  BY <1>1, ClaimType DEF CommitCreate, TypeOK, BusyTx
<1> HIDE DEF row, e
<1>7. ticket' \in [Tickets -> TicketRow]
  BY <1>3 DEF CommitCreate, TypeOK, row
<1>8. events' \in [Tickets -> Seq(EventRow)]
  <2>1. Append(events[t], e) \in Seq(EventRow)
    BY <1>1, <1>4 DEF TypeOK
  <2> QED
    BY <2>1 DEF CommitCreate, TypeOK, e
<1>9. outbox' \in [Tickets -> Seq(Visibilities)]
  <2>1. Append(outbox[t], "PUBLIC") \in Seq(Visibilities)
    BY <1>1 DEF TypeOK, Visibilities
  <2> QED
    BY <2>1 DEF CommitCreate, TypeOK
<1>10. cycles' \in [Tickets -> Seq(CycleRow)]
  <2>1. Append(cycles[t], NewCycle(0)) \in Seq(CycleRow)
    BY <1>1, <1>5 DEF TypeOK
  <2> QED
    BY <2>1 DEF CommitCreate, TypeOK
<1>11. End(p)
  BY DEF CommitCreate
<1> QED
  BY <1>6, <1>7, <1>8, <1>9, <1>10, <1>11, EndType DEF TypeOK, CommitCreate

\* So is a patched one.
LEMMA CommitPatchType ==
  ASSUME TypeOK, NEW p \in Procs, CommitPatch(p)
  PROVE  TypeOK'
<1> DEFINE r == tx[p].req
           t == r.ticket
           old == tx[p].row
           new == Patched(old, r, tx[p].now)
           trail == ChangeEvents(old, new, tx[p].began)
           audience == IF PublicChange(old, new) THEN "PUBLIC" ELSE "INTERNAL"
           answered == OrNow(old.firstResponse, tx[p].now)
<1>1. tx[p] \in BusyTx /\ r \in PatchRequests /\ t \in Tickets
  BY BusyTxType, RequestKinds DEF CommitPatch, BusyTx
<1>2. tx[p].now \in Nat /\ tx[p].began \in Nat /\ old \in TicketRow
  BY <1>1 DEF BusyTx
<1>3. new \in TicketRow
  BY <1>1, <1>2, PatchedRow
<1>4. trail \in Seq(EventRow)
  BY <1>2, <1>3, ChangeEventsType
<1>5. answered \in Nat
  BY <1>2 DEF OrNow, TicketRow
<1>6. audience \in Visibilities
  BY DEF Visibilities
<1>7. ticket' \in [Tickets -> TicketRow]
  BY <1>3 DEF CommitPatch, TypeOK
<1>8. events' \in [Tickets -> Seq(EventRow)]
  <2>1. events[t] \o trail \in Seq(EventRow)
    BY <1>1, <1>4 DEF TypeOK
  <2>2. events' = [events EXCEPT ![t] = events[t] \o trail]
    BY DEF CommitPatch, TypeOK
  <2> QED
    BY <2>1, <2>2 DEF TypeOK
<1>9. outbox' \in [Tickets -> Seq(Visibilities)]
  <2>1. Append(outbox[t], audience) \in Seq(Visibilities)
    BY <1>1, <1>6 DEF TypeOK
  <2>2. outbox' = [outbox EXCEPT ![t] = Append(outbox[t], audience)]
    BY DEF CommitPatch, TypeOK
  <2> QED
    BY <2>1, <2>2 DEF TypeOK
<1>10. cycles' \in [Tickets -> Seq(CycleRow)]
  <2>1. ApplyStatusChange(cycles[t], old.status, new.status, answered) \in Seq(CycleRow)
    BY <1>1, <1>5, ApplyStatusChangeType DEF TypeOK
  <2>2. cycles' = [cycles EXCEPT ![t] =
                     ApplyStatusChange(cycles[t], old.status, new.status, answered)]
    BY DEF CommitPatch, TypeOK
  <2> QED
    BY <2>1, <2>2 DEF TypeOK
<1>11. End(p)
  BY DEF CommitPatch
<1> QED
  BY <1>7, <1>8, <1>9, <1>10, <1>11, EndType DEF TypeOK, CommitPatch

\* And a replied one, with the message, its audit rows and its notifications.
LEMMA CommitMessageType ==
  ASSUME TypeOK, NEW p \in Procs, CommitMessage(p)
  PROVE  TypeOK'
<1> DEFINE r == tx[p].req
           t == r.ticket
           old == tx[p].row
           new == Replied(old, r, tx[p].now)
           position == tx[p].last + 1
           m == [sender |-> r.actor, visibility |-> r.visibility, position |-> position,
                 created |-> tx[p].now, slot |-> Slot(r)]
           e == Event("message", Null, Null, r.visibility, tx[p].began)
           trail == Append(events[t] \o ChangeEvents(old, new, tx[p].began), e)
<1>1. tx[p] \in BusyTx /\ r \in Requests /\ r \in MessageRequests /\ t \in Tickets
  BY BusyTxType, RequestKinds DEF CommitMessage, BusyTx
<1>2. tx[p].now \in Nat /\ tx[p].began \in Nat /\ old \in TicketRow
  BY <1>1 DEF BusyTx
<1>3. position \in Nat \ {0}
  BY <1>1 DEF BusyTx
<1>4. r.actor \in Users /\ r.visibility \in Visibilities /\ Slot(r) \in Slots /\ r.kind # "patch"
  BY <1>1, RequestKinds DEF MessageRequests
<1>5. new \in TicketRow
  BY <1>1, <1>2, RepliedRow
<1>6. m \in MessageRow
  BY <1>2, <1>3, <1>4 DEF MessageRow
<1>7. trail \in Seq(EventRow)
  <2>1. e \in EventRow
    BY <1>2, <1>4 DEF Event, EventRow
  <2>2. ChangeEvents(old, new, tx[p].began) \in Seq(EventRow)
    BY <1>2, <1>5, ChangeEventsType
  <2>3. events[t] \in Seq(EventRow)
    BY <1>1 DEF TypeOK
  <2>4. events[t] \o ChangeEvents(old, new, tx[p].began) \in Seq(EventRow)
    BY <2>2, <2>3, ConcatProperties
  <2> QED
    BY <2>1, <2>4
<1>8. NewDeliveries(old, r, position) \subseteq DeliveryRow
  <2>1. old.customer \in Assignees /\ old.assignee \in Assignees
    BY <1>2 DEF TicketRow, Assignees, Users
  <2>2. \A to \in Assignees : [message |-> position, recipient |-> to] \in DeliveryRow
    BY <1>3 DEF DeliveryRow
  <2>3. PICK to \in Assignees :
          NewDeliveries(old, r, position) \subseteq {[message |-> position, recipient |-> to]}
    BY <2>1 DEF NewDeliveries
  <2> QED
    BY <2>2, <2>3
<1>9. records' \subseteq RecordRow
  BY <1>1, <1>3, <1>4, ClaimType DEF CommitMessage, TypeOK
<1> HIDE DEF position
<1>10. ticket' \in [Tickets -> TicketRow]
  BY <1>5 DEF CommitMessage, TypeOK
<1>11. messages' \in [Tickets -> Seq(MessageRow)]
  <2>1. Append(messages[t], m) \in Seq(MessageRow)
    BY <1>1, <1>6 DEF TypeOK
  <2>2. messages' = [messages EXCEPT ![t] = Append(messages[t], m)]
    BY DEF CommitMessage, TypeOK, position
  <2> QED
    BY <2>1, <2>2 DEF TypeOK
<1>12. events' \in [Tickets -> Seq(EventRow)]
  <2>1. events' = [events EXCEPT ![t] = trail]
    BY DEF CommitMessage, TypeOK
  <2> QED
    BY <1>7, <2>1 DEF TypeOK
<1>13. outbox' \in [Tickets -> Seq(Visibilities)]
  <2>1. Append(outbox[t], r.visibility) \in Seq(Visibilities)
    BY <1>1, <1>4 DEF TypeOK
  <2>2. outbox' = [outbox EXCEPT ![t] = Append(outbox[t], r.visibility)]
    BY DEF CommitMessage, TypeOK
  <2> QED
    BY <2>1, <2>2 DEF TypeOK
<1>14. cycles' \in [Tickets -> Seq(CycleRow)]
  <2>1. RepliedCycles(cycles[t], old, r, tx[p].now) \in Seq(CycleRow)
    BY <1>1, <1>2, RepliedCyclesType DEF TypeOK
  <2>2. cycles' = [cycles EXCEPT ![t] = RepliedCycles(cycles[t], old, r, tx[p].now)]
    BY DEF CommitMessage, TypeOK
  <2> QED
    BY <2>1, <2>2 DEF TypeOK
<1>15. deliveries' \in [Tickets -> SUBSET DeliveryRow]
  <2>1. deliveries[t] \cup NewDeliveries(old, r, position) \in SUBSET DeliveryRow
    BY <1>1, <1>8 DEF TypeOK
  <2>2. deliveries' = [deliveries EXCEPT ![t] = deliveries[t] \cup NewDeliveries(old, r, position)]
    BY DEF CommitMessage, TypeOK, position
  <2> QED
    BY <2>1, <2>2 DEF TypeOK
<1>16. files' \in [Files -> FileRow]
  <2>1. \A f \in FileRow : [f EXCEPT !.message = position] \in FileRow
    BY <1>3 DEF FileRow
  <2>2. files' = [f \in Files |-> IF f \in r.files THEN [files[f] EXCEPT !.message = position]
                                                   ELSE files[f]]
    BY DEF CommitMessage, position
  <2> QED
    BY <2>1, <2>2 DEF TypeOK
<1>17. End(p)
  BY DEF CommitMessage
<1> QED
  BY <1>9, <1>10, <1>11, <1>12, <1>13, <1>14, <1>15, <1>16, <1>17, EndType
     DEF TypeOK, CommitMessage

\* An upload and the expiry of a record keep the types.
LEMMA EnvironmentType ==
  ASSUME TypeOK
  PROVE  /\ \A f \in Files : Upload(f) => TypeOK'
         /\ \A rec \in records : Lapse(rec) => TypeOK'
<1>1. ASSUME NEW f \in Files, Upload(f)
      PROVE  TypeOK'
  <2>1. PICK t \in Tickets, u \in Users :
          files' = [files EXCEPT ![f] = [ticket |-> t, owner |-> u, message |-> 0]]
    BY <1>1 DEF Upload
  <2>2. [ticket |-> t, owner |-> u, message |-> 0] \in FileRow
    BY DEF FileRow, Assignees
  <2>3. files' \in [Files -> FileRow]
    BY <2>1, <2>2 DEF TypeOK
  <2> QED
    BY <1>1, <2>3 DEF Upload, TypeOK, lockVars
<1>2. ASSUME NEW rec \in records, Lapse(rec)
      PROVE  TypeOK'
  <2>1. rec \in RecordRow
    BY DEF TypeOK
  <2>2. [rec EXCEPT !.lapsed = TRUE] \in RecordRow
    BY <2>1 DEF RecordRow
  <2>3. records' \subseteq RecordRow
    BY <1>2, <2>2 DEF Lapse, TypeOK
  <2>4. rec.slot \in Slots
    BY <2>1 DEF RecordRow
  <2>5. lapses' \in [Slots -> Nat]
    BY <1>2, <2>4 DEF Lapse, TypeOK
  <2> QED
    BY <1>2, <2>3, <2>5 DEF Lapse, TypeOK, dbVars, lockVars
<1> QED
  BY <1>1, <1>2

LEMMA InitType == Init => TypeOK
<1> SUFFICES ASSUME Init PROVE TypeOK
  OBVIOUS
<1>1. NoTicket \in TicketRow
  BY DEF NoTicket, TicketRow, Assignees
<1>2. NoFile \in FileRow
  BY DEF NoFile, FileRow, Assignees
<1> QED
  BY <1>1, <1>2 DEF Init, TypeOK

LEMMA NextType == TypeOK /\ [Next]_vars => TypeOK'
<1> SUFFICES ASSUME TypeOK, [Next]_vars PROVE TypeOK'
  OBVIOUS
<1>1. CASE UNCHANGED vars
  BY <1>1 DEF TypeOK, vars, dbVars, lockVars
<1>2. ASSUME NEW p \in Procs, Begin(p) \/ Step(p) \/ Rollback(p)
      PROVE  TypeOK'
  <2>1. CASE Begin(p)
    BY <2>1, BeginType
  <2>2. CASE BeginIdempotency(p)
    BY <2>2, BeginIdempotencyType
  <2>3. CASE LockTicket(p)
    BY <2>3, LockTicketType
  <2>4. CASE CommitCreate(p)
    BY <2>4, CommitCreateType
  <2>5. CASE CommitPatch(p)
    BY <2>5, CommitPatchType
  <2>6. CASE CommitMessage(p)
    BY <2>6, CommitMessageType
  <2>7. CASE AnswerFromKey(p) \/ AnswerFromRow(p) \/ Rollback(p)
    <3>1. End(p) /\ UNCHANGED <<dbVars, records, clock, lapses>>
      BY <2>7 DEF AnswerFromKey, AnswerFromRow, Rollback
    <3> QED
      BY <3>1, EndType DEF TypeOK, dbVars
  <2> QED
    BY <1>2, <2>1, <2>2, <2>3, <2>4, <2>5, <2>6, <2>7 DEF Step
<1>3. ASSUME NEW f \in Files, Upload(f)
      PROVE  TypeOK'
  BY <1>3, EnvironmentType
<1>4. ASSUME NEW rec \in records, Lapse(rec)
      PROVE  TypeOK'
  BY <1>4, EnvironmentType
<1> QED
  BY <1>1, <1>2, <1>3, <1>4 DEF Next

\* Every reachable row has the columns and the domains that models.py declares,
\* whatever the number of users, tickets, keys and concurrent requests.
THEOREM TypeCorrect == Spec => []TypeOK
<1> QED
  BY InitType, NextType, PTL DEF Spec

-----------------------------------------------------------------------------
(* The lock discipline.                                                    *)

Creating(p) == Busy(p) /\ tx[p].req.kind = "create"

\* A creation owns an id that no row has and no other creation draws; a patch
\* takes no key, and a creation no row lock.
CreationsAreFresh ==
  \A p \in Procs :
    /\ Creating(p) => /\ ~Exists(tx[p].req.ticket)
                      /\ tx[p].pc # "locking"
                      /\ \A q \in Procs : Creating(q) /\ q # p =>
                           tx[q].req.ticket # tx[p].req.ticket
    /\ tx[p].pc = "keying" => tx[p].req.kind # "patch"

LockInv == TypeOK /\ ReadsStayCurrent /\ CreationsAreFresh

\* A transaction about to write a ticket it read: it is neither closed to the
\* request nor bindable elsewhere, and the row exists.
LEMMA HeldRow ==
  ASSUME LockInv, NEW p \in Procs, tx[p].pc = "ready", tx[p].req.kind # "create"
  PROVE  /\ tx[p] \in BusyTx /\ tx[p].req.ticket \in Tickets
         /\ ReadIsCurrent(p)
         /\ Exists(tx[p].req.ticket)
<1>1. tx[p] \in BusyTx /\ tx[p].req.ticket \in Tickets
  BY BusyTxType, RequestKinds DEF LockInv, BusyTx
<1>2. ReadIsCurrent(p)
  BY DEF LockInv, ReadsStayCurrent
<1>3. ticket[tx[p].req.ticket].version # 0
  BY <1>2 DEF ReadIsCurrent, Proceeds, PatchRefused, MessageForbidden
<1>4. ticket[tx[p].req.ticket].version \in Nat
  BY <1>1 DEF LockInv, TypeOK, TicketRow
<1> QED
  BY <1>1, <1>2, <1>3, <1>4 DEF Exists

\* A decision stands as long as nobody touches the rows it depends on.
LEMMA DecisionStands ==
  ASSUME NEW q, tx'[q].req = tx[q].req, tx'[q].match = tx[q].match,
         tx'[q].replay = tx[q].replay,
         ticket'[tx[q].req.ticket] = ticket[tx[q].req.ticket],
         messages'[tx[q].req.ticket] = messages[tx[q].req.ticket],
         tx[q].req.kind = "message" => \A f \in tx[q].req.files : files'[f] = files[f]
  PROVE  Proceeds(q, ticket[tx[q].req.ticket])' <=> Proceeds(q, ticket[tx[q].req.ticket])
<1> DEFINE r == tx[q].req
           t == r.ticket
<1>1. HasPublicStaffReply(t)' <=> HasPublicStaffReply(t)
  BY DEF HasPublicStaffReply
<1>2. r.kind = "message" => (Bindable(r)' <=> Bindable(r))
  BY DEF Bindable
<1>3. PatchRefused(ticket[t], r, tx[q].match)' <=> PatchRefused(ticket[t], r, tx[q].match)
  BY <1>1 DEF PatchRefused
<1>4. r.kind = "message" =>
        (MessageRefused(ticket[t], r)' <=> MessageRefused(ticket[t], r))
  BY <1>2 DEF MessageRefused
<1>5. MessageForbidden(ticket[t], r)' <=> MessageForbidden(ticket[t], r)
  BY DEF MessageForbidden
<1> QED
  BY <1>3, <1>4, <1>5 DEF Proceeds

\* And so does the read behind it.
LEMMA ReadStands ==
  ASSUME NEW q, ReadIsCurrent(q), tx'[q] = tx[q],
         rowLock'[tx[q].req.ticket] = q,
         ticket'[tx[q].req.ticket] = ticket[tx[q].req.ticket],
         messages'[tx[q].req.ticket] = messages[tx[q].req.ticket],
         tx[q].req.kind = "message" => \A f \in tx[q].req.files : files'[f] = files[f]
  PROVE  ReadIsCurrent(q)'
<1>1. Proceeds(q, ticket[tx[q].req.ticket])' <=> Proceeds(q, ticket[tx[q].req.ticket])
  BY DecisionStands
<1> QED
  BY <1>1 DEF ReadIsCurrent

\* Two transactions about to write never write the same ticket.
LEMMA WritersApart ==
  ASSUME LockInv, NEW p \in Procs, NEW q \in Procs, p # q,
         tx[p].pc = "ready", tx[q].pc = "ready", tx[q].req.kind # "create"
  PROVE  tx[p].req.ticket # tx[q].req.ticket
<1>1. CASE tx[p].req.kind = "create"
  <2>1. ~Exists(tx[p].req.ticket)
    BY <1>1 DEF LockInv, CreationsAreFresh, Creating, Busy
  <2> QED
    BY <2>1, HeldRow
<1>2. CASE tx[p].req.kind # "create"
  BY <1>2, HeldRow DEF ReadIsCurrent
<1> QED
  BY <1>1, <1>2

\* What the end of p leaves to the others.
LEMMA EndFrame ==
  ASSUME TypeOK, NEW p \in Procs, End(p)
  PROVE  /\ tx'[p].pc = "idle"
         /\ \A q \in Procs : q # p => tx'[q] = tx[q]
         /\ \A q \in Procs, t \in Tickets : q # p /\ rowLock[t] = q => rowLock'[t] = q
BY DEF TypeOK, End, IdleTx

\* A reply's files are on its own ticket, so no write of another ticket takes them.
LEMMA HeldFiles ==
  ASSUME LockInv, NEW q \in Procs, tx[q].pc = "ready", tx[q].req.kind = "message"
  PROVE  \A f \in tx[q].req.files :
           /\ f \in Files /\ files[f].ticket = tx[q].req.ticket
           /\ files[f].owner = tx[q].req.actor /\ files[f].message = 0
           /\ files[f] # NoFile
<1>1. tx[q] \in BusyTx /\ ReadIsCurrent(q)
  BY HeldRow
<1>2. tx[q].req \in MessageRequests /\ tx[q].req.actor \in Users
  BY <1>1, RequestKinds DEF BusyTx
<1>3. Bindable(tx[q].req)
  BY <1>1 DEF ReadIsCurrent, Proceeds, MessageRefused
<1>4. NoFile.owner \notin Users
  BY SentinelAssumption DEF NoFile
<1> QED
  BY <1>2, <1>3, <1>4 DEF Bindable, MessageRequests

\* A commit of p leaves what the others have read as it was.
LEMMA CommitKeepsReads ==
  ASSUME LockInv, NEW p \in Procs, NEW q \in Procs, q # p,
         tx[q].pc = "ready", tx[q].req.kind # "create",
         CommitCreate(p) \/ CommitPatch(p) \/ CommitMessage(p)
  PROVE  ReadIsCurrent(q)'
<1> DEFINE t == tx[q].req.ticket
<1>1. t # tx[p].req.ticket /\ ReadIsCurrent(q) /\ t \in Tickets
  <2>1. tx[p].pc = "ready"
    BY DEF CommitCreate, CommitPatch, CommitMessage
  <2> QED
    BY <2>1, WritersApart, HeldRow
<1>2. tx'[q] = tx[q] /\ rowLock'[t] = q
  <2>1. End(p)
    BY DEF CommitCreate, CommitPatch, CommitMessage
  <2> QED
    BY <1>1, <2>1, EndFrame DEF ReadIsCurrent, LockInv
<1>3. ticket'[t] = ticket[t] /\ messages'[t] = messages[t]
  <2>1. CASE CommitCreate(p)
    BY <1>1, <2>1 DEF CommitCreate, LockInv, TypeOK
  <2>2. CASE CommitPatch(p)
    BY <1>1, <2>2 DEF CommitPatch, LockInv, TypeOK
  <2>3. CASE CommitMessage(p)
    BY <1>1, <2>3 DEF CommitMessage, LockInv, TypeOK
  <2> QED
    BY <2>1, <2>2, <2>3
<1>4. tx[q].req.kind = "message" => \A f \in tx[q].req.files : files'[f] = files[f]
  <2> SUFFICES ASSUME tx[q].req.kind = "message", NEW f \in tx[q].req.files
               PROVE  files'[f] = files[f]
    OBVIOUS
  <2>1. f \in Files /\ files[f].ticket = t
    BY HeldFiles
  <2>2. CASE CommitMessage(p)
    <3>1. f \notin tx[p].req.files
      BY <1>1, <2>1, <2>2, HeldFiles DEF CommitMessage
    <3> QED
      BY <2>1, <2>2, <3>1 DEF CommitMessage
  <2>3. CASE CommitCreate(p) \/ CommitPatch(p)
    BY <2>3 DEF CommitCreate, CommitPatch
  <2> QED
    BY <2>2, <2>3
<1> QED
  BY <1>1, <1>2, <1>3, <1>4, ReadStands

\* Every step keeps the reads of the transactions that are about to write.
LEMMA ReadsInductive == LockInv /\ [Next]_vars => ReadsStayCurrent'
<1> SUFFICES ASSUME LockInv, [Next]_vars, NEW q \in Procs,
                    tx'[q].pc = "ready", tx'[q].req.kind # "create"
             PROVE  ReadIsCurrent(q)'
  BY DEF ReadsStayCurrent
<1> USE DEF LockInv
<1> DEFINE t == tx[q].req.ticket
<1>1. ASSUME tx[q].pc = "ready", tx[q].req.kind # "create", tx'[q] = tx[q],
             UNCHANGED <<ticket, messages, files>>, rowLock'[t] = q
      PROVE  ReadIsCurrent(q)'
  BY <1>1, HeldRow, ReadStands
<1>2. CASE UNCHANGED vars
  <2>1. tx[q].pc = "ready" /\ tx[q].req.kind # "create" /\ tx'[q] = tx[q]
        /\ UNCHANGED <<ticket, messages, files, rowLock>>
    BY <1>2 DEF vars, dbVars, lockVars
  <2> QED
    BY <1>1, <2>1, HeldRow DEF ReadIsCurrent
<1>3. ASSUME NEW p \in Procs, Begin(p) \/ BeginIdempotency(p)
      PROVE  ReadIsCurrent(q)'
  <2>1. q # p
    <3>1. CASE Begin(p)
      BY <3>1 DEF Begin, TypeOK
    <3>2. CASE BeginIdempotency(p)
      <4> DEFINE pc == IF tx[p].req.kind = "create" THEN "ready" ELSE "locking"
                 replay == Live(Slot(tx[p].req)) # {}
      <4>1. tx[p] \in BusyTx
        BY <3>2, BusyTxType DEF BeginIdempotency
      <4>2. tx' = [tx EXCEPT ![p] = [tx[p] EXCEPT !.pc = pc, !.replay = replay, !.now = clock]]
        BY <3>2 DEF BeginIdempotency, TypeOK
      <4> HIDE DEF replay
      <4>3. tx'[p].pc = pc /\ tx'[p].req = tx[p].req
        BY <4>1, <4>2 DEF TypeOK, BusyTx
      <4> QED
        BY <4>3
    <3> QED
      BY <1>3, <3>1, <3>2
  <2>2. tx'[q] = tx[q] /\ UNCHANGED <<ticket, messages, files, rowLock>>
    <3>1. CASE Begin(p)
      BY <2>1, <3>1 DEF Begin, TypeOK, dbVars, lockVars
    <3>2. CASE BeginIdempotency(p)
      BY <2>1, <3>2 DEF BeginIdempotency, TypeOK, dbVars
    <3> QED
      BY <1>3, <3>1, <3>2
  <2>3. rowLock'[t] = q
    BY <2>2, HeldRow DEF ReadIsCurrent
  <2> QED
    BY <1>1, <2>2, <2>3
<1>4. ASSUME NEW p \in Procs, LockTicket(p)
      PROVE  ReadIsCurrent(q)'
  <2>1. CASE q = p
    <3>1. tx[p] \in BusyTx /\ t \in Tickets
      BY <1>4, <2>1, BusyTxType, RequestKinds DEF LockTicket, BusyTx
    <3>2. tx' = [tx EXCEPT ![p] = [tx[p] EXCEPT !.pc = "ready", !.row = ticket[t],
                                     !.last = Len(messages[t]), !.now = clock]]
      BY <1>4, <2>1 DEF LockTicket, TypeOK
    <3>3. /\ tx'[p].req = tx[p].req /\ tx'[p].match = tx[p].match
          /\ tx'[p].replay = tx[p].replay
          /\ tx'[p].row = ticket[t] /\ tx'[p].last = Len(messages[t])
      BY <3>1, <3>2 DEF TypeOK, BusyTx
    <3>4. rowLock'[t] = p /\ UNCHANGED <<ticket, messages, files>>
      BY <1>4, <2>1, <3>1 DEF LockTicket, TypeOK, dbVars
    <3>5. Proceeds(p, ticket[t])
      BY <1>4, <2>1 DEF LockTicket
    <3>6. Proceeds(p, ticket[t])'
      BY <2>1, <3>3, <3>4, <3>5, DecisionStands
    <3> QED
      BY <2>1, <3>3, <3>4, <3>6 DEF ReadIsCurrent
  <2>2. CASE q # p
    <3>1. tx'[q] = tx[q] /\ UNCHANGED <<ticket, messages, files>>
      BY <1>4, <2>2 DEF LockTicket, TypeOK, dbVars
    <3>2. rowLock[t] = q /\ t \in Tickets
      BY <3>1, HeldRow DEF ReadIsCurrent
    <3>3. rowLock'[t] = q
      BY <1>4, <3>2, SentinelAssumption DEF LockTicket, TypeOK
    <3> QED
      BY <1>1, <3>1, <3>3
  <2> QED
    BY <2>1, <2>2
<1>5. ASSUME NEW p \in Procs, AnswerFromKey(p) \/ AnswerFromRow(p) \/ Rollback(p)
      PROVE  ReadIsCurrent(q)'
  <2>1. End(p) /\ UNCHANGED <<ticket, messages, files>>
    BY <1>5 DEF AnswerFromKey, AnswerFromRow, Rollback, dbVars
  <2>2. tx'[q] = tx[q] /\ q # p
    BY <2>1, EndFrame
  <2>3. rowLock'[t] = q
    BY <2>1, <2>2, EndFrame, HeldRow DEF ReadIsCurrent
  <2> QED
    BY <1>1, <2>1, <2>2, <2>3
<1>6. ASSUME NEW p \in Procs, CommitCreate(p) \/ CommitPatch(p) \/ CommitMessage(p)
      PROVE  ReadIsCurrent(q)'
  <2>1. End(p)
    BY <1>6 DEF CommitCreate, CommitPatch, CommitMessage
  <2>2. tx'[q] = tx[q] /\ q # p
    BY <2>1, EndFrame
  <2> QED
    BY <1>6, <2>2, CommitKeepsReads
<1>7. ASSUME NEW f \in Files, Upload(f)
      PROVE  ReadIsCurrent(q)'
  <2>1. tx'[q] = tx[q] /\ UNCHANGED <<ticket, messages, rowLock>>
    BY <1>7 DEF Upload, lockVars
  <2>2. \A g \in Files : files[g] # NoFile => files'[g] = files[g]
    BY <1>7 DEF Upload, TypeOK
  <2>3. tx[q].req.kind = "message" => \A g \in tx[q].req.files : files'[g] = files[g]
    BY <2>1, <2>2, HeldFiles
  <2> QED
    BY <2>1, <2>3, HeldRow, ReadStands DEF ReadIsCurrent
<1>8. ASSUME NEW rec \in records, Lapse(rec)
      PROVE  ReadIsCurrent(q)'
  <2>1. tx'[q] = tx[q] /\ UNCHANGED <<ticket, messages, files, rowLock>>
    BY <1>8 DEF Lapse, dbVars, lockVars
  <2> QED
    BY <1>1, <2>1, HeldRow DEF ReadIsCurrent
<1> QED
  BY <1>2, <1>3, <1>4, <1>5, <1>6, <1>7, <1>8 DEF Next, Step

\* Creations stay apart, and only they make rows exist.
LEMMA CreationsInductive == LockInv /\ [Next]_vars => CreationsAreFresh'
<1> SUFFICES ASSUME LockInv, [Next]_vars PROVE CreationsAreFresh'
  OBVIOUS
<1> USE DEF LockInv
<1>1. ASSUME NEW p \in Procs, \A q \in Procs : q # p => tx'[q] = tx[q],
             tx'[p].pc = "idle", UNCHANGED ticket
      PROVE  CreationsAreFresh'
  BY <1>1 DEF CreationsAreFresh, Creating, Busy, Exists
<1>2. ASSUME UNCHANGED tx, UNCHANGED ticket
      PROVE  CreationsAreFresh'
  BY <1>2 DEF CreationsAreFresh, Creating, Busy, Exists
<1>3. ASSUME NEW p \in Procs, Begin(p)
      PROVE  CreationsAreFresh'
  <2>1. PICK r \in Requests :
          /\ r.kind = "create" => FreshTicket(r.ticket)
          /\ tx'[p].req = r
          /\ tx'[p].pc = IF r.kind = "patch" THEN "locking" ELSE "keying"
    BY <1>3 DEF Begin, TypeOK
  <2>2. \A q \in Procs : q # p => tx'[q] = tx[q]
    BY <1>3 DEF Begin, TypeOK
  <2>3. UNCHANGED ticket
    BY <1>3 DEF Begin, dbVars
  <2>4. r.kind = "create" => /\ ~Exists(r.ticket)
                             /\ \A q \in Procs : Creating(q) => tx[q].req.ticket # r.ticket
    BY <2>1 DEF FreshTicket, Creating
  <2> QED
    BY <2>1, <2>2, <2>3, <2>4 DEF CreationsAreFresh, Creating, Busy, Exists
<1>4. ASSUME NEW p \in Procs, BeginIdempotency(p) \/ LockTicket(p)
      PROVE  CreationsAreFresh'
  <2>1. tx'[p].req = tx[p].req /\ tx'[p].pc \in {"ready", "locking"}
        /\ (tx'[p].pc = "locking" => tx[p].req.kind # "create")
        /\ tx[p].pc # "idle" /\ \A q \in Procs : q # p => tx'[q] = tx[q]
    <3>1. CASE BeginIdempotency(p)
      <4> DEFINE pc == IF tx[p].req.kind = "create" THEN "ready" ELSE "locking"
                 replay == Live(Slot(tx[p].req)) # {}
      <4>1. tx[p] \in BusyTx
        BY <3>1, BusyTxType DEF BeginIdempotency
      <4>2. tx' = [tx EXCEPT ![p] = [tx[p] EXCEPT !.pc = pc, !.replay = replay, !.now = clock]]
        BY <3>1 DEF BeginIdempotency, TypeOK
      <4> HIDE DEF replay
      <4>3. /\ tx'[p].pc = pc /\ tx'[p].req = tx[p].req
            /\ \A q \in Procs : q # p => tx'[q] = tx[q]
        BY <4>1, <4>2 DEF TypeOK, BusyTx
      <4>4. tx[p].pc = "keying"
        BY <3>1 DEF BeginIdempotency
      <4> QED
        BY <4>3, <4>4
    <3>2. CASE LockTicket(p)
      <4>1. tx[p] \in BusyTx
        BY <3>2, BusyTxType DEF LockTicket
      <4>2. PICK row, last :
              tx' = [tx EXCEPT ![p] = [tx[p] EXCEPT !.pc = "ready", !.row = row,
                                                    !.last = last, !.now = clock]]
        BY <3>2 DEF LockTicket, TypeOK
      <4>3. /\ tx'[p].pc = "ready" /\ tx'[p].req = tx[p].req
            /\ \A q \in Procs : q # p => tx'[q] = tx[q]
        BY <4>1, <4>2 DEF TypeOK, BusyTx
      <4>4. tx[p].pc = "locking"
        BY <3>2 DEF LockTicket
      <4> QED
        BY <4>3, <4>4
    <3> QED
      BY <1>4, <3>1, <3>2
  <2>2. UNCHANGED ticket
    BY <1>4 DEF BeginIdempotency, LockTicket, dbVars
  <2> QED
    BY <2>1, <2>2 DEF CreationsAreFresh, Creating, Busy, Exists
<1>5. ASSUME NEW p \in Procs, AnswerFromKey(p) \/ AnswerFromRow(p) \/ Rollback(p)
      PROVE  CreationsAreFresh'
  <2>1. End(p) /\ UNCHANGED ticket
    BY <1>5 DEF AnswerFromKey, AnswerFromRow, Rollback, dbVars
  <2> QED
    BY <1>1, <2>1, EndFrame
<1>6. ASSUME NEW p \in Procs, CommitCreate(p) \/ CommitPatch(p) \/ CommitMessage(p)
      PROVE  CreationsAreFresh'
  <2> DEFINE t == tx[p].req.ticket
  <2>1. End(p) /\ tx[p].pc = "ready"
    BY <1>6 DEF CommitCreate, CommitPatch, CommitMessage
  <2>2. tx'[p].pc = "idle" /\ \A q \in Procs : q # p => tx'[q] = tx[q]
    BY <2>1, EndFrame
  <2>3. \A u \in Tickets : u # t => ticket'[u] = ticket[u]
    <3>1. CASE CommitCreate(p)
      BY <3>1 DEF CommitCreate, TypeOK
    <3>2. CASE CommitPatch(p)
      BY <3>2 DEF CommitPatch, TypeOK
    <3>3. CASE CommitMessage(p)
      BY <3>3 DEF CommitMessage, TypeOK
    <3> QED
      BY <1>6, <3>1, <3>2, <3>3
  <2>4. ASSUME NEW q \in Procs, Creating(q), q # p
        PROVE  tx[q].req.ticket # t /\ tx[q].req.ticket \in Tickets
    <3>1. tx[q].req.ticket \in Tickets /\ ~Exists(tx[q].req.ticket)
      BY <2>4, BusyTxType, RequestKinds DEF CreationsAreFresh, Creating, Busy, BusyTx
    <3>2. CASE tx[p].req.kind = "create"
      BY <2>1, <2>4, <3>1, <3>2 DEF CreationsAreFresh, Creating, Busy
    <3>3. CASE tx[p].req.kind # "create"
      BY <2>1, <3>1, <3>3, HeldRow
    <3> QED
      BY <3>1, <3>2, <3>3
  <2> QED
    BY <2>2, <2>3, <2>4 DEF CreationsAreFresh, Creating, Busy, Exists
<1> QED
  <2>1. CASE UNCHANGED vars
    BY <1>2, <2>1 DEF vars, dbVars
  <2>2. ASSUME NEW f \in Files, Upload(f)
        PROVE  CreationsAreFresh'
    BY <1>2, <2>2 DEF Upload
  <2>3. ASSUME NEW rec \in records, Lapse(rec)
        PROVE  CreationsAreFresh'
    BY <1>2, <2>3 DEF Lapse, dbVars
  <2> QED
    BY <1>3, <1>4, <1>5, <1>6, <2>1, <2>2, <2>3 DEF Next, Step

\* The lock discipline is inductive.
LEMMA LockInvariant == Spec => []LockInv
<1>1. Init => LockInv
  <2> SUFFICES ASSUME Init PROVE LockInv
    OBVIOUS
  <2>1. \A p \in Procs : tx[p].pc = "idle"
    BY DEF Init, IdleTx
  <2> QED
    BY <2>1, InitType DEF LockInv, ReadsStayCurrent, CreationsAreFresh, Creating, Busy
<1>2. LockInv /\ [Next]_vars => LockInv'
  BY NextType, ReadsInductive, CreationsInductive DEF LockInv
<1> QED
  BY <1>1, <1>2, PTL DEF Spec

\* For every number of concurrent requests: what a handler read and decided under
\* the row lock is still true of the committed state when it writes.
THEOREM ReadsAreCurrent == Spec => []ReadsStayCurrent
<1>1. LockInv => ReadsStayCurrent
  BY DEF LockInv
<1> QED
  BY <1>1, LockInvariant, PTL

\* No PATCH ever overwrites a version that its client has not seen.
THEOREM NoStaleEdits == Spec => EditsAreNotStale
<1>1. LockInv => [\A p \in Procs : CommitPatch(p) =>
                    tx[p].match = ticket[tx[p].req.ticket].version]_vars
  <2> SUFFICES ASSUME LockInv, NEW p \in Procs, CommitPatch(p)
               PROVE  tx[p].match = ticket[tx[p].req.ticket].version
    OBVIOUS
  <2>1. tx[p].pc = "ready" /\ tx[p].req.kind = "patch"
    BY DEF CommitPatch
  <2> QED
    BY <2>1, HeldRow DEF ReadIsCurrent, Proceeds, PatchRefused
<1> QED
  BY <1>1, LockInvariant, PTL DEF EditsAreNotStale

-----------------------------------------------------------------------------
(* What a commit does to status, version and thread of its ticket.         *)

\* A creation gives its row the first version.
LEMMA CreateEffect ==
  ASSUME LockInv, NEW p \in Procs, CommitCreate(p)
  PROVE  LET t == tx[p].req.ticket
         IN  /\ t \in Tickets /\ ticket[t].version = 0
             /\ \A u \in Tickets \ {t} : ticket'[u] = ticket[u]
             /\ ticket'[t].status = "OPEN" /\ ticket'[t].version = 1
             /\ UNCHANGED messages
             /\ outbox' = [outbox EXCEPT ![t] = Append(outbox[t], "PUBLIC")]
<1> DEFINE t == tx[p].req.ticket
<1>1. t \in Tickets /\ ~Exists(t)
  BY BusyTxType, RequestKinds
     DEF LockInv, CommitCreate, BusyTx, CreationsAreFresh, Creating, Busy
<1>2. ticket[t].version = 0
  BY <1>1 DEF Exists, LockInv, TypeOK, TicketRow
<1>3. UNCHANGED messages /\ outbox' = [outbox EXCEPT ![t] = Append(outbox[t], "PUBLIC")]
  BY DEF CommitCreate, LockInv, TypeOK
<1>4. ticket'[t].status = "OPEN" /\ ticket'[t].version = 1
  BY <1>1 DEF CommitCreate, NoTicket, LockInv, TypeOK
<1>5. \A u \in Tickets \ {t} : ticket'[u] = ticket[u]
  BY DEF CommitCreate, LockInv, TypeOK
<1> QED
  BY <1>1, <1>2, <1>3, <1>4, <1>5

\* A patch moves the status only along the policy table, and to RESOLVED only
\* behind a public staff reply.
LEMMA PatchEffect ==
  ASSUME LockInv, NEW p \in Procs, CommitPatch(p)
  PROVE  LET t == tx[p].req.ticket
         IN  /\ t \in Tickets /\ ticket[t].version \in Nat \ {0}
             /\ \A u \in Tickets \ {t} : ticket'[u] = ticket[u]
             /\ ticket'[t].version = ticket[t].version + 1
             /\ \/ ticket'[t].status = ticket[t].status
                \/ /\ ticket'[t].status \in ALLOWED_TRANSITIONS[ticket[t].status]
                   /\ ticket'[t].status \in Statuses
                   /\ ticket'[t].status = "RESOLVED" => HasPublicStaffReply(t)
             /\ UNCHANGED messages
             /\ \E v \in Visibilities :
                  outbox' = [outbox EXCEPT ![t] = Append(outbox[t], v)]
<1> DEFINE r == tx[p].req
           t == r.ticket
           old == tx[p].row
           new == Patched(old, r, tx[p].now)
<1>1. tx[p].pc = "ready" /\ r.kind = "patch" /\ ticket' = [ticket EXCEPT ![t] = new]
      /\ UNCHANGED messages
  BY DEF CommitPatch
<1>2. /\ tx[p] \in BusyTx /\ t \in Tickets /\ old = ticket[t] /\ Exists(t)
      /\ Proceeds(p, old)
  BY <1>1, HeldRow DEF ReadIsCurrent
<1>3. old \in TicketRow /\ r \in PatchRequests /\ tx[p].now \in Nat
  BY <1>1, <1>2, RequestKinds DEF BusyTx
<1>4. /\ new.version = old.version + 1 /\ new.status = Wanted(old, r).status
      /\ new.status \in Statuses \cup {old.status}
  BY <1>3, PatchedRow
<1>5. /\ ValidTransition(old.status, new.status, r.reason)
      /\ new.status # old.status /\ new.status = "RESOLVED" => HasPublicStaffReply(t)
  BY <1>1, <1>2, <1>4 DEF Proceeds, PatchRefused
<1>6. PICK v \in Visibilities : outbox' = [outbox EXCEPT ![t] = Append(outbox[t], v)]
  <2> DEFINE audience == IF PublicChange(old, new) THEN "PUBLIC" ELSE "INTERNAL"
  <2>1. audience \in Visibilities
    BY DEF Visibilities
  <2>2. outbox' = [outbox EXCEPT ![t] = Append(outbox[t], audience)]
    BY DEF CommitPatch, LockInv, TypeOK
  <2> QED
    BY <2>1, <2>2
<1> HIDE DEF new
<1>7. ticket'[t] = new /\ \A u \in Tickets \ {t} : ticket'[u] = ticket[u]
  BY <1>1, <1>2 DEF LockInv, TypeOK
<1>8. ticket[t].version \in Nat \ {0}
  BY <1>2, <1>3 DEF Exists, TicketRow
<1> QED
  BY <1>1, <1>2, <1>4, <1>5, <1>6, <1>7, <1>8 DEF ValidTransition

\* A reply joins the end of the thread; it moves the status only when it is a
\* customer's that reopens, and it is not public on a closed ticket.
LEMMA MessageEffect ==
  ASSUME LockInv, NEW p \in Procs, CommitMessage(p)
  PROVE  LET r == tx[p].req
             t == r.ticket
         IN  /\ r \in MessageRequests /\ t \in Tickets
             /\ ticket[t].version \in Nat \ {0}
             /\ \A u \in Tickets \ {t} : ticket'[u] = ticket[u]
             /\ ticket'[t].version = ticket[t].version + 1
             /\ ticket'[t].status =
                  IF ReopensOnReply(ticket[t], r) THEN "IN_PROGRESS" ELSE ticket[t].status
             /\ ~FromStaff(r) => r.visibility = "PUBLIC"
             /\ r.visibility = "PUBLIC" => ticket[t].status # "CLOSED"
             /\ \E m \in MessageRow :
                  /\ m.sender = r.actor /\ m.visibility = r.visibility
                  /\ m.position = Len(messages[t]) + 1
                  /\ messages' = [messages EXCEPT ![t] = Append(messages[t], m)]
             /\ outbox' = [outbox EXCEPT ![t] = Append(outbox[t], r.visibility)]
<1> DEFINE r == tx[p].req
           t == r.ticket
           old == tx[p].row
           new == Replied(old, r, tx[p].now)
           m == [sender |-> r.actor, visibility |-> r.visibility,
                 position |-> tx[p].last + 1, created |-> tx[p].now, slot |-> Slot(r)]
<1>1. tx[p].pc = "ready" /\ r.kind = "message" /\ ticket' = [ticket EXCEPT ![t] = new]
  BY DEF CommitMessage
<1>2. /\ tx[p] \in BusyTx /\ t \in Tickets /\ old = ticket[t] /\ Exists(t)
      /\ tx[p].last = Len(messages[t]) /\ Proceeds(p, old)
  BY <1>1, HeldRow DEF ReadIsCurrent
<1>3. /\ old \in TicketRow /\ r \in MessageRequests /\ tx[p].now \in Nat
      /\ Slot(r) \in Slots /\ r.actor \in Users /\ r.visibility \in Visibilities
  BY <1>1, <1>2, RequestKinds DEF BusyTx, MessageRequests
<1>4. /\ new.version = old.version + 1
      /\ new.status = IF ReopensOnReply(old, r) THEN "IN_PROGRESS" ELSE old.status
  BY <1>3, RepliedRow
<1>5. /\ ~FromStaff(r) => r.visibility = "PUBLIC"
      /\ r.visibility = "PUBLIC" => old.status # "CLOSED"
  BY <1>1, <1>2 DEF Proceeds, MessageForbidden, MessageRefused
<1>6. /\ messages' = [messages EXCEPT ![t] = Append(messages[t], m)]
      /\ outbox' = [outbox EXCEPT ![t] = Append(outbox[t], r.visibility)]
  BY DEF CommitMessage, LockInv, TypeOK
<1>7. m \in MessageRow
  <2>1. tx[p].last + 1 \in Nat \ {0}
    BY <1>2 DEF BusyTx
  <2> QED
    BY <1>3, <2>1 DEF MessageRow
<1>8. m.sender = r.actor /\ m.visibility = r.visibility /\ m.position = Len(messages[t]) + 1
  BY <1>2
<1> HIDE DEF new, m
<1>9. ticket'[t] = new /\ \A u \in Tickets \ {t} : ticket'[u] = ticket[u]
  BY <1>1, <1>2 DEF LockInv, TypeOK
<1>10. ticket[t].version \in Nat \ {0}
  BY <1>2, <1>3 DEF Exists, TicketRow
<1> QED
  BY <1>2, <1>3, <1>4, <1>5, <1>6, <1>7, <1>8, <1>9, <1>10

\* Nothing but a commit touches a ticket, its thread or its outbox rows.
LEMMA OnlyCommitsWrite ==
  ASSUME [Next]_vars, ~\E p \in Procs : CommitCreate(p) \/ CommitPatch(p) \/ CommitMessage(p)
  PROVE  UNCHANGED <<ticket, messages, outbox>>
<1>1. CASE UNCHANGED vars
  BY <1>1 DEF vars, dbVars
<1>2. ASSUME NEW p \in Procs, Begin(p) \/ BeginIdempotency(p) \/ LockTicket(p)
      PROVE  UNCHANGED <<ticket, messages, outbox>>
  BY <1>2 DEF Begin, BeginIdempotency, LockTicket, dbVars
<1>3. ASSUME NEW p \in Procs, AnswerFromKey(p) \/ AnswerFromRow(p) \/ Rollback(p)
      PROVE  UNCHANGED <<ticket, messages, outbox>>
  BY <1>3 DEF AnswerFromKey, AnswerFromRow, Rollback, dbVars
<1>4. ASSUME NEW f \in Files, Upload(f)
      PROVE  UNCHANGED <<ticket, messages, outbox>>
  BY <1>4 DEF Upload
<1>5. ASSUME NEW rec \in records, Lapse(rec)
      PROVE  UNCHANGED <<ticket, messages, outbox>>
  BY <1>5 DEF Lapse, dbVars
<1> QED
  BY <1>1, <1>2, <1>3, <1>4, <1>5 DEF Next, Step

-----------------------------------------------------------------------------
(* Nothing is lost, and nothing is resolved in silence.                    *)

\* Every write counts the version and leaves one outbox row.
LEMMA VersionInductive ==
  LockInv /\ VersionCountsWrites /\ [Next]_vars => VersionCountsWrites'
<1> SUFFICES ASSUME LockInv, VersionCountsWrites, [Next]_vars, NEW u \in Tickets
             PROVE  ticket'[u].version = Len(outbox'[u])
  BY DEF VersionCountsWrites
<1>1. /\ ticket[u].version = Len(outbox[u]) /\ outbox[u] \in Seq(Visibilities)
      /\ outbox \in [Tickets -> Seq(Visibilities)]
  BY DEF VersionCountsWrites, LockInv, TypeOK
<1>2. ASSUME NEW t \in Tickets, NEW v \in Visibilities,
             outbox' = [outbox EXCEPT ![t] = Append(outbox[t], v)],
             \A w \in Tickets \ {t} : ticket'[w] = ticket[w],
             ticket'[t].version = ticket[t].version + 1
      PROVE  ticket'[u].version = Len(outbox'[u])
  <2>1. CASE u = t
    BY <1>1, <1>2, <2>1
  <2>2. CASE u # t
    BY <1>1, <1>2, <2>2
  <2> QED
    BY <2>1, <2>2
<1>3. ASSUME NEW p \in Procs, CommitCreate(p)
      PROVE  ticket'[u].version = Len(outbox'[u])
  <2>1. "PUBLIC" \in Visibilities
    BY DEF Visibilities
  <2> QED
    BY <1>2, <1>3, <2>1, CreateEffect
<1>4. ASSUME NEW p \in Procs, CommitPatch(p)
      PROVE  ticket'[u].version = Len(outbox'[u])
  BY <1>2, <1>4, PatchEffect
<1>5. ASSUME NEW p \in Procs, CommitMessage(p)
      PROVE  ticket'[u].version = Len(outbox'[u])
  <2> DEFINE r == tx[p].req
             t == r.ticket
  <2>1. /\ r \in MessageRequests /\ t \in Tickets
        /\ outbox' = [outbox EXCEPT ![t] = Append(outbox[t], r.visibility)]
        /\ \A w \in Tickets \ {t} : ticket'[w] = ticket[w]
        /\ ticket'[t].version = ticket[t].version + 1
    BY <1>5, MessageEffect
  <2>2. r.visibility \in Visibilities
    BY <2>1 DEF MessageRequests
  <2> HIDE DEF r, t
  <2> QED
    BY <1>2, <2>1, <2>2
<1>6. CASE UNCHANGED <<ticket, messages, outbox>>
  BY <1>1, <1>6
<1> QED
  BY <1>3, <1>4, <1>5, <1>6, OnlyCommitsWrite

\* However many requests race, no committed write is lost: the version of a
\* ticket is the number of its outbox rows.
THEOREM VersionsCount == Spec => []VersionCountsWrites
<1>1. Init => VersionCountsWrites
  BY DEF Init, VersionCountsWrites, NoTicket
<1> QED
  BY <1>1, VersionInductive, LockInvariant, PTL DEF Spec

\* A row that exists has a status.
RowsHaveStatus == \A t \in Tickets : Exists(t) => ticket[t].status \in Statuses

LEMMA StatusInductive == LockInv /\ RowsHaveStatus /\ [Next]_vars => RowsHaveStatus'
<1> SUFFICES ASSUME LockInv, RowsHaveStatus, [Next]_vars, NEW u \in Tickets,
                    ticket'[u].version > 0
             PROVE  ticket'[u].status \in Statuses
  BY DEF RowsHaveStatus, Exists
<1>1. ticket[u].version > 0 => ticket[u].status \in Statuses
  BY DEF RowsHaveStatus, Exists
<1>2. ASSUME NEW p \in Procs, CommitCreate(p)
      PROVE  ticket'[u].status \in Statuses
  BY <1>1, <1>2, CreateEffect DEF Statuses
<1>3. ASSUME NEW p \in Procs, CommitPatch(p)
      PROVE  ticket'[u].status \in Statuses
  BY <1>1, <1>3, PatchEffect
<1>4. ASSUME NEW p \in Procs, CommitMessage(p)
      PROVE  ticket'[u].status \in Statuses
  BY <1>1, <1>4, MessageEffect DEF Statuses
<1>5. CASE UNCHANGED <<ticket, messages, outbox>>
  BY <1>1, <1>5
<1> QED
  BY <1>2, <1>3, <1>4, <1>5, OnlyCommitsWrite

\* A status in Completed is reached only behind a public staff reply, and a
\* thread never shrinks.
LEMMA ExplainedInductive ==
  LockInv /\ RowsHaveStatus /\ ResolutionWasExplained /\ [Next]_vars
    => ResolutionWasExplained'
<1> SUFFICES ASSUME LockInv, RowsHaveStatus, ResolutionWasExplained, [Next]_vars,
                    NEW u \in Tickets, ticket'[u].status \in Completed
             PROVE  ToldPublicly(u)'
  BY DEF ResolutionWasExplained
<1>1. ticket[u].status \in Completed => ToldPublicly(u)
  BY DEF ResolutionWasExplained
<1>2. messages \in [Tickets -> Seq(MessageRow)]
  BY DEF LockInv, TypeOK
<1>3. ASSUME NEW p \in Procs, CommitCreate(p)
      PROVE  ToldPublicly(u)'
  <2>1. u # tx[p].req.ticket /\ ticket'[u] = ticket[u] /\ UNCHANGED messages
    BY <1>3, CreateEffect DEF Completed
  <2> QED
    BY <1>1, <2>1 DEF ToldPublicly
<1>4. ASSUME NEW p \in Procs, CommitPatch(p)
      PROVE  ToldPublicly(u)'
  <2> DEFINE t == tx[p].req.ticket
  <2>1. UNCHANGED messages
    BY <1>4, PatchEffect
  <2>2. ToldPublicly(u)
    <3>1. CASE ticket'[u].status = ticket[u].status
      BY <1>1, <3>1
    <3>2. CASE ticket'[u].status # ticket[u].status
      <4>1. /\ u = t /\ ticket'[u].status \in ALLOWED_TRANSITIONS[ticket[u].status]
            /\ ticket'[u].status = "RESOLVED" => HasPublicStaffReply(u)
        BY <1>4, <3>2, PatchEffect
      <4>2. CASE ticket'[u].status = "RESOLVED"
        BY <4>1, <4>2 DEF HasPublicStaffReply, ToldPublicly
      <4>3. CASE ticket'[u].status = "CLOSED"
        <5>1. ticket[u].version \in Nat \ {0}
          BY <1>4, <4>1, PatchEffect
        <5>2. ticket[u].status \in Statuses
          BY <5>1 DEF RowsHaveStatus, Exists
        <5> QED
          BY <1>1, <4>1, <4>3, <5>2 DEF ALLOWED_TRANSITIONS, Statuses, Completed
      <4> QED
        BY <4>2, <4>3 DEF Completed
    <3> QED
      BY <3>1, <3>2
  <2> QED
    BY <2>1, <2>2 DEF ToldPublicly
<1>5. ASSUME NEW p \in Procs, CommitMessage(p)
      PROVE  ToldPublicly(u)'
  <2> DEFINE t == tx[p].req.ticket
  <2>1. ticket[u].status \in Completed
    BY <1>5, MessageEffect DEF Completed
  <2>2. PICK m \in MessageRow : messages' = [messages EXCEPT ![t] = Append(messages[t], m)]
    BY <1>5, MessageEffect
  <2>3. PICK i \in DOMAIN messages[u] :
          messages[u][i].visibility = "PUBLIC" /\ messages[u][i].sender \in Staff
    BY <1>1, <2>1 DEF ToldPublicly
  <2>4. i \in DOMAIN messages'[u] /\ messages'[u][i] = messages[u][i]
    BY <1>2, <2>2, <2>3
  <2> QED
    BY <2>3, <2>4 DEF ToldPublicly
<1>6. CASE UNCHANGED <<ticket, messages, outbox>>
  BY <1>1, <1>6 DEF ToldPublicly
<1> QED
  BY <1>3, <1>4, <1>5, <1>6, OnlyCommitsWrite

\* No interleaving of moves and replies leaves a ticket resolved or closed
\* without a public staff reply in its thread.
THEOREM ResolutionExplained == Spec => []ResolutionWasExplained
<1>1. Init => RowsHaveStatus /\ ResolutionWasExplained
  BY DEF Init, RowsHaveStatus, Exists, ResolutionWasExplained, NoTicket, Null, Completed
<1> QED
  BY <1>1, StatusInductive, ExplainedInductive, LockInvariant, PTL DEF Spec

\* A public reply never lands on a closed ticket, however it races the close.
THEOREM ClosedIsQuiet == Spec => NoPublicReplyOnClosed
<1>1. LockInv /\ LockInv' /\ [Next]_vars =>
        [\A t \in Tickets : ticket[t].status = "CLOSED" =>
           \A i \in DOMAIN messages'[t] \ DOMAIN messages[t] :
              messages'[t][i].visibility = "INTERNAL"]_vars
  <2> SUFFICES ASSUME LockInv, LockInv', [Next]_vars, NEW t \in Tickets,
                      ticket[t].status = "CLOSED",
                      NEW i \in DOMAIN messages'[t] \ DOMAIN messages[t]
               PROVE  messages'[t][i].visibility = "INTERNAL"
    OBVIOUS
  <2>1. messages \in [Tickets -> Seq(MessageRow)]
    BY DEF LockInv, TypeOK
  <2>2. ~UNCHANGED messages
    OBVIOUS
  <2>3. PICK p \in Procs : CommitMessage(p)
    BY <2>2, OnlyCommitsWrite, CreateEffect, PatchEffect
  <2>4. PICK m \in MessageRow :
          /\ m.visibility = tx[p].req.visibility
          /\ messages' = [messages EXCEPT ![tx[p].req.ticket] =
                            Append(messages[tx[p].req.ticket], m)]
    BY <2>3, MessageEffect
  <2>5. t = tx[p].req.ticket /\ messages'[t][i] = m
    BY <2>1, <2>4
  <2> QED
    BY <2>3, <2>4, <2>5, MessageEffect DEF MessageRequests, Visibilities
<1> QED
  BY <1>1, LockInvariant, PTL DEF Spec, NoPublicReplyOnClosed

\* An attached file stays attached to the message it was sent with, for every
\* interleaving of uploads and replies that name it.
THEOREM FilesAttachOnce == Spec => AttachesOnce
<1>1. LockInv /\ [Next]_vars =>
        [\A f \in Files : files[f].message > 0 => files'[f] = files[f]]_vars
  <2> SUFFICES ASSUME LockInv, [Next]_vars, NEW f \in Files, files[f].message > 0
               PROVE  files'[f] = files[f]
    OBVIOUS
  <2>1. CASE UNCHANGED vars
    BY <2>1 DEF vars, dbVars
  <2>2. ASSUME NEW p \in Procs, Begin(p) \/ BeginIdempotency(p) \/ LockTicket(p)
        PROVE  files'[f] = files[f]
    BY <2>2 DEF Begin, BeginIdempotency, LockTicket, dbVars
  <2>3. ASSUME NEW p \in Procs, AnswerFromKey(p) \/ AnswerFromRow(p) \/ Rollback(p)
        PROVE  files'[f] = files[f]
    BY <2>3 DEF AnswerFromKey, AnswerFromRow, Rollback, dbVars
  <2>4. ASSUME NEW p \in Procs, CommitCreate(p) \/ CommitPatch(p)
        PROVE  files'[f] = files[f]
    BY <2>4 DEF CommitCreate, CommitPatch
  <2>5. ASSUME NEW p \in Procs, CommitMessage(p)
        PROVE  files'[f] = files[f]
    <3>1. tx[p].pc = "ready" /\ tx[p].req.kind = "message"
      BY <2>5 DEF CommitMessage
    <3>2. f \notin tx[p].req.files
      BY <3>1, HeldFiles
    <3>3. \A g \in Files \ tx[p].req.files : files'[g] = files[g]
      BY <2>5 DEF CommitMessage
    <3> QED
      BY <3>2, <3>3
  <2>6. ASSUME NEW g \in Files, Upload(g)
        PROVE  files'[f] = files[f]
    BY <2>6 DEF Upload, NoFile, LockInv, TypeOK
  <2>7. ASSUME NEW rec \in records, Lapse(rec)
        PROVE  files'[f] = files[f]
    BY <2>7 DEF Lapse, dbVars
  <2> QED
    BY <2>1, <2>2, <2>3, <2>4, <2>5, <2>6, <2>7 DEF Next, Step
<1> QED
  BY <1>1, LockInvariant, PTL DEF Spec, AttachesOnce

-----------------------------------------------------------------------------
(* The transactions implement the serial ledger.                           *)

Said(m) == [sender |-> m.sender, visibility |-> m.visibility]

\* What the ledger sees of a thread grows with the thread.
LEMMA ThreadGrows ==
  ASSUME NEW s \in Seq(MessageRow), NEW m \in MessageRow
  PROVE  Thread(Append(s, m)) = Append(Thread(s), Said(m))
<1> DEFINE S == [sender: Users, visibility: Visibilities]
<1>1. Len(s) \in Nat /\ DOMAIN s = 1..Len(s) /\ \A i \in 1..Len(s) : s[i] \in MessageRow
  OBVIOUS
<1>2. \A n \in MessageRow : Said(n) \in S
  BY DEF Said, MessageRow
<1>3. Thread(s) = [i \in 1..Len(s) |-> Said(s[i])]
  BY DEF Thread, Said
<1>4. Thread(s) \in Seq(S)
  <2>1. [i \in 1..Len(s) |-> Said(s[i])] \in [1..Len(s) -> S]
    BY <1>1, <1>2
  <2> QED
    BY <1>1, <1>3, <2>1, SeqDef
<1>5. Len(Thread(s)) = Len(s)
  BY <1>1, <1>3, <1>4
<1>6. /\ Append(s, m) \in Seq(MessageRow) /\ Len(Append(s, m)) = Len(s) + 1
      /\ \A i \in 1..Len(s) : Append(s, m)[i] = s[i]
      /\ Append(s, m)[Len(s) + 1] = m
  OBVIOUS
<1>7. Thread(Append(s, m)) = [i \in 1..(Len(s) + 1) |-> Said(Append(s, m)[i])]
  BY <1>6 DEF Thread, Said
<1>8. Said(m) \in S
  BY <1>2
<1> HIDE DEF S
<1>9. /\ Append(Thread(s), Said(m)) \in Seq(S)
      /\ Len(Append(Thread(s), Said(m))) = Len(s) + 1
      /\ \A i \in 1..Len(s) : Append(Thread(s), Said(m))[i] = Said(s[i])
      /\ Append(Thread(s), Said(m))[Len(s) + 1] = Said(m)
  BY <1>1, <1>3, <1>4, <1>5, <1>8, AppendProperties
<1>10. /\ Thread(Append(s, m)) \in Seq(S) /\ Len(Thread(Append(s, m))) = Len(s) + 1
       /\ \A i \in 1..(Len(s) + 1) : Thread(Append(s, m))[i] = Said(Append(s, m)[i])
  <2>1. \A i \in 1..(Len(s) + 1) : Append(s, m)[i] \in MessageRow
    BY <1>1, <1>6
  <2>2. [i \in 1..(Len(s) + 1) |-> Said(Append(s, m)[i])] \in [1..(Len(s) + 1) -> S]
    BY <1>2, <2>1
  <2>3. Len(s) + 1 \in Nat
    BY <1>1
  <2> QED
    BY <1>7, <2>2, <2>3, SeqDef
<1>11. \A i \in 1..(Len(s) + 1) :
         Thread(Append(s, m))[i] = Append(Thread(s), Said(m))[i]
  BY <1>1, <1>6, <1>9, <1>10
<1> QED
  BY <1>9, <1>10, <1>11, SeqEqual

\* The ledger's view of a write of one ticket.
LEMMA OneTicket ==
  ASSUME NEW t \in Tickets, \A u \in Tickets \ {t} : ticket'[u] = ticket[u]
  PROVE  /\ [u \in Tickets |-> ticket'[u].version] =
              [[u \in Tickets |-> ticket[u].version] EXCEPT ![t] = ticket'[t].version]
         /\ [u \in Tickets |-> ticket'[u].status] =
              [[u \in Tickets |-> ticket[u].status] EXCEPT ![t] = ticket'[t].status]
OBVIOUS

\* A creation opens the ticket.
LEMMA CreateOpens ==
  ASSUME LockInv, NEW p \in Procs, CommitCreate(p)
  PROVE  Ledger!Next
<1>1. PICK t \in Tickets :
        /\ ticket[t].version = 0
        /\ \A u \in Tickets \ {t} : ticket'[u] = ticket[u]
        /\ ticket'[t].status = "OPEN" /\ ticket'[t].version = 1
        /\ UNCHANGED messages
  BY CreateEffect
<1>2. ticket'[t].version = ticket[t].version + 1
  BY <1>1
<1>3. /\ [u \in Tickets |-> ticket'[u].version] =
           [[u \in Tickets |-> ticket[u].version] EXCEPT ![t] = ticket[t].version + 1]
      /\ [u \in Tickets |-> ticket'[u].status] =
           [[u \in Tickets |-> ticket[u].status] EXCEPT ![t] = "OPEN"]
  BY <1>1, <1>2, OneTicket
<1>4. Ledger!Open(t)
  BY <1>1, <1>3 DEF Ledger!Open, Ledger!Count
<1> QED
  BY <1>4 DEF Ledger!Next

\* A patch is an edit or a move.
LEMMA PatchEdits ==
  ASSUME LockInv, NEW p \in Procs, CommitPatch(p)
  PROVE  Ledger!Next
<1>1. PICK t \in Tickets :
        /\ ticket[t].version \in Nat \ {0}
        /\ \A u \in Tickets \ {t} : ticket'[u] = ticket[u]
        /\ ticket'[t].version = ticket[t].version + 1
        /\ \/ ticket'[t].status = ticket[t].status
           \/ /\ ticket'[t].status \in ALLOWED_TRANSITIONS[ticket[t].status]
              /\ ticket'[t].status \in Statuses
              /\ ticket'[t].status = "RESOLVED" => HasPublicStaffReply(t)
        /\ UNCHANGED messages
  BY PatchEffect
<1>2. /\ [u \in Tickets |-> ticket'[u].version] =
           [[u \in Tickets |-> ticket[u].version] EXCEPT ![t] = ticket[t].version + 1]
      /\ [u \in Tickets |-> ticket'[u].status] =
           [[u \in Tickets |-> ticket[u].status] EXCEPT ![t] = ticket'[t].status]
  BY <1>1, OneTicket
<1>3. ticket[t].version > 0
  BY <1>1
<1>4. CASE ticket'[t].status = ticket[t].status
  <2>1. [u \in Tickets |-> ticket'[u].status] = [u \in Tickets |-> ticket[u].status]
    BY <1>1, <1>4
  <2>2. Ledger!Count(t)
    BY <1>2 DEF Ledger!Count
  <2>3. Ledger!Edit(t)
    BY <1>1, <1>3, <2>1, <2>2 DEF Ledger!Edit
  <2> QED
    BY <2>3 DEF Ledger!Next
<1>5. CASE ticket'[t].status # ticket[t].status
  <2>1. PICK new \in Statuses : new = ticket'[t].status
    BY <1>1, <1>5
  <2>2. /\ new \in ALLOWED_TRANSITIONS[ticket[t].status]
        /\ new = "RESOLVED" => HasPublicStaffReply(t)
    BY <1>1, <1>5, <2>1
  <2>3. Ledger!Follows = ALLOWED_TRANSITIONS /\ DOMAIN Ledger!Follows = Statuses
    BY DEF Ledger!Follows, ALLOWED_TRANSITIONS, Statuses
  <2>4. HasPublicStaffReply(t) => Ledger!Explained(t)
    <3>1. messages[t] \in Seq(MessageRow)
      BY DEF LockInv, TypeOK
    <3>2. DOMAIN messages[t] = 1..Len(messages[t]) /\ Len(messages[t]) \in Nat
      BY <3>1
    <3>3. Len(Thread(messages[t])) = Len(messages[t])
      BY <3>2 DEF Thread
    <3>4. \A i \in 1..Len(messages[t]) :
            /\ Thread(messages[t])[i].visibility = messages[t][i].visibility
            /\ Thread(messages[t])[i].sender = messages[t][i].sender
      BY DEF Thread
    <3> QED
      BY <3>2, <3>3, <3>4 DEF HasPublicStaffReply, Ledger!Explained
  <2>5. Ledger!Move(t, new)
    BY <1>1, <1>2, <1>3, <2>1, <2>2, <2>3, <2>4 DEF Ledger!Move, Ledger!Count
  <2> QED
    BY <2>3, <2>5 DEF Ledger!Next
<1> QED
  BY <1>4, <1>5

\* A reply is a post.
LEMMA MessagePosts ==
  ASSUME LockInv, NEW p \in Procs, CommitMessage(p)
  PROVE  Ledger!Next
<1>1. PICK r \in MessageRequests, t \in Tickets :
        /\ r = tx[p].req /\ t = r.ticket
        /\ ticket[t].version > 0
        /\ \A u \in Tickets \ {t} : ticket'[u] = ticket[u]
        /\ ticket'[t].version = ticket[t].version + 1
        /\ ticket'[t].status =
             IF ReopensOnReply(ticket[t], r) THEN "IN_PROGRESS" ELSE ticket[t].status
        /\ ~FromStaff(r) => r.visibility = "PUBLIC"
        /\ r.visibility = "PUBLIC" => ticket[t].status # "CLOSED"
  BY MessageEffect
<1>2. PICK m \in MessageRow :
        /\ m.sender = r.actor /\ m.visibility = r.visibility
        /\ messages' = [messages EXCEPT ![t] = Append(messages[t], m)]
  BY <1>1, MessageEffect
<1>3. messages \in [Tickets -> Seq(MessageRow)]
  BY DEF LockInv, TypeOK
<1>4. [u \in Tickets |-> Thread(messages'[u])] =
        [[u \in Tickets |-> Thread(messages[u])] EXCEPT ![t] =
           Append(Thread(messages[t]), Said(m))]
  <2>1. \A u \in Tickets \ {t} : messages'[u] = messages[u]
    BY <1>2, <1>3
  <2>2. messages'[t] = Append(messages[t], m)
    BY <1>2, <1>3
  <2>3. Thread(messages'[t]) = Append(Thread(messages[t]), Said(m))
    BY <1>3, <2>2, ThreadGrows
  <2> QED
    BY <2>1, <2>3
<1>5. Said(m) \in [sender: Users, visibility: Visibilities]
  BY DEF Said, MessageRow
<1>6. Said(m).sender = r.actor /\ Said(m).visibility = r.visibility
  BY <1>2 DEF Said
<1>7. /\ [u \in Tickets |-> ticket'[u].version] =
           [[u \in Tickets |-> ticket[u].version] EXCEPT ![t] = ticket[t].version + 1]
      /\ [u \in Tickets |-> ticket'[u].status] =
           [[u \in Tickets |-> ticket[u].status] EXCEPT ![t] =
              IF ReopensOnReply(ticket[t], r) THEN "IN_PROGRESS" ELSE ticket[t].status]
  BY <1>1, OneTicket
<1>8. PICK s \in [sender: Users, visibility: Visibilities] : s = Said(m)
  BY <1>5
<1>9. ReopensOnReply(ticket[t], r) <=>
        s.sender \notin Staff /\ ticket[t].status \in {"WAITING_FOR_CUSTOMER", "RESOLVED"}
  BY <1>1, <1>6, <1>8 DEF ReopensOnReply, FromStaff
<1>10. Ledger!Post(t, s)
  BY <1>1, <1>4, <1>6, <1>7, <1>8, <1>9 DEF Ledger!Post, Ledger!Count, FromStaff
<1> QED
  BY <1>10 DEF Ledger!Next

\* The write path implements the ledger: with any number of requests in flight,
\* retried, aborted or cut off, every ticket behaves as a serial object that moves
\* along the policy table.
THEOREM TransactionsAreSerial == Spec => SerialTickets
<1>1. Init => Ledger!Init
  <2> SUFFICES ASSUME Init PROVE Ledger!Init
    OBVIOUS
  <2>1. Thread(<< >>) = << >>
    BY DEF Thread
  <2> QED
    BY <2>1 DEF Init, Ledger!Init, NoTicket, Null
<1>2. LockInv /\ [Next]_vars => [Ledger!Next]_(Ledger!ledger)
  <2> SUFFICES ASSUME LockInv, [Next]_vars
               PROVE  [Ledger!Next]_(Ledger!ledger)
    OBVIOUS
  <2>1. CASE \E p \in Procs : CommitCreate(p) \/ CommitPatch(p) \/ CommitMessage(p)
    BY <2>1, CreateOpens, PatchEdits, MessagePosts
  <2>2. CASE UNCHANGED <<ticket, messages, outbox>>
    BY <2>2 DEF Ledger!ledger
  <2> QED
    BY <2>1, <2>2, OnlyCommitsWrite
<1> QED
  BY <1>1, <1>2, LockInvariant, PTL DEF Spec, SerialTickets, Ledger!Spec

-----------------------------------------------------------------------------
(* What an Idempotency-Key promises.                                       *)

\* A request that has passed begin_idempotency and is not over.
Keyed(p) == tx[p].pc \in {"locking", "ready"} /\ tx[p].req.kind # "patch"

\* It holds the advisory lock of its key until it ends.
KeysAreHeld == \A p \in Procs : Keyed(p) => keyLock[Slot(tx[p].req)] = p

\* One that is going to write has found no record of its key, and there still is none.
FirstUse ==
  \A p \in Procs : Keyed(p) /\ (tx[p].pc = "ready" \/ ~tx[p].replay) => Live(Slot(tx[p].req)) = {}

OneRecord == \A r1, r2 \in records : r1.slot = r2.slot => r1 = r2

Points(rec) ==
  /\ Exists(rec.ticket)
  /\ rec.message > 0 => /\ rec.message <= Len(messages[rec.ticket])
                        /\ messages[rec.ticket][rec.message].slot = rec.slot
RecordsPoint == \A rec \in records : Points(rec)

\* The messages that a key has written to a ticket.
Uses(t, s) == {i \in DOMAIN messages[t] : messages[t][i].slot = s}

\* Each of them has a record that has expired, or the one that has not.
UsesAreCounted ==
  \A t \in Tickets, s \in Slots :
    /\ IsFiniteSet(Uses(t, s))
    /\ Cardinality(Uses(t, s)) <= lapses[s] + (IF Live(s) = {} THEN 0 ELSE 1)

KeyInv == LockInv /\ KeysAreHeld /\ FirstUse /\ OneRecord /\ RecordsPoint /\ UsesAreCounted

-----------------------------------------------------------------------------
(* Keys and locks.                                                         *)

\* A keyed request has a slot.
LEMMA KeyedSlot ==
  ASSUME TypeOK, NEW p \in Procs, tx[p].pc # "idle", tx[p].req.kind # "patch"
  PROVE  tx[p] \in BusyTx /\ tx[p].req \in Requests /\ Slot(tx[p].req) \in Slots
<1>1. tx[p] \in BusyTx /\ tx[p].req \in Requests
  BY BusyTxType DEF BusyTx
<1> QED
  BY <1>1, RequestKinds

\* The end of a transaction takes no lock from another one.
LEMMA EndKeepsKeys ==
  ASSUME TypeOK, KeysAreHeld, NEW p \in Procs, End(p)
  PROVE  /\ KeysAreHeld'
         /\ \A q \in Procs : Keyed(q)' => q # p /\ tx'[q] = tx[q] /\ Keyed(q)
<1>1. \A q \in Procs : Keyed(q)' => q # p /\ tx'[q] = tx[q] /\ Keyed(q)
  BY EndFrame DEF Keyed
<1>2. ASSUME NEW q \in Procs, Keyed(q)'
      PROVE  keyLock'[Slot(tx'[q].req)] = q
  <2>1. q # p /\ tx'[q] = tx[q] /\ Keyed(q)
    BY <1>1, <1>2
  <2>2. Slot(tx[q].req) \in Slots /\ keyLock[Slot(tx[q].req)] = q
    BY <2>1, KeyedSlot DEF Keyed, KeysAreHeld
  <2> QED
    BY <2>1, <2>2 DEF End
<1> QED
  BY <1>1, <1>2 DEF KeysAreHeld

\* Two requests never hold the same key.
LEMMA KeysApart ==
  ASSUME KeysAreHeld, NEW p \in Procs, NEW q \in Procs, p # q, Keyed(p), Keyed(q)
  PROVE  Slot(tx[p].req) # Slot(tx[q].req)
BY DEF KeysAreHeld

\* An end that writes no record keeps the locks and the free keys.
LEMMA QuietEnd ==
  ASSUME TypeOK, KeysAreHeld, FirstUse, NEW p \in Procs, End(p), UNCHANGED records
  PROVE  KeysAreHeld' /\ FirstUse'
<1>1. KeysAreHeld' /\ \A q \in Procs : Keyed(q)' => q # p /\ tx'[q] = tx[q] /\ Keyed(q)
  BY EndKeepsKeys
<1>2. \A s : Live(s)' = Live(s)
  BY DEF Live
<1>3. FirstUse'
  BY <1>1, <1>2 DEF FirstUse
<1> QED
  BY <1>1, <1>3

\* A claimed key has a record from then on, the others keep theirs.
LEMMA ClaimLives ==
  ASSUME NEW r, NEW position, records' = Claim(r, position)
  PROVE  /\ Live(Slot(r))' # {}
         /\ \A s : s # Slot(r) => Live(s)' = Live(s)
<1> DEFINE new == [slot |-> Slot(r), content |-> Content(r), ticket |-> r.ticket,
                   message |-> position, lapsed |-> FALSE]
<1>1. new.slot = Slot(r) /\ new.lapsed = FALSE
  OBVIOUS
<1>2. records' = {rec \in records : rec.slot # Slot(r) \/ ~rec.lapsed} \cup {new}
  BY DEF Claim
<1> HIDE DEF new
<1>3. new \in Live(Slot(r))'
  BY <1>1, <1>2 DEF Live
<1>4. \A s : s # Slot(r) => Live(s)' = Live(s)
  BY <1>1, <1>2 DEF Live
<1> QED
  BY <1>3, <1>4

\* A commit that claims a key leaves the keys of the others as they were.
LEMMA ClaimingEnd ==
  ASSUME KeyInv, NEW p \in Procs, End(p), tx[p].pc = "ready", tx[p].req.kind # "patch",
         NEW position, records' = Claim(tx[p].req, position)
  PROVE  KeysAreHeld' /\ FirstUse'
<1>1. KeysAreHeld' /\ \A q \in Procs : Keyed(q)' => q # p /\ tx'[q] = tx[q] /\ Keyed(q)
  BY EndKeepsKeys DEF KeyInv, LockInv
<1>2. PICK r : r = tx[p].req
  OBVIOUS
<1>3. \A s : s # Slot(r) => Live(s)' = Live(s)
  BY <1>2, ClaimLives
<1>4. ASSUME NEW q \in Procs, Keyed(q)', tx'[q].pc = "ready" \/ ~tx'[q].replay
      PROVE  Live(Slot(tx[q].req)) = {} /\ Slot(tx[q].req) # Slot(r) /\ tx'[q] = tx[q]
  <2>1. q # p /\ tx'[q] = tx[q] /\ Keyed(q) /\ Keyed(p)
    BY <1>1, <1>4 DEF Keyed
  <2>2. Slot(tx[q].req) # Slot(r)
    BY <1>2, <2>1, KeysApart DEF KeyInv
  <2>3. Live(Slot(tx[q].req)) = {}
    BY <1>4, <2>1 DEF KeyInv, FirstUse
  <2> QED
    BY <2>1, <2>2, <2>3
<1>5. FirstUse'
  BY <1>3, <1>4 DEF FirstUse
<1> QED
  BY <1>1, <1>5

\* Every step keeps the locks of the keys, and a key found free stays free.
LEMMA LocksInductive ==
  ASSUME KeyInv, [Next]_vars
  PROVE  KeysAreHeld' /\ FirstUse'
<1> USE DEF KeyInv
<1>t. TypeOK
  BY DEF LockInv
<1>1. ASSUME NEW p \in Procs, Begin(p) PROVE KeysAreHeld' /\ FirstUse'
  <2>1. /\ \A q \in Procs : q # p => tx'[q] = tx[q]
        /\ tx'[p].pc = "keying" \/ tx'[p].req.kind = "patch"
        /\ UNCHANGED <<records, keyLock>>
    BY <1>1, <1>t DEF Begin, TypeOK, lockVars
  <2>2. \A s : Live(s)' = Live(s)
    BY <2>1 DEF Live
  <2>3. \A q \in Procs : Keyed(q)' => tx'[q] = tx[q] /\ Keyed(q)
    BY <2>1 DEF Keyed
  <2> QED
    BY <2>1, <2>2, <2>3 DEF KeysAreHeld, FirstUse
<1>2. ASSUME NEW p \in Procs, BeginIdempotency(p) PROVE KeysAreHeld' /\ FirstUse'
  <2> DEFINE s == Slot(tx[p].req)
  <2>1. tx[p].pc = "keying" /\ tx[p].req.kind # "patch"
    BY <1>2 DEF BeginIdempotency, LockInv, CreationsAreFresh
  <2>2. tx[p] \in BusyTx /\ s \in Slots
    BY <1>t, <2>1, KeyedSlot
  <2>3. /\ keyLock[s] = Free /\ keyLock' = [keyLock EXCEPT ![s] = p] /\ UNCHANGED records
        /\ \A q \in Procs : q # p => tx'[q] = tx[q]
    BY <1>2, <1>t DEF BeginIdempotency, TypeOK
  <2>4. /\ tx'[p].req = tx[p].req /\ tx'[p].replay = (Live(s) # {})
        /\ tx'[p].pc = "ready" => tx[p].req.kind = "create"
        /\ tx[p].req.kind = "create" => Live(s) = {}
    <3>1. tx'[p] = [tx[p] EXCEPT !.pc = IF tx[p].req.kind = "create" THEN "ready" ELSE "locking",
                                 !.replay = Live(s) # {}, !.now = clock]
      BY <1>2, <1>t DEF BeginIdempotency, TypeOK
    <3>2. tx[p].req.kind = "create" => Live(s) = {}
      BY <1>2 DEF BeginIdempotency
    <3> QED
      BY <2>2, <3>1, <3>2 DEF BusyTx
  <2>5. ASSUME NEW q \in Procs, q # p, Keyed(q)
        PROVE  keyLock'[Slot(tx[q].req)] = q
    <3>1. keyLock[Slot(tx[q].req)] = q /\ Slot(tx[q].req) \in Slots
      BY <1>t, <2>5, KeyedSlot DEF KeysAreHeld, Keyed
    <3>2. Slot(tx[q].req) # s
      BY <2>3, <3>1, SentinelAssumption
    <3> QED
      BY <2>3, <3>1, <3>2 DEF TypeOK
  <2>6. keyLock'[s] = p
    BY <1>t, <2>2, <2>3 DEF TypeOK
  <2>7. KeysAreHeld'
    BY <2>3, <2>4, <2>5, <2>6 DEF KeysAreHeld, Keyed
  <2>8. \A u : Live(u)' = Live(u)
    BY <2>3 DEF Live
  <2>9. ASSUME NEW q \in Procs, Keyed(q)', tx'[q].pc = "ready" \/ ~tx'[q].replay
        PROVE  Live(Slot(tx'[q].req)) = {}
    <3>1. CASE q = p
      BY <2>4, <2>9, <3>1
    <3>2. CASE q # p
      BY <2>3, <2>9, <3>2 DEF FirstUse, Keyed
    <3> QED
      BY <3>1, <3>2
  <2> QED
    BY <2>7, <2>8, <2>9 DEF FirstUse
<1>3. ASSUME NEW p \in Procs, LockTicket(p) PROVE KeysAreHeld' /\ FirstUse'
  <2>1. tx[p].pc = "locking" /\ UNCHANGED <<records, keyLock>> /\ tx[p] \in BusyTx
    BY <1>3, <1>t, BusyTxType DEF LockTicket
  <2>2. /\ tx'[p].req = tx[p].req /\ \A q \in Procs : q # p => tx'[q] = tx[q]
    BY <1>3, <1>t, <2>1 DEF LockTicket, TypeOK, BusyTx
  <2>3. tx[p].req.kind # "patch" => ~tx[p].replay
    BY <1>3, <2>1, <1>t DEF LockTicket, Proceeds
  <2>4. \A q \in Procs : Keyed(q)' => Keyed(q) /\ tx'[q].req = tx[q].req
    BY <2>1, <2>2 DEF Keyed
  <2>5. \A q \in Procs : Keyed(q)' /\ (tx'[q].pc = "ready" \/ ~tx'[q].replay) =>
          tx[q].pc = "ready" \/ ~tx[q].replay
    BY <2>1, <2>2, <2>3 DEF Keyed
  <2>6. \A u : Live(u)' = Live(u)
    BY <2>1 DEF Live
  <2> QED
    BY <2>1, <2>4, <2>5, <2>6 DEF KeysAreHeld, FirstUse
<1>4. ASSUME NEW p \in Procs, AnswerFromKey(p) \/ AnswerFromRow(p) \/ Rollback(p) \/ CommitPatch(p)
      PROVE  KeysAreHeld' /\ FirstUse'
  <2>1. End(p) /\ UNCHANGED records
    BY <1>4 DEF AnswerFromKey, AnswerFromRow, Rollback, CommitPatch
  <2> QED
    BY <1>t, <2>1, QuietEnd
<1>5. ASSUME NEW p \in Procs, CommitCreate(p) \/ CommitMessage(p)
      PROVE  KeysAreHeld' /\ FirstUse'
  <2>1. /\ End(p) /\ tx[p].pc = "ready" /\ tx[p].req.kind # "patch"
        /\ \E position : records' = Claim(tx[p].req, position)
    BY <1>5 DEF CommitCreate, CommitMessage
  <2> QED
    BY <2>1, ClaimingEnd
<1>6. ASSUME UNCHANGED <<tx, keyLock>>, \A s : Live(s)' \subseteq Live(s)
      PROVE  KeysAreHeld' /\ FirstUse'
  BY <1>6 DEF KeysAreHeld, FirstUse, Keyed
<1>7. ASSUME NEW f \in Files, Upload(f) PROVE KeysAreHeld' /\ FirstUse'
  BY <1>6, <1>7 DEF Upload, lockVars, Live
<1>8. ASSUME NEW rec \in records, Lapse(rec) PROVE KeysAreHeld' /\ FirstUse'
  <2>1. /\ UNCHANGED <<tx, keyLock>>
        /\ records' = (records \ {rec}) \cup {[rec EXCEPT !.lapsed = TRUE]}
    BY <1>8 DEF Lapse, lockVars
  <2>2. [rec EXCEPT !.lapsed = TRUE].lapsed
    BY <1>t DEF TypeOK, RecordRow
  <2>3. \A s : Live(s)' \subseteq Live(s)
    BY <2>1, <2>2 DEF Live
  <2> QED
    BY <1>6, <2>1, <2>3
<1>9. CASE UNCHANGED vars
  BY <1>6, <1>9 DEF vars, lockVars, Live
<1> QED
  BY <1>1, <1>2, <1>3, <1>4, <1>5, <1>7, <1>8, <1>9 DEF Next, Step

-----------------------------------------------------------------------------
(* Records.                                                                *)

\* Nothing but a creation, a reply and an expiry touches what a key counts.
LEMMA OnlyKeyedCommitsCount ==
  ASSUME [Next]_vars,
         ~\E p \in Procs : CommitCreate(p) \/ CommitMessage(p),
         ~\E rec \in records : Lapse(rec)
  PROVE  UNCHANGED <<messages, records, lapses>>
<1>1. CASE UNCHANGED vars
  BY <1>1 DEF vars, dbVars
<1>2. ASSUME NEW p \in Procs, Begin(p) \/ BeginIdempotency(p) \/ LockTicket(p)
      PROVE  UNCHANGED <<messages, records, lapses>>
  BY <1>2 DEF Begin, BeginIdempotency, LockTicket, dbVars
<1>3. ASSUME NEW p \in Procs,
             AnswerFromKey(p) \/ AnswerFromRow(p) \/ Rollback(p) \/ CommitPatch(p)
      PROVE  UNCHANGED <<messages, records, lapses>>
  BY <1>3 DEF AnswerFromKey, AnswerFromRow, Rollback, CommitPatch, dbVars
<1>4. ASSUME NEW f \in Files, Upload(f)
      PROVE  UNCHANGED <<messages, records, lapses>>
  BY <1>4 DEF Upload
<1> QED
  BY <1>1, <1>2, <1>3, <1>4 DEF Next, Step

\* A ticket that exists goes on existing.
LEMMA TicketsStay ==
  ASSUME LockInv, [Next]_vars, NEW t \in Tickets, Exists(t)
  PROVE  Exists(t)'
<1>1. ticket[t].version \in Nat /\ ticket[t].version > 0
  BY DEF LockInv, TypeOK, TicketRow, Exists
<1>2. ASSUME NEW p \in Procs, CommitCreate(p) PROVE ticket'[t].version > 0
  BY <1>1, <1>2, CreateEffect
<1>3. ASSUME NEW p \in Procs, CommitPatch(p) PROVE ticket'[t].version > 0
  <2>1. PICK u \in Tickets : /\ \A w \in Tickets \ {u} : ticket'[w] = ticket[w]
                             /\ ticket'[u].version = ticket[u].version + 1
    BY <1>3, PatchEffect
  <2> QED
    BY <1>1, <2>1
<1>4. ASSUME NEW p \in Procs, CommitMessage(p) PROVE ticket'[t].version > 0
  <2>1. PICK u \in Tickets : /\ \A w \in Tickets \ {u} : ticket'[w] = ticket[w]
                             /\ ticket'[u].version = ticket[u].version + 1
    BY <1>4, MessageEffect
  <2> QED
    BY <1>1, <2>1
<1>5. CASE UNCHANGED <<ticket, messages, outbox>>
  BY <1>1, <1>5 DEF Exists
<1> QED
  BY <1>2, <1>3, <1>4, <1>5, OnlyCommitsWrite DEF Exists

\* What a reply of the slot s appends to the thread of t.
Posted(t, s) ==
  \E m \in MessageRow :
    /\ m.slot = s
    /\ messages' = [messages EXCEPT ![t] = Append(messages[t], m)]

\* A committing reply claims the position at which its message lands.
LEMMA ReplyEffect ==
  ASSUME LockInv, NEW p \in Procs, CommitMessage(p)
  PROVE  \E r \in MessageRequests :
           /\ r = tx[p].req /\ Slot(r) \in Slots
           /\ r.ticket \in Tickets /\ Exists(r.ticket)
           /\ Posted(r.ticket, Slot(r))
           /\ records' = Claim(r, Len(messages[r.ticket]) + 1)
           /\ UNCHANGED lapses
<1>1. tx[p].pc = "ready" /\ tx[p].req.kind = "message"
  BY DEF CommitMessage
<1>2. /\ tx[p] \in BusyTx /\ tx[p].req.ticket \in Tickets /\ Exists(tx[p].req.ticket)
      /\ tx[p].last = Len(messages[tx[p].req.ticket])
  BY <1>1, HeldRow DEF ReadIsCurrent
<1>3. PICK r \in MessageRequests : r = tx[p].req /\ Slot(r) \in Slots /\ r.actor \in Users
  BY <1>1, <1>2, RequestKinds DEF BusyTx
<1>4. PICK last \in Nat, now \in Nat : last = tx[p].last /\ now = tx[p].now
  BY <1>2 DEF BusyTx
<1> DEFINE m == [sender |-> r.actor, visibility |-> r.visibility, position |-> last + 1,
                 created |-> now, slot |-> Slot(r)]
<1>5. messages' = [messages EXCEPT ![r.ticket] = Append(messages[r.ticket], m)]
  BY <1>3, <1>4 DEF CommitMessage, LockInv, TypeOK
<1>6. m \in MessageRow /\ m.slot = Slot(r)
  BY <1>3, <1>4 DEF MessageRow, MessageRequests
<1> HIDE DEF m
<1>7. Posted(r.ticket, Slot(r))
  BY <1>5, <1>6 DEF Posted
<1>8. records' = Claim(r, Len(messages[r.ticket]) + 1) /\ UNCHANGED lapses
  BY <1>2, <1>3 DEF CommitMessage
<1> QED
  BY <1>2, <1>3, <1>7, <1>8

\* A committing creation claims its key for the ticket it opens.
LEMMA OpeningEffect ==
  ASSUME LockInv, NEW p \in Procs, CommitCreate(p)
  PROVE  \E r \in Requests :
           /\ r = tx[p].req /\ Slot(r) \in Slots
           /\ r.ticket \in Tickets /\ Exists(r.ticket)'
           /\ records' = Claim(r, 0)
           /\ UNCHANGED <<messages, lapses>>
<1>1. tx[p].pc = "ready" /\ tx[p].req.kind = "create"
  BY DEF CommitCreate
<1>2. tx[p] \in BusyTx
  BY <1>1, BusyTxType DEF LockInv
<1>3. PICK r \in Requests : r = tx[p].req /\ Slot(r) \in Slots /\ r.ticket \in Tickets
  BY <1>1, <1>2, RequestKinds DEF BusyTx
<1>4. ticket'[r.ticket].version = 1
  BY <1>3, CreateEffect
<1>5. records' = Claim(r, 0) /\ UNCHANGED <<messages, lapses>>
  BY <1>3 DEF CommitCreate
<1> QED
  BY <1>3, <1>4, <1>5 DEF Exists

\* A thread that grows keeps its messages.
LEMMA PostedKeeps ==
  ASSUME TypeOK, NEW t \in Tickets, NEW s, Posted(t, s)
  PROVE  /\ Len(messages'[t]) = Len(messages[t]) + 1 /\ Len(messages[t]) \in Nat
         /\ messages'[t][Len(messages[t]) + 1].slot = s
         /\ \A u \in Tickets : u # t => messages'[u] = messages[u]
         /\ \A i \in 1..Len(messages[t]) : messages'[t][i] = messages[t][i]
         /\ messages'[t] \in Seq(MessageRow)
<1>1. PICK m \in MessageRow :
        m.slot = s /\ messages' = [messages EXCEPT ![t] = Append(messages[t], m)]
  BY DEF Posted
<1>2. messages \in [Tickets -> Seq(MessageRow)] /\ messages[t] \in Seq(MessageRow)
  BY DEF TypeOK
<1>3. messages'[t] = Append(messages[t], m)
  BY <1>1, <1>2
<1> QED
  BY <1>1, <1>2, <1>3

\* The key of a request about to write has no record that has not expired.
LEMMA KeyIsFree ==
  ASSUME FirstUse, NEW p \in Procs, tx[p].pc = "ready", tx[p].req.kind # "patch"
  PROVE  Live(Slot(tx[p].req)) = {}
BY DEF FirstUse, Keyed

\* A claimed key that was free has one record.
LEMMA ClaimIsOne ==
  ASSUME OneRecord, NEW r, NEW position, Live(Slot(r)) = {}, records' = Claim(r, position)
  PROVE  OneRecord'
<1> DEFINE new == [slot |-> Slot(r), content |-> Content(r), ticket |-> r.ticket,
                   message |-> position, lapsed |-> FALSE]
<1>1. new.slot = Slot(r)
  OBVIOUS
<1>2. records' = {rec \in records : rec.slot # Slot(r) \/ ~rec.lapsed} \cup {new}
  BY DEF Claim
<1> HIDE DEF new
<1>3. \A rec \in records : rec.slot = Slot(r) => rec.lapsed
  BY DEF Live
<1> QED
  BY <1>1, <1>2, <1>3 DEF OneRecord

\* An expiry turns the one record of its key into an expired one.
LEMMA LapseEffect ==
  ASSUME TypeOK, OneRecord, NEW rec \in records, Lapse(rec)
  PROVE  /\ rec.slot \in Slots
         /\ Live(rec.slot) # {} /\ Live(rec.slot)' = {}
         /\ \A s : s # rec.slot => Live(s)' = Live(s)
         /\ lapses' = [lapses EXCEPT ![rec.slot] = lapses[rec.slot] + 1]
         /\ UNCHANGED <<ticket, messages>>
         /\ OneRecord'
         /\ \A new \in records' : \E old \in records :
              new.slot = old.slot /\ new.ticket = old.ticket /\ new.message = old.message
<1> DEFINE new == [rec EXCEPT !.lapsed = TRUE]
<1>1. /\ records' = (records \ {rec}) \cup {new} /\ ~rec.lapsed
      /\ lapses' = [lapses EXCEPT ![rec.slot] = lapses[rec.slot] + 1]
      /\ UNCHANGED <<ticket, messages>>
  BY DEF Lapse, TypeOK, dbVars
<1>2. /\ new.lapsed = TRUE /\ new.slot = rec.slot /\ new.ticket = rec.ticket
      /\ new.message = rec.message /\ rec.slot \in Slots
  BY DEF TypeOK, RecordRow
<1> HIDE DEF new
<1>3. \A other \in records : other.slot = rec.slot => other = rec
  BY DEF OneRecord
<1>4. rec \in Live(rec.slot)
  BY <1>1 DEF Live
<1>5. Live(rec.slot)' = {}
  BY <1>1, <1>2, <1>3 DEF Live
<1>6. \A s : s # rec.slot => Live(s)' = Live(s)
  BY <1>1, <1>2 DEF Live
<1>7. OneRecord'
  BY <1>1, <1>2, <1>3 DEF OneRecord
<1>8. \A n \in records' : \E old \in records :
        n.slot = old.slot /\ n.ticket = old.ticket /\ n.message = old.message
  BY <1>1, <1>2
<1> QED
  BY <1>1, <1>2, <1>4, <1>5, <1>6, <1>7, <1>8

\* Every step leaves at most one record of a key.
LEMMA OneRecordInductive ==
  ASSUME KeyInv, [Next]_vars
  PROVE  OneRecord'
<1>1. ASSUME NEW p \in Procs, CommitCreate(p) PROVE OneRecord'
  <2>1. PICK r \in Requests : r = tx[p].req /\ records' = Claim(r, 0)
    BY <1>1, OpeningEffect DEF KeyInv
  <2>2. Live(Slot(r)) = {}
    BY <1>1, <2>1, KeyIsFree DEF KeyInv, CommitCreate
  <2> QED
    BY <2>1, <2>2, ClaimIsOne DEF KeyInv
<1>2. ASSUME NEW p \in Procs, CommitMessage(p) PROVE OneRecord'
  <2>1. PICK r \in MessageRequests :
          r = tx[p].req /\ records' = Claim(r, Len(messages[r.ticket]) + 1)
    BY <1>2, ReplyEffect DEF KeyInv
  <2>2. PICK position : position = Len(messages[r.ticket]) + 1
    OBVIOUS
  <2>3. Live(Slot(r)) = {}
    BY <1>2, <2>1, KeyIsFree DEF KeyInv, CommitMessage
  <2> QED
    BY <2>1, <2>2, <2>3, ClaimIsOne DEF KeyInv
<1>3. ASSUME NEW rec \in records, Lapse(rec) PROVE OneRecord'
  BY <1>3, LapseEffect DEF KeyInv, LockInv
<1>4. CASE UNCHANGED <<messages, records, lapses>>
  BY <1>4 DEF KeyInv, OneRecord
<1> QED
  BY <1>1, <1>2, <1>3, <1>4, OnlyKeyedCommitsCount

-----------------------------------------------------------------------------
(* What a record points to.                                                *)

\* A claim of position n adds a record of the ticket and of n.
LEMMA ClaimedRecords ==
  ASSUME NEW r, NEW position, records' = Claim(r, position), NEW rec \in records'
  PROVE  \/ rec \in records
         \/ rec.slot = Slot(r) /\ rec.ticket = r.ticket /\ rec.message = position
BY DEF Claim

\* Every step leaves each record with the rows it points to.
LEMMA PointsInductive ==
  ASSUME KeyInv, [Next]_vars
  PROVE  RecordsPoint'
<1> USE DEF KeyInv
<1>t. /\ TypeOK /\ LockInv
      /\ \A rec \in records : /\ rec.ticket \in Tickets /\ rec.message \in Nat
                              /\ Exists(rec.ticket)'
  BY TicketsStay DEF LockInv, TypeOK, RecordRow, RecordsPoint, Points
<1>0. \A rec \in records :
        /\ Exists(rec.ticket)
        /\ rec.message > 0 => /\ rec.message <= Len(messages[rec.ticket])
                              /\ messages[rec.ticket][rec.message].slot = rec.slot
  BY DEF RecordsPoint, Points
<1>1. ASSUME NEW p \in Procs, CommitCreate(p) PROVE RecordsPoint'
  <2>1. PICK r \in Requests : /\ Exists(r.ticket)' /\ records' = Claim(r, 0)
                              /\ UNCHANGED messages
    BY <1>1, OpeningEffect
  <2>2. ASSUME NEW rec \in records'
        PROVE  /\ ticket'[rec.ticket].version > 0
               /\ rec.message > 0 => /\ rec.message <= Len(messages'[rec.ticket])
                                     /\ messages'[rec.ticket][rec.message].slot = rec.slot
    <3>1. CASE rec \in records
      BY <1>t, <1>0, <2>1, <3>1 DEF Exists
    <3>2. CASE rec.slot = Slot(r) /\ rec.ticket = r.ticket /\ rec.message = 0
      BY <2>1, <3>2 DEF Exists
    <3> QED
      BY <2>1, <2>2, <3>1, <3>2, ClaimedRecords
  <2> QED
    BY <2>2 DEF RecordsPoint, Points, Exists
<1>2. ASSUME NEW p \in Procs, CommitMessage(p) PROVE RecordsPoint'
  <2>1. PICK r \in MessageRequests :
          /\ r.ticket \in Tickets /\ Exists(r.ticket) /\ Posted(r.ticket, Slot(r))
          /\ records' = Claim(r, Len(messages[r.ticket]) + 1)
    BY <1>2, ReplyEffect
  <2>p. PICK t \in Tickets : t = r.ticket
    BY <2>1
  <2>2. PICK position : t = r.ticket /\ position = Len(messages[t]) + 1
    BY <2>p
  <2>3. /\ Len(messages'[t]) = position /\ Len(messages[t]) \in Nat
        /\ messages'[t][position].slot = Slot(r)
        /\ \A u \in Tickets : u # t => messages'[u] = messages[u]
        /\ \A i \in 1..Len(messages[t]) : messages'[t][i] = messages[t][i]
    BY <1>t, <2>1, <2>2, PostedKeeps
  <2>4. ticket'[t].version > 0
    BY <1>t, <2>1, <2>2, TicketsStay DEF Exists
  <2>5. records' = Claim(r, position)
    BY <2>1, <2>2
  <2>6. ASSUME NEW rec \in records'
        PROVE  /\ ticket'[rec.ticket].version > 0
               /\ rec.message > 0 => /\ rec.message <= Len(messages'[rec.ticket])
                                     /\ messages'[rec.ticket][rec.message].slot = rec.slot
    <3>1. CASE rec \in records
      <4>1. rec.ticket \in Tickets /\ rec.message \in Nat /\ ticket'[rec.ticket].version > 0
        BY <1>t, <3>1 DEF Exists
      <4>2. rec.message > 0 => /\ rec.message <= Len(messages[rec.ticket])
                               /\ messages[rec.ticket][rec.message].slot = rec.slot
        BY <1>0, <3>1
      <4>3. CASE rec.ticket = t
        BY <2>2, <2>3, <4>1, <4>2, <4>3
      <4>4. CASE rec.ticket # t
        BY <2>3, <4>1, <4>2, <4>4
      <4> QED
        BY <4>3, <4>4
    <3>2. CASE rec.slot = Slot(r) /\ rec.ticket = t /\ rec.message = position
      BY <2>2, <2>3, <2>4, <3>2
    <3> QED
      BY <2>2, <2>5, <2>6, <3>1, <3>2, ClaimedRecords
  <2> QED
    BY <2>6 DEF RecordsPoint, Points, Exists
<1>3. ASSUME NEW rec \in records, Lapse(rec) PROVE RecordsPoint'
  <2>1. /\ UNCHANGED <<ticket, messages>>
        /\ \A new \in records' : \E old \in records :
             new.slot = old.slot /\ new.ticket = old.ticket /\ new.message = old.message
    BY <1>t, <1>3, LapseEffect
  <2> QED
    BY <1>0, <2>1 DEF RecordsPoint, Points, Exists
<1>4. CASE UNCHANGED <<messages, records, lapses>>
  BY <1>t, <1>0, <1>4 DEF RecordsPoint, Points
<1> QED
  BY <1>1, <1>2, <1>3, <1>4, OnlyKeyedCommitsCount

-----------------------------------------------------------------------------
(* How often a key writes.                                                 *)

\* A reply adds one message to the uses of its key, and to no other.
LEMMA UsesGrow ==
  ASSUME TypeOK, NEW t \in Tickets, NEW k, Posted(t, k)
  PROVE  /\ Uses(t, k)' = Uses(t, k) \cup {Len(messages[t]) + 1}
         /\ \A u \in Tickets : \A s : u # t \/ s # k => Uses(u, s)' = Uses(u, s)
<1>1. PICK n : n = Len(messages[t]) + 1
  OBVIOUS
<1>2. /\ Len(messages'[t]) = n /\ Len(messages[t]) \in Nat
      /\ messages'[t][n].slot = k
      /\ \A u \in Tickets : u # t => messages'[u] = messages[u]
      /\ \A i \in 1..Len(messages[t]) : messages'[t][i] = messages[t][i]
      /\ messages'[t] \in Seq(MessageRow)
  BY <1>1, PostedKeeps
<1>3. messages[t] \in Seq(MessageRow)
  BY DEF TypeOK
<1>4. /\ DOMAIN messages[t] = 1..Len(messages[t])
      /\ DOMAIN messages'[t] = DOMAIN messages[t] \cup {n}
  BY <1>1, <1>2, <1>3
<1>5. \A s : Uses(t, s)' = Uses(t, s) \cup (IF s = k THEN {n} ELSE {})
  BY <1>1, <1>2, <1>4 DEF Uses
<1>6. \A u \in Tickets : \A s : u # t => Uses(u, s)' = Uses(u, s)
  BY <1>2 DEF Uses
<1> QED
  BY <1>1, <1>5, <1>6

\* No step writes a second message in the lifetime of a record.
LEMMA CountsInductive ==
  ASSUME KeyInv, [Next]_vars
  PROVE  UsesAreCounted'
<1> DEFINE Held(s) == IF Live(s) = {} THEN 0 ELSE 1
<1>t. /\ TypeOK /\ LockInv /\ FirstUse /\ OneRecord
      /\ \A s \in Slots : lapses[s] \in Nat
  BY DEF KeyInv, LockInv, TypeOK
<1>0. \A t \in Tickets, s \in Slots :
        /\ IsFiniteSet(Uses(t, s))
        /\ Cardinality(Uses(t, s)) \in Nat
        /\ Cardinality(Uses(t, s)) <= lapses[s] + Held(s)
  BY FS_CardinalityType DEF KeyInv, UsesAreCounted
<1>1. ASSUME NEW p \in Procs, CommitCreate(p) PROVE UsesAreCounted'
  <2>1. PICK r \in Requests : r = tx[p].req /\ records' = Claim(r, 0)
                              /\ UNCHANGED <<messages, lapses>>
    BY <1>t, <1>1, OpeningEffect
  <2>2. Live(Slot(r))' # {} /\ \A s : s # Slot(r) => Live(s)' = Live(s)
    BY <2>1, ClaimLives
  <2>3. \A s \in Slots : Live(s) # {} => Live(s)' # {}
    BY <2>2
  <2>4. \A t \in Tickets, s \in Slots : Uses(t, s)' = Uses(t, s)
    BY <2>1 DEF Uses
  <2>5. ASSUME NEW t \in Tickets, NEW s \in Slots
        PROVE  /\ IsFiniteSet(Uses(t, s))
               /\ Cardinality(Uses(t, s)) <= lapses[s] + (IF Live(s)' = {} THEN 0 ELSE 1)
    BY <1>t, <1>0, <2>3
  <2> QED
    BY <2>1, <2>4, <2>5 DEF UsesAreCounted
<1>2. ASSUME NEW p \in Procs, CommitMessage(p) PROVE UsesAreCounted'
  <2>1. PICK r \in MessageRequests :
          /\ r = tx[p].req /\ r.ticket \in Tickets /\ Slot(r) \in Slots
          /\ Posted(r.ticket, Slot(r))
          /\ records' = Claim(r, Len(messages[r.ticket]) + 1)
          /\ UNCHANGED lapses
    BY <1>t, <1>2, ReplyEffect
  <2>p. PICK t \in Tickets, k \in Slots : t = r.ticket /\ k = Slot(r)
    BY <2>1
  <2>2. PICK n : t = r.ticket /\ k = Slot(r) /\ n = Len(messages[t]) + 1
    BY <2>p
  <2>3. Live(k) = {}
    BY <1>t, <1>2, <2>1, <2>2, KeyIsFree DEF CommitMessage
  <2>4. Live(k)' # {} /\ \A s : s # k => Live(s)' = Live(s)
    BY <2>1, <2>2, ClaimLives
  <2>5. /\ Uses(t, k)' = Uses(t, k) \cup {n}
        /\ \A u \in Tickets : \A s : u # t \/ s # k => Uses(u, s)' = Uses(u, s)
    BY <1>t, <2>1, <2>2, UsesGrow
  <2>6. /\ IsFiniteSet(Uses(t, k) \cup {n})
        /\ Cardinality(Uses(t, k) \cup {n}) <= Cardinality(Uses(t, k)) + 1
    <3>1. IsFiniteSet(Uses(t, k)) /\ Cardinality(Uses(t, k)) \in Nat
      BY <1>0
    <3>2. /\ IsFiniteSet(Uses(t, k) \cup {n})
          /\ Cardinality(Uses(t, k) \cup {n}) =
               IF n \in Uses(t, k) THEN Cardinality(Uses(t, k)) ELSE Cardinality(Uses(t, k)) + 1
      BY <3>1, FS_AddElement
    <3> QED
      BY <3>1, <3>2
  <2>7. ASSUME NEW u \in Tickets, NEW s \in Slots
        PROVE  /\ IsFiniteSet(Uses(u, s)')
               /\ Cardinality(Uses(u, s)') <= lapses[s] + (IF Live(s)' = {} THEN 0 ELSE 1)
    <3>1. CASE u = t /\ s = k
      <4>1. Cardinality(Uses(t, k)) <= lapses[k]
        BY <1>t, <1>0, <2>3
      <4>2. Cardinality(Uses(t, k) \cup {n}) \in Nat
        BY <2>6, FS_CardinalityType
      <4>3. Cardinality(Uses(t, k) \cup {n}) <= lapses[k] + 1
        BY <1>t, <1>0, <2>6, <4>1, <4>2
      <4> QED
        BY <2>4, <2>5, <2>6, <3>1, <4>3
    <3>2. CASE u # t \/ s # k
      <4>1. Uses(u, s)' = Uses(u, s)
        BY <2>5, <3>2
      <4>2. Live(s) # {} => Live(s)' # {}
        BY <2>4
      <4> QED
        BY <1>t, <1>0, <4>1, <4>2
    <3> QED
      BY <3>1, <3>2
  <2> QED
    BY <2>1, <2>7 DEF UsesAreCounted
<1>3. ASSUME NEW rec \in records, Lapse(rec) PROVE UsesAreCounted'
  <2>1. /\ rec.slot \in Slots
        /\ Live(rec.slot) # {} /\ Live(rec.slot)' = {}
        /\ \A s : s # rec.slot => Live(s)' = Live(s)
        /\ lapses' = [lapses EXCEPT ![rec.slot] = lapses[rec.slot] + 1]
        /\ UNCHANGED messages
    BY <1>t, <1>3, LapseEffect
  <2>2. \A t \in Tickets, s \in Slots : Uses(t, s)' = Uses(t, s)
    BY <2>1 DEF Uses
  <2>3. \A s \in Slots : lapses'[s] = IF s = rec.slot THEN lapses[s] + 1 ELSE lapses[s]
    BY <1>t, <2>1 DEF TypeOK
  <2>4. ASSUME NEW t \in Tickets, NEW s \in Slots
        PROVE  /\ IsFiniteSet(Uses(t, s))
               /\ Cardinality(Uses(t, s)) <= lapses'[s] + (IF Live(s)' = {} THEN 0 ELSE 1)
    <3>1. CASE s = rec.slot
      BY <1>t, <1>0, <2>1, <2>3, <3>1
    <3>2. CASE s # rec.slot
      BY <1>t, <1>0, <2>1, <2>3, <3>2
    <3> QED
      BY <3>1, <3>2
  <2> QED
    BY <2>2, <2>4 DEF UsesAreCounted
<1>4. CASE UNCHANGED <<messages, records, lapses>>
  BY <1>4 DEF KeyInv, UsesAreCounted, Uses, Live
<1> QED
  BY <1>1, <1>2, <1>3, <1>4, OnlyKeyedCommitsCount

-----------------------------------------------------------------------------
\* The empty database satisfies the invariant.
LEMMA InitKeys == Init => KeyInv
<1> SUFFICES ASSUME Init PROVE KeyInv
  OBVIOUS
<1>1. \A p \in Procs : tx[p].pc = "idle"
  BY DEF Init, IdleTx
<1>2. LockInv
  BY <1>1, InitType DEF LockInv, ReadsStayCurrent, CreationsAreFresh, Creating, Busy
<1>3. KeysAreHeld /\ FirstUse
  BY <1>1 DEF KeysAreHeld, FirstUse, Keyed
<1>4. records = {} /\ \A s \in Slots : lapses[s] = 0
  BY DEF Init
<1>5. \A t \in Tickets, s \in Slots : Uses(t, s) = {}
  BY DEF Init, Uses
<1>6. \A s \in Slots : Live(s) = {}
  BY <1>4 DEF Live
<1>7. UsesAreCounted
  BY <1>4, <1>5, <1>6, FS_EmptySet DEF UsesAreCounted
<1> QED
  BY <1>2, <1>3, <1>4, <1>7 DEF KeyInv, OneRecord, RecordsPoint

\* The advisory lock and the check behind it make a key take effect once per
\* lifetime of its record, for any overlap of retries, crashes and expiries.
THEOREM KeysTakeEffectOnce == Spec => []OneEffectPerKey
<1>1. KeyInv /\ [Next]_vars => KeyInv'
  <2> SUFFICES ASSUME KeyInv, [Next]_vars PROVE KeyInv'
    OBVIOUS
  <2>1. LockInv'
    BY NextType, ReadsInductive, CreationsInductive DEF KeyInv, LockInv
  <2> QED
    BY <2>1, LocksInductive, OneRecordInductive, PointsInductive, CountsInductive DEF KeyInv
<1>2. KeyInv => OneEffectPerKey
  <2> SUFFICES ASSUME KeyInv PROVE OneEffectPerKey
    OBVIOUS
  <2>1. ASSUME NEW t \in Tickets, NEW s \in Slots
        PROVE  Cardinality(Uses(t, s)) <= 1 + lapses[s]
    <3>1. /\ Cardinality(Uses(t, s)) \in Nat /\ lapses[s] \in Nat
          /\ Cardinality(Uses(t, s)) <= lapses[s] + (IF Live(s) = {} THEN 0 ELSE 1)
      BY FS_CardinalityType DEF KeyInv, UsesAreCounted, LockInv, TypeOK
    <3>2. CASE Live(s) = {}
      BY <3>1, <3>2
    <3>3. CASE Live(s) # {}
      BY <3>1, <3>3
    <3> QED
      BY <3>2, <3>3
  <2> QED
    BY <2>1 DEF KeyInv, OneEffectPerKey, OneRecord, RecordsPoint, Points, Uses
<1> QED
  BY <1>1, <1>2, InitKeys, PTL DEF Spec

-----------------------------------------------------------------------------
(* What a commit writes, in terms of the rows that are there.              *)

OpensAs(t, r, now, at) ==
  /\ ticket' = [ticket EXCEPT ![t] =
       [NoTicket EXCEPT !.status = "OPEN", !.priority = r.priority, !.customer = r.customer,
                        !.version = 1, !.updated = now, !.publicUpdated = now]]
  /\ cycles' = [cycles EXCEPT ![t] = Append(cycles[t], NewCycle(0))]
  /\ events' = [events EXCEPT ![t] =
       Append(events[t], Event("status", Null, "OPEN", "PUBLIC", at))]
  /\ outbox' = [outbox EXCEPT ![t] = Append(outbox[t], "PUBLIC")]
  /\ UNCHANGED <<messages, deliveries, clock>>

\* A creation writes a row that was not there.
LEMMA CreateWrites ==
  ASSUME LockInv, NEW p \in Procs, CommitCreate(p)
  PROVE  \E t \in Tickets, r \in CreateRequests, now \in Nat, at \in Nat :
           /\ now = tx[p].now /\ tx[p].pc = "ready" /\ t = tx[p].req.ticket
           /\ ~Exists(t)
           /\ OpensAs(t, r, now, at)
<1>1. tx[p].pc = "ready" /\ tx[p].req.kind = "create"
  BY DEF CommitCreate
<1>2. tx[p] \in BusyTx
  BY <1>1, BusyTxType DEF LockInv
<1>3. PICK r \in CreateRequests : r = tx[p].req /\ r.ticket \in Tickets
  BY <1>1, <1>2, RequestKinds DEF BusyTx
<1>4. ~Exists(r.ticket)
  BY <1>1, <1>3 DEF LockInv, CreationsAreFresh, Creating, Busy
<1>5. PICK now \in Nat, at \in Nat : now = tx[p].now /\ at = tx[p].began
  BY <1>2 DEF BusyTx
<1>6. OpensAs(r.ticket, r, now, at)
  BY <1>3, <1>5 DEF OpensAs, CommitCreate, LockInv, TypeOK
<1> QED
  BY <1>1, <1>3, <1>4, <1>5, <1>6

PatchesTo(t, old, new, now, at) ==
  /\ ticket' = [ticket EXCEPT ![t] = new]
  /\ cycles' = [cycles EXCEPT ![t] =
       ApplyStatusChange(cycles[t], old.status, new.status, OrNow(old.firstResponse, now))]
  /\ events' = [events EXCEPT ![t] = events[t] \o ChangeEvents(old, new, at)]
  /\ outbox' = [outbox EXCEPT ![t] =
       Append(outbox[t], IF PublicChange(old, new) THEN "PUBLIC" ELSE "INTERNAL")]
  /\ UNCHANGED <<messages, deliveries, clock>>

\* A PATCH overwrites the row that is there, along the policy.
LEMMA PatchWrites ==
  ASSUME LockInv, NEW p \in Procs, CommitPatch(p)
  PROVE  \E t \in Tickets, r \in PatchRequests, old \in TicketRow, now \in Nat, at \in Nat :
           /\ now = tx[p].now /\ tx[p].pc = "ready" /\ tx[p].req.kind # "create"
           /\ t = tx[p].req.ticket
           /\ old = ticket[t] /\ old.version > 0
           /\ ValidTransition(old.status, Wanted(old, r).status, r.reason)
           /\ Wanted(old, r).assignee \in Staff \cup {Nobody}
           /\ PatchesTo(t, old, Patched(old, r, now), now, at)
<1>1. tx[p].pc = "ready" /\ tx[p].req.kind = "patch"
  BY DEF CommitPatch
<1>2. /\ tx[p] \in BusyTx /\ tx[p].req.ticket \in Tickets
      /\ ReadIsCurrent(p) /\ Exists(tx[p].req.ticket)
  BY <1>1, HeldRow
<1>3. PICK r \in PatchRequests : r = tx[p].req
  BY <1>1, <1>2, RequestKinds DEF BusyTx
<1>4. PICK old \in TicketRow, now \in Nat, at \in Nat :
        old = tx[p].row /\ now = tx[p].now /\ at = tx[p].began
  BY <1>2 DEF BusyTx
<1>5. old = ticket[r.ticket] /\ old.version > 0
  BY <1>2, <1>3, <1>4 DEF ReadIsCurrent, Exists
<1>6. /\ ValidTransition(old.status, Wanted(old, r).status, r.reason)
      /\ Wanted(old, r).assignee \in Staff \cup {Nobody}
  BY <1>1, <1>2, <1>3, <1>5 DEF ReadIsCurrent, Proceeds, PatchRefused
<1>7. PatchesTo(r.ticket, old, Patched(old, r, now), now, at)
  BY <1>3, <1>4 DEF PatchesTo, CommitPatch, LockInv, TypeOK
<1> QED
  BY <1>1, <1>2, <1>3, <1>4, <1>5, <1>6, <1>7

RepliesTo(t, old, new, r, m, now, at) ==
  /\ ticket' = [ticket EXCEPT ![t] = new]
  /\ messages' = [messages EXCEPT ![t] = Append(messages[t], m)]
  /\ cycles' = [cycles EXCEPT ![t] = RepliedCycles(cycles[t], old, r, now)]
  /\ events' = [events EXCEPT ![t] =
       Append(events[t] \o ChangeEvents(old, new, at),
              Event("message", Null, Null, r.visibility, at))]
  /\ outbox' = [outbox EXCEPT ![t] = Append(outbox[t], r.visibility)]
  /\ deliveries' = [deliveries EXCEPT ![t] =
       deliveries[t] \cup NewDeliveries(old, r, Len(messages[t]) + 1)]
  /\ UNCHANGED clock

\* A reply joins the thread and overwrites the row that is there.
LEMMA MessageWrites ==
  ASSUME LockInv, NEW p \in Procs, CommitMessage(p)
  PROVE  \E t \in Tickets, r \in MessageRequests, old \in TicketRow, now \in Nat, at \in Nat :
         \E m \in MessageRow :
           /\ now = tx[p].now /\ tx[p].pc = "ready" /\ tx[p].req.kind # "create"
           /\ t = tx[p].req.ticket
           /\ old = ticket[t] /\ old.version > 0
           /\ m.sender = r.actor /\ m.visibility = r.visibility
           /\ ~FromStaff(r) => old.customer = r.actor /\ r.visibility = "PUBLIC"
           /\ r.visibility = "PUBLIC" => old.status # "CLOSED"
           /\ RepliesTo(t, old, Replied(old, r, now), r, m, now, at)
<1>1. tx[p].pc = "ready" /\ tx[p].req.kind = "message"
  BY DEF CommitMessage
<1>2. /\ tx[p] \in BusyTx /\ tx[p].req.ticket \in Tickets
      /\ ReadIsCurrent(p) /\ Exists(tx[p].req.ticket)
      /\ tx[p].last = Len(messages[tx[p].req.ticket])
  BY <1>1, HeldRow DEF ReadIsCurrent
<1>3. PICK r \in MessageRequests : r = tx[p].req /\ Slot(r) \in Slots /\ r.actor \in Users
  BY <1>1, <1>2, RequestKinds DEF BusyTx
<1>4. PICK old \in TicketRow, now \in Nat, at \in Nat, last \in Nat :
        old = tx[p].row /\ now = tx[p].now /\ at = tx[p].began /\ last = tx[p].last
  BY <1>2 DEF BusyTx
<1>5. old = ticket[r.ticket] /\ old.version > 0 /\ last = Len(messages[r.ticket])
  BY <1>2, <1>3, <1>4 DEF ReadIsCurrent, Exists
<1>6. /\ ~FromStaff(r) => old.customer = r.actor /\ r.visibility = "PUBLIC"
      /\ r.visibility = "PUBLIC" => old.status # "CLOSED"
  BY <1>1, <1>2, <1>3, <1>5
     DEF ReadIsCurrent, Proceeds, MessageForbidden, MessageRefused
<1> DEFINE m == [sender |-> r.actor, visibility |-> r.visibility, position |-> last + 1,
                 created |-> now, slot |-> Slot(r)]
<1>7. m \in MessageRow /\ m.sender = r.actor /\ m.visibility = r.visibility
  BY <1>3, <1>4 DEF MessageRow, MessageRequests
<1>8. RepliesTo(r.ticket, old, Replied(old, r, now), r, m, now, at)
  BY <1>3, <1>4, <1>5 DEF RepliesTo, CommitMessage, LockInv, TypeOK
<1> HIDE DEF m
<1> QED
  BY <1>1, <1>2, <1>3, <1>4, <1>5, <1>6, <1>7, <1>8

\* Nothing but a commit touches a ticket or its history.
LEMMA HistoryStays ==
  ASSUME [Next]_vars, ~\E p \in Procs : CommitCreate(p) \/ CommitPatch(p) \/ CommitMessage(p)
  PROVE  UNCHANGED <<ticket, messages, events, outbox, cycles, deliveries>>
<1>1. CASE UNCHANGED vars
  BY <1>1 DEF vars, dbVars
<1>2. ASSUME NEW p \in Procs, Begin(p) \/ BeginIdempotency(p) \/ LockTicket(p)
      PROVE  UNCHANGED dbVars
  BY <1>2 DEF Begin, BeginIdempotency, LockTicket
<1>3. ASSUME NEW p \in Procs, AnswerFromKey(p) \/ AnswerFromRow(p) \/ Rollback(p)
      PROVE  UNCHANGED dbVars
  BY <1>3 DEF AnswerFromKey, AnswerFromRow, Rollback
<1>4. ASSUME NEW f \in Files, Upload(f)
      PROVE  UNCHANGED <<ticket, messages, events, outbox, cycles, deliveries>>
  BY <1>4 DEF Upload
<1>5. ASSUME NEW rec \in records, Lapse(rec)
      PROVE  UNCHANGED dbVars
  BY <1>5 DEF Lapse
<1> QED
  BY <1>1, <1>2, <1>3, <1>4, <1>5 DEF Next, Step, dbVars

-----------------------------------------------------------------------------
(* Time.                                                                   *)

\* A transaction that is about to write has read the clock behind everything that its
\* ticket says.
StampsAreLate ==
  /\ \A p \in Procs : Busy(p) => clock > 0
  /\ \A p \in Procs : tx[p].pc = "ready" =>
       /\ 0 < tx[p].now /\ tx[p].now <= clock
       /\ tx[p].req.kind # "create" => ticket[tx[p].req.ticket].updated <= tx[p].now
  /\ \A t \in Tickets :
       /\ ticket[t].updated <= clock
       /\ ticket[t].resolvedAt <= ticket[t].updated
       /\ ticket[t].closedAt <= ticket[t].updated

\* What a PATCH leaves in the bookkeeping columns.
LEMMA PatchedColumns ==
  ASSUME NEW row \in TicketRow, NEW r \in PatchRequests, NEW now \in Nat
  PROVE  LET new == Patched(row, r, now)
         IN  /\ new.status = Wanted(row, r).status
             /\ new.priority = Wanted(row, r).priority
             /\ new.assignee = Wanted(row, r).assignee
             /\ new.customer = row.customer
             /\ new.firstResponse = row.firstResponse
             /\ new.updated = now
             /\ new.publicUpdated = IF PublicChange(row, new) THEN now ELSE row.publicUpdated
             /\ new.resolvedAt = Stamped(Wanted(row, r), row.status, now).resolvedAt
             /\ new.closedAt = Stamped(Wanted(row, r), row.status, now).closedAt
             /\ Wanted(row, r).resolvedAt = row.resolvedAt
             /\ Wanted(row, r).closedAt = row.closedAt
<1> DEFINE w == Wanted(row, r)
           st == Stamped(w, row.status, now)
<1>1. /\ w \in TicketRow
      /\ w.customer = row.customer /\ w.firstResponse = row.firstResponse
      /\ w.publicUpdated = row.publicUpdated /\ w.version = row.version
      /\ w.resolvedAt = row.resolvedAt /\ w.closedAt = row.closedAt
  <2>1. /\ OrKeep(r.status, row.status) \in Statuses \cup {Null}
        /\ OrKeep(r.priority, row.priority) \in Priorities \cup {Null}
        /\ OrKeep(r.assignee, row.assignee) \in Assignees
    BY DEF OrKeep, PatchRequests, TicketRow
  <2>2. w = [row EXCEPT !.status = OrKeep(r.status, row.status),
                        !.priority = OrKeep(r.priority, row.priority),
                        !.assignee = OrKeep(r.assignee, row.assignee)]
    BY DEF Wanted, TicketRow
  <2> QED
    BY <2>1, <2>2 DEF TicketRow
<1> HIDE DEF w
<1>2. /\ st \in TicketRow
      /\ st.status = w.status /\ st.priority = w.priority /\ st.assignee = w.assignee
      /\ st.customer = w.customer /\ st.firstResponse = w.firstResponse
      /\ st.publicUpdated = w.publicUpdated /\ st.version = w.version
  <2>1. CASE w.status = row.status
    BY <1>1, <2>1 DEF Stamped
  <2>2. CASE w.status # row.status /\ w.status = "RESOLVED"
    BY <1>1, <2>2 DEF Stamped, TicketRow, Completed
  <2>3. CASE w.status # row.status /\ w.status = "CLOSED"
    BY <1>1, <2>3 DEF Stamped, TicketRow, Completed
  <2>4. CASE w.status # row.status /\ w.status \notin Completed
    BY <1>1, <2>4 DEF Stamped, TicketRow, Completed
  <2> QED
    BY <2>1, <2>2, <2>3, <2>4 DEF Completed
<1> HIDE DEF st
<1>3. Patched(row, r, now) =
        [st EXCEPT !.version = st.version + 1, !.updated = now,
                   !.publicUpdated = IF PublicChange(row, st) THEN now ELSE st.publicUpdated]
  BY <1>2 DEF Patched, st, w, TicketRow
<1> DEFINE pub == IF PublicChange(row, st) THEN now ELSE st.publicUpdated
           new == Patched(row, r, now)
<1>4. pub \in Nat
  BY <1>2 DEF TicketRow
<1>5. /\ new.status = st.status /\ new.priority = st.priority /\ new.assignee = st.assignee
      /\ new.customer = st.customer /\ new.firstResponse = st.firstResponse
      /\ new.updated = now /\ new.publicUpdated = pub
      /\ new.resolvedAt = st.resolvedAt /\ new.closedAt = st.closedAt
  BY <1>2, <1>3 DEF TicketRow
<1>6. PublicChange(row, st) <=> PublicChange(row, new)
  BY <1>5 DEF PublicChange
<1> QED
  BY <1>1, <1>2, <1>5, <1>6 DEF w, st

\* What a reply leaves in them.
LEMMA RepliedColumns ==
  ASSUME NEW row \in TicketRow, NEW r \in MessageRequests, NEW now \in Nat
  PROVE  LET new == Replied(row, r, now)
             reopen == ReopensOnReply(row, r)
             public == r.visibility = "PUBLIC"
         IN  /\ new.status = IF reopen THEN "IN_PROGRESS" ELSE row.status
             /\ new.priority = row.priority /\ new.assignee = row.assignee
             /\ new.customer = row.customer
             /\ new.firstResponse = IF public /\ FromStaff(r) /\ row.firstResponse = 0
                                    THEN now ELSE row.firstResponse
             /\ new.updated = now
             /\ new.publicUpdated = IF public THEN now ELSE row.publicUpdated
             /\ new.resolvedAt = IF reopen THEN 0 ELSE row.resolvedAt
             /\ new.closedAt = IF reopen THEN 0 ELSE row.closedAt
BY DEF Replied, TicketRow

\* A creation.
LEMMA OpenedColumns ==
  ASSUME NEW r \in CreateRequests, NEW now \in Nat
  PROVE  LET new == [NoTicket EXCEPT !.status = "OPEN", !.priority = r.priority,
                                     !.customer = r.customer, !.version = 1,
                                     !.updated = now, !.publicUpdated = now]
         IN  /\ new.status = "OPEN" /\ new.priority = r.priority /\ new.assignee = Nobody
             /\ new.customer = r.customer /\ new.firstResponse = 0 /\ new.version = 1
             /\ new.updated = now /\ new.publicUpdated = now
             /\ new.resolvedAt = 0 /\ new.closedAt = 0
BY DEF NoTicket


\* A commit stamps its ticket with the time that its transaction has read; the others that
\* are about to write have other tickets.
LEMMA CommitStamps ==
  ASSUME LockInv, StampsAreLate, NEW p \in Procs, tx[p].pc = "ready", End(p),
         NEW t \in Tickets, t = tx[p].req.ticket, NEW row,
         row.updated = tx[p].now, row.resolvedAt <= row.updated, row.closedAt <= row.updated,
         ticket' = [ticket EXCEPT ![t] = row], clock' = clock
  PROVE  StampsAreLate'
<1>1. \A q \in Procs : Busy(q)' => clock' > 0
  BY EndFrame DEF StampsAreLate, Busy, LockInv
<1>2. ASSUME NEW q \in Procs, tx'[q].pc = "ready"
      PROVE  /\ 0 < tx'[q].now /\ tx'[q].now <= clock'
             /\ tx'[q].req.kind # "create" => ticket'[tx'[q].req.ticket].updated <= tx'[q].now
  <2>1. q # p /\ tx'[q] = tx[q]
    BY <1>2, EndFrame DEF LockInv
  <2>2. tx[q].req.kind # "create" => ticket'[tx[q].req.ticket] = ticket[tx[q].req.ticket]
    <3> HAVE tx[q].req.kind # "create"
    <3>1. tx[q].req.ticket # t /\ tx[q].req.ticket \in Tickets
      BY <1>2, <2>1, WritersApart, HeldRow
    <3> QED
      BY <3>1 DEF LockInv, TypeOK
  <2> QED
    BY <1>2, <2>1, <2>2 DEF StampsAreLate
<1>3. ASSUME NEW u \in Tickets
      PROVE  /\ ticket'[u].updated <= clock'
             /\ ticket'[u].resolvedAt <= ticket'[u].updated
             /\ ticket'[u].closedAt <= ticket'[u].updated
  <2>1. CASE u = t
    BY <2>1 DEF StampsAreLate, LockInv, TypeOK
  <2>2. CASE u # t
    BY <2>2 DEF StampsAreLate, LockInv, TypeOK
  <2> QED
    BY <2>1, <2>2
<1> QED
  BY <1>1, <1>2, <1>3 DEF StampsAreLate

\* resolved_at and closed_at after a PATCH are old ones, or the time of it.
LEMMA StampedLate ==
  ASSUME NEW row \in TicketRow, NEW r \in PatchRequests, NEW now \in Nat,
         row.resolvedAt <= now, row.closedAt <= now
  PROVE  /\ Patched(row, r, now).resolvedAt <= now
         /\ Patched(row, r, now).closedAt <= now
<1> DEFINE w == Wanted(row, r)
<1>1. w \in TicketRow /\ w.resolvedAt = row.resolvedAt /\ w.closedAt = row.closedAt
  <2>1. /\ OrKeep(r.status, row.status) \in Statuses \cup {Null}
        /\ OrKeep(r.priority, row.priority) \in Priorities \cup {Null}
        /\ OrKeep(r.assignee, row.assignee) \in Assignees
    BY DEF OrKeep, PatchRequests, TicketRow
  <2> QED
    BY <2>1 DEF Wanted, TicketRow
<1> HIDE DEF w
<1>2. /\ Stamped(w, row.status, now).resolvedAt <= now
      /\ Stamped(w, row.status, now).closedAt <= now
  <2>1. CASE w.status = row.status
    BY <1>1, <2>1 DEF Stamped
  <2>2. CASE w.status # row.status /\ w.status = "RESOLVED"
    <3>1. Stamped(w, row.status, now) = [w EXCEPT !.resolvedAt = now, !.closedAt = 0]
      BY <2>2 DEF Stamped, Completed
    <3>2. /\ [w EXCEPT !.resolvedAt = now, !.closedAt = 0].resolvedAt = now
          /\ [w EXCEPT !.resolvedAt = now, !.closedAt = 0].closedAt = 0
      BY <1>1 DEF TicketRow
    <3> QED
      BY <3>1, <3>2
  <2>3. CASE w.status # row.status /\ w.status = "CLOSED"
    BY <1>1, <2>3 DEF Stamped, TicketRow, Completed
  <2>4. CASE w.status # row.status /\ w.status \notin Completed
    BY <1>1, <2>4 DEF Stamped, TicketRow, Completed
  <2> QED
    BY <2>1, <2>2, <2>3, <2>4 DEF Completed
<1> QED
  BY <1>2, PatchedColumns DEF w

\* Every step keeps the stamps late.
LEMMA StampsInductive == LockInv /\ StampsAreLate /\ [Next]_vars => StampsAreLate'
<1> SUFFICES ASSUME LockInv, StampsAreLate, [Next]_vars PROVE StampsAreLate'
  OBVIOUS
<1> USE DEF StampsAreLate
<1>0. /\ clock \in Nat /\ \A t \in Tickets : ticket[t] \in TicketRow
      /\ \A t \in Tickets : ticket[t].updated \in Nat
  BY DEF LockInv, TypeOK, TicketRow
<1>1. CASE UNCHANGED vars
  <2>1. ticket' = ticket /\ tx' = tx /\ clock' = clock
    BY <1>1 DEF vars, dbVars
  <2> QED
    BY <2>1 DEF Busy
<1>2. ASSUME NEW p \in Procs, Begin(p) PROVE StampsAreLate'
  <2>1. clock' = clock + 1 /\ ticket' = ticket /\ tx'[p].pc # "ready"
        /\ \A q \in Procs : q # p => tx'[q] = tx[q]
    BY <1>2 DEF Begin, dbVars, LockInv, TypeOK
  <2>2. \A q \in Procs : tx'[q].pc = "ready" => tx'[q] = tx[q] /\ tx[q].pc = "ready"
    BY <2>1
  <2>3. \A q \in Procs : tx[q].pc = "ready" => tx[q].now \in Nat
    BY BusyTxType DEF LockInv, BusyTx
  <2> QED
    BY <1>0, <2>1, <2>2, <2>3
<1>3. ASSUME NEW p \in Procs, BeginIdempotency(p) PROVE StampsAreLate'
  <2>1. /\ clock' = clock /\ ticket' = ticket /\ Busy(p)
        /\ tx'[p].req = tx[p].req /\ tx'[p].now = clock
        /\ tx'[p].pc = "ready" => tx[p].req.kind = "create"
        /\ \A q \in Procs : q # p => tx'[q] = tx[q]
    <3>1. tx[p] \in BusyTx /\ tx[p].pc = "keying"
      BY <1>3, BusyTxType DEF BeginIdempotency, LockInv
    <3> QED
      BY <1>3, <3>1 DEF BeginIdempotency, dbVars, LockInv, TypeOK, Busy, BusyTx
  <2>2. clock > 0
    BY <2>1
  <2> QED
    BY <1>0, <2>1, <2>2 DEF Busy
<1>4. ASSUME NEW p \in Procs, LockTicket(p) PROVE StampsAreLate'
  <2>1. /\ clock' = clock /\ ticket' = ticket /\ Busy(p)
        /\ tx'[p].req = tx[p].req /\ tx'[p].now = clock
        /\ tx[p].req.ticket \in Tickets
        /\ \A q \in Procs : q # p => tx'[q] = tx[q]
    <3>1. tx[p] \in BusyTx /\ tx[p].pc = "locking" /\ tx[p].req.ticket \in Tickets
      BY <1>4, BusyTxType, RequestKinds DEF LockTicket, LockInv, BusyTx
    <3> QED
      BY <1>4, <3>1 DEF LockTicket, dbVars, LockInv, TypeOK, Busy, BusyTx
  <2>2. clock > 0
    BY <2>1
  <2> QED
    BY <1>0, <2>1, <2>2 DEF Busy
<1>5. ASSUME NEW p \in Procs, AnswerFromKey(p) \/ AnswerFromRow(p) \/ Rollback(p)
      PROVE  StampsAreLate'
  <2>1. End(p) /\ ticket' = ticket /\ clock' = clock
    BY <1>5 DEF AnswerFromKey, AnswerFromRow, Rollback, dbVars
  <2>2. tx'[p].pc = "idle" /\ \A q \in Procs : q # p => tx'[q] = tx[q]
    BY <2>1, EndFrame DEF LockInv
  <2> QED
    BY <2>1, <2>2 DEF Busy
<1>6. ASSUME NEW f \in Files, Upload(f) PROVE StampsAreLate'
  <2>1. ticket' = ticket /\ tx' = tx /\ clock' = clock
    BY <1>6 DEF Upload
  <2> QED
    BY <2>1 DEF Busy
<1>7. ASSUME NEW rec \in records, Lapse(rec) PROVE StampsAreLate'
  <2>1. ticket' = ticket /\ tx' = tx /\ clock' = clock
    BY <1>7 DEF Lapse, dbVars
  <2> QED
    BY <2>1 DEF Busy
<1> USE DEF StampsAreLate
<1>8. ASSUME NEW p \in Procs, CommitCreate(p) PROVE StampsAreLate'
  <2>1. PICK t \in Tickets, r \in CreateRequests, now \in Nat, at \in Nat :
           /\ now = tx[p].now /\ tx[p].pc = "ready" /\ t = tx[p].req.ticket
           /\ OpensAs(t, r, now, at)
    BY <1>8, CreateWrites
  <2>2. End(p)
    BY <1>8 DEF CommitCreate
  <2> DEFINE new == [NoTicket EXCEPT !.status = "OPEN", !.priority = r.priority,
                                     !.customer = r.customer, !.version = 1,
                                     !.updated = now, !.publicUpdated = now]
  <2>3. new.updated = now /\ new.resolvedAt <= new.updated /\ new.closedAt <= new.updated
    BY OpenedColumns
  <2>4. ticket' = [ticket EXCEPT ![t] = new] /\ clock' = clock
    BY <2>1 DEF OpensAs
  <2> HIDE DEF new
  <2> QED
    BY <2>1, <2>2, <2>3, <2>4, CommitStamps
<1>9. ASSUME NEW p \in Procs, CommitPatch(p) PROVE StampsAreLate'
  <2>1. PICK t \in Tickets, r \in PatchRequests, old \in TicketRow, now \in Nat, at \in Nat :
           /\ now = tx[p].now /\ tx[p].pc = "ready" /\ t = tx[p].req.ticket
           /\ tx[p].req.kind # "create" /\ old = ticket[t]
           /\ PatchesTo(t, old, Patched(old, r, now), now, at)
    BY <1>9, PatchWrites
  <2>2. End(p)
    BY <1>9 DEF CommitPatch
  <2>3. old.resolvedAt <= now /\ old.closedAt <= now
    <3>1. /\ old.updated <= now /\ old.resolvedAt <= old.updated
          /\ old.closedAt <= old.updated
      BY <2>1
    <3> QED
      BY <3>1 DEF TicketRow
  <2> DEFINE new == Patched(old, r, now)
  <2>4. new.updated = now /\ new.resolvedAt <= new.updated /\ new.closedAt <= new.updated
    BY <2>3, StampedLate, PatchedColumns
  <2>5. ticket' = [ticket EXCEPT ![t] = new] /\ clock' = clock
    BY <2>1 DEF PatchesTo
  <2> HIDE DEF new
  <2> QED
    BY <2>1, <2>2, <2>4, <2>5, CommitStamps
<1>10. ASSUME NEW p \in Procs, CommitMessage(p) PROVE StampsAreLate'
  <2>1. PICK t \in Tickets, r \in MessageRequests, old \in TicketRow, now \in Nat, at \in Nat :
        \E m \in MessageRow :
           /\ now = tx[p].now /\ tx[p].pc = "ready" /\ t = tx[p].req.ticket
           /\ tx[p].req.kind # "create" /\ old = ticket[t]
           /\ RepliesTo(t, old, Replied(old, r, now), r, m, now, at)
    BY <1>10, MessageWrites
  <2>2. End(p)
    BY <1>10 DEF CommitMessage
  <2>3. old.resolvedAt <= now /\ old.closedAt <= now
    <3>1. /\ old.updated <= now /\ old.resolvedAt <= old.updated
          /\ old.closedAt <= old.updated
      BY <2>1
    <3> QED
      BY <3>1 DEF TicketRow
  <2> DEFINE new == Replied(old, r, now)
  <2>4. new.updated = now /\ new.resolvedAt <= new.updated /\ new.closedAt <= new.updated
    BY <2>3, RepliedColumns
  <2>5. ticket' = [ticket EXCEPT ![t] = new] /\ clock' = clock
    BY <2>1 DEF RepliesTo
  <2> HIDE DEF new
  <2> QED
    BY <2>1, <2>2, <2>4, <2>5, CommitStamps
<1> QED
  BY <1>1, <1>2, <1>3, <1>4, <1>5, <1>6, <1>7, <1>8, <1>9, <1>10 DEF Next, Step

\* Nothing is stamped before the first request.
LEMMA InitStamps == Init => StampsAreLate
BY DEF Init, StampsAreLate, Busy, IdleTx, NoTicket

\* So they are in every reachable state.
LEMMA StampsHold == Spec => [](LockInv /\ StampsAreLate)
BY InitStamps, StampsInductive, LockInvariant, PTL DEF Spec

-----------------------------------------------------------------------------
(* Before the creation.                                                    *)

\* A ticket that has not been created has no history.
BlankBefore ==
  \A t \in Tickets : ~Exists(t) =>
    /\ ticket[t] = NoTicket /\ messages[t] = << >> /\ events[t] = << >>
    /\ cycles[t] = << >> /\ deliveries[t] = {}

\* Only its creation gives a ticket rows.
LEMMA BlankInductive == LockInv /\ BlankBefore /\ [Next]_vars => BlankBefore'
<1> SUFFICES ASSUME LockInv, BlankBefore, [Next]_vars, NEW u \in Tickets, ~Exists(u)'
             PROVE  /\ ticket'[u] = NoTicket /\ messages'[u] = << >> /\ events'[u] = << >>
                    /\ cycles'[u] = << >> /\ deliveries'[u] = {}
  BY DEF BlankBefore
<1>0. TypeOK
  BY DEF LockInv
<1>1. ASSUME NEW p \in Procs, CommitCreate(p)
      PROVE  UNCHANGED <<ticket[u], messages[u], events[u], cycles[u], deliveries[u]>>
  <2>1. PICK t \in Tickets, r \in CreateRequests, now \in Nat, at \in Nat : OpensAs(t, r, now, at)
    BY <1>1, CreateWrites
  <2>2. u # t
    <3> SUFFICES ASSUME u = t PROVE FALSE
      OBVIOUS
    <3>1. ticket'[u].version = 1
      BY <1>0, <2>1, OpenedColumns DEF OpensAs, TypeOK
    <3> QED
      BY <3>1 DEF Exists
  <2> QED
    BY <1>0, <2>1, <2>2 DEF OpensAs, TypeOK
<1>2. ASSUME NEW p \in Procs, CommitPatch(p)
      PROVE  UNCHANGED <<ticket[u], messages[u], events[u], cycles[u], deliveries[u]>>
  <2>1. PICK t \in Tickets, r \in PatchRequests, old \in TicketRow, now \in Nat, at \in Nat :
          /\ now = tx[p].now /\ tx[p].pc = "ready" /\ tx[p].req.kind # "create"
          /\ t = tx[p].req.ticket
          /\ old = ticket[t] /\ old.version > 0
          /\ ValidTransition(old.status, Wanted(old, r).status, r.reason)
          /\ Wanted(old, r).assignee \in Staff \cup {Nobody}
          /\ PatchesTo(t, old, Patched(old, r, now), now, at)
    BY <1>2, PatchWrites
  <2>2. u # t
    <3> SUFFICES ASSUME u = t PROVE FALSE
      OBVIOUS
    <3>0. ticket'[u] = Patched(old, r, now)
      BY <1>0, <2>1 DEF PatchesTo, TypeOK
    <3>1. ticket'[u].version = old.version + 1 /\ old.version \in Nat
      BY <3>0, PatchedRow DEF TicketRow
    <3> QED
      BY <3>1 DEF Exists
  <2> QED
    BY <1>0, <2>1, <2>2 DEF PatchesTo, TypeOK
<1>3. ASSUME NEW p \in Procs, CommitMessage(p)
      PROVE  UNCHANGED <<ticket[u], messages[u], events[u], cycles[u], deliveries[u]>>
  <2>1. PICK t \in Tickets, r \in MessageRequests, old \in TicketRow, now \in Nat, at \in Nat,
             m \in MessageRow :
          /\ now = tx[p].now /\ tx[p].pc = "ready" /\ tx[p].req.kind # "create"
          /\ t = tx[p].req.ticket
          /\ old = ticket[t] /\ old.version > 0
          /\ m.sender = r.actor /\ m.visibility = r.visibility
          /\ ~FromStaff(r) => old.customer = r.actor /\ r.visibility = "PUBLIC"
          /\ r.visibility = "PUBLIC" => old.status # "CLOSED"
          /\ RepliesTo(t, old, Replied(old, r, now), r, m, now, at)
    BY <1>3, MessageWrites
  <2>2. u # t
    <3> SUFFICES ASSUME u = t PROVE FALSE
      OBVIOUS
    <3>0. ticket'[u] = Replied(old, r, now)
      BY <1>0, <2>1 DEF RepliesTo, TypeOK
    <3>1. ticket'[u].version = old.version + 1 /\ old.version \in Nat
      BY <3>0, RepliedRow DEF TicketRow
    <3> QED
      BY <3>1 DEF Exists
  <2> QED
    BY <1>0, <2>1, <2>2 DEF RepliesTo, TypeOK
<1>4. UNCHANGED <<ticket[u], messages[u], events[u], cycles[u], deliveries[u]>>
  BY <1>1, <1>2, <1>3, HistoryStays
<1>5. ~Exists(u)
  BY <1>4 DEF Exists
<1> QED
  BY <1>4, <1>5 DEF BlankBefore

HistoryBase == LockInv /\ StampsAreLate /\ BlankBefore

\* What both theorems of this module start from.
LEMMA BaseHolds == Spec => []HistoryBase
<1>1. Init => BlankBefore
  BY DEF Init, BlankBefore
<1> QED
  BY <1>1, BlankInductive, StampsHold, PTL DEF Spec, HistoryBase

-----------------------------------------------------------------------------
(* Internal work.                                                          *)

\* Whether a customer can see that a step has changed the ticket t.
Visible(t) ==
  \/ ticket'[t].status # ticket[t].status
  \/ ticket'[t].priority # ticket[t].priority
  \/ \E i \in DOMAIN messages'[t] \ DOMAIN messages[t] : messages'[t][i].visibility = "PUBLIC"

LeavesNoTrace(t) ==
  /\ Visible(t) <=> outbox'[t][Len(outbox'[t])] = "PUBLIC"
  /\ Visible(t) => ticket'[t].publicUpdated = ticket'[t].updated
  /\ ~Visible(t) => ticket'[t].publicUpdated = ticket[t].publicUpdated
  /\ ticket[t].updated <= ticket'[t].updated

\* A commit is visible to the customer exactly when it says so.
LEMMA VisibleWork ==
  ASSUME HistoryBase, [Next]_vars, NEW u \in Tickets, ticket'[u] # ticket[u]
  PROVE  LeavesNoTrace(u)
<1>0. /\ ticket \in [Tickets -> TicketRow] /\ outbox \in [Tickets -> Seq(Visibilities)]
      /\ messages \in [Tickets -> Seq(MessageRow)]
      /\ LockInv /\ StampsAreLate
  BY DEF HistoryBase, LockInv, TypeOK
<1>1. \A s \in Seq(Visibilities), v \in Visibilities : Append(s, v)[Len(Append(s, v))] = v
  OBVIOUS
<1>2. "PUBLIC" \in Visibilities /\ "INTERNAL" \in Visibilities
  BY DEF Visibilities
<1>3. ASSUME NEW p \in Procs, CommitCreate(p) PROVE LeavesNoTrace(u)
  <2>1. PICK t \in Tickets, r \in CreateRequests, now \in Nat, at \in Nat :
          ~Exists(t) /\ OpensAs(t, r, now, at)
    BY <1>0, <1>3, CreateWrites
  <2>2. u = t
    BY <1>0, <2>1 DEF OpensAs
  <2>3. ticket[u].status = Null /\ ticket[u].updated = 0
    BY <2>1, <2>2 DEF HistoryBase, BlankBefore, NoTicket
  <2>4. ticket'[u].status = "OPEN" /\ ticket'[u].publicUpdated = now /\ ticket'[u].updated = now
    BY <1>0, <2>1, <2>2, OpenedColumns DEF OpensAs
  <2>5. outbox'[u][Len(outbox'[u])] = "PUBLIC"
    BY <1>0, <1>1, <1>2, <2>1, <2>2 DEF OpensAs
  <2> QED
    BY <2>3, <2>4, <2>5 DEF LeavesNoTrace, Visible, Null
<1>4. ASSUME NEW p \in Procs, CommitPatch(p) PROVE LeavesNoTrace(u)
  <2>1. PICK t \in Tickets, r \in PatchRequests, old \in TicketRow, now \in Nat, at \in Nat :
           /\ now = tx[p].now /\ tx[p].pc = "ready" /\ tx[p].req.kind # "create"
           /\ t = tx[p].req.ticket
           /\ old = ticket[t] /\ old.version > 0
           /\ ValidTransition(old.status, Wanted(old, r).status, r.reason)
           /\ Wanted(old, r).assignee \in Staff \cup {Nobody}
           /\ PatchesTo(t, old, Patched(old, r, now), now, at)
    BY <1>0, <1>4, PatchWrites
  <2>2. PICK new : new = Patched(old, r, now)
    OBVIOUS
  <2>3. u = t /\ ticket'[u] = new
    BY <1>0, <2>1, <2>2 DEF PatchesTo
  <2>4. Visible(u) <=> PublicChange(old, new)
    BY <2>1, <2>2, <2>3 DEF PatchesTo, Visible, PublicChange
  <2>5. outbox'[u][Len(outbox'[u])] = IF PublicChange(old, new) THEN "PUBLIC" ELSE "INTERNAL"
    BY <1>0, <1>1, <1>2, <2>1, <2>2, <2>3 DEF PatchesTo
  <2>6. /\ new.updated = now
        /\ new.publicUpdated = IF PublicChange(old, new) THEN now ELSE old.publicUpdated
    BY <2>2, PatchedColumns
  <2>7. old.updated <= now
    BY <1>0, <2>1 DEF StampsAreLate
  <2> QED
    BY <2>1, <2>3, <2>4, <2>5, <2>6, <2>7 DEF LeavesNoTrace
<1>5. ASSUME NEW p \in Procs, CommitMessage(p) PROVE LeavesNoTrace(u)
  <2>1. PICK t \in Tickets, r \in MessageRequests, old \in TicketRow, now \in Nat, at \in Nat,
             m \in MessageRow :
           /\ now = tx[p].now /\ tx[p].pc = "ready" /\ tx[p].req.kind # "create"
           /\ t = tx[p].req.ticket
           /\ old = ticket[t] /\ old.version > 0
           /\ m.sender = r.actor /\ m.visibility = r.visibility
           /\ ~FromStaff(r) => old.customer = r.actor /\ r.visibility = "PUBLIC"
           /\ r.visibility = "PUBLIC" => old.status # "CLOSED"
           /\ RepliesTo(t, old, Replied(old, r, now), r, m, now, at)
    BY <1>0, <1>5, MessageWrites
  <2>2. PICK new : new = Replied(old, r, now)
    OBVIOUS
  <2>3. u = t /\ ticket'[u] = new
    BY <1>0, <2>1, <2>2 DEF RepliesTo
  <2>4. Visible(u) <=> r.visibility = "PUBLIC"
    <3>1. messages'[u] = Append(messages[u], m) /\ messages[u] \in Seq(MessageRow)
      BY <1>0, <2>1, <2>3 DEF RepliesTo
    <3>2. \A i : i \in DOMAIN messages'[u] \ DOMAIN messages[u] <=> i = Len(messages[u]) + 1
      BY <3>1
    <3>3. messages'[u][Len(messages[u]) + 1] = m
      BY <3>1
    <3>4. r.visibility # "PUBLIC" => new.status = old.status /\ new.priority = old.priority
      BY <2>2, RepliedColumns DEF ReopensOnReply
    <3>5. (\E i \in DOMAIN messages'[u] \ DOMAIN messages[u] :
             messages'[u][i].visibility = "PUBLIC") <=> m.visibility = "PUBLIC"
      BY <3>2, <3>3
    <3>6. m.visibility = r.visibility /\ old = ticket[u] /\ new = ticket'[u]
      BY <2>1, <2>3
    <3> QED
      BY <3>4, <3>5, <3>6 DEF Visible
  <2>5. outbox'[u][Len(outbox'[u])] = r.visibility
    <3>1. r.visibility \in Visibilities
      BY DEF MessageRequests
    <3>2. outbox'[u] = Append(outbox[u], r.visibility)
      BY <1>0, <2>1, <2>3 DEF RepliesTo
    <3> QED
      BY <1>0, <1>1, <3>1, <3>2
  <2>6. /\ new.updated = now
        /\ new.publicUpdated = IF r.visibility = "PUBLIC" THEN now ELSE old.publicUpdated
    BY <2>2, RepliedColumns
  <2>7. old.updated <= now
    BY <1>0, <2>1 DEF StampsAreLate
  <2> QED
    BY <2>1, <2>3, <2>4, <2>5, <2>6, <2>7 DEF LeavesNoTrace
<1> QED
  BY <1>3, <1>4, <1>5, HistoryStays

\* For every interleaving of requests: public_updated_at moves and a PUBLIC outbox row
\* appears exactly with what a customer can see, and no write moves the timestamps of a
\* ticket backwards.
THEOREM InternalWorkStaysInvisible == Spec => InternalWorkIsInvisible
<1>1. HistoryBase /\ [Next]_vars =>
        [\A t \in Tickets : ticket'[t] # ticket[t] => LeavesNoTrace(t)]_vars
  BY VisibleWork
<1>2. [Next]_vars /\ [\A t \in Tickets : ticket'[t] # ticket[t] => LeavesNoTrace(t)]_vars
        => [\A t \in Tickets : ticket'[t] # ticket[t] =>
             LET visible == \/ ticket'[t].status # ticket[t].status
                            \/ ticket'[t].priority # ticket[t].priority
                            \/ \E i \in DOMAIN messages'[t] \ DOMAIN messages[t] :
                                  messages'[t][i].visibility = "PUBLIC"
             IN  /\ visible <=> outbox'[t][Len(outbox'[t])] = "PUBLIC"
                 /\ visible => ticket'[t].publicUpdated = ticket'[t].updated
                 /\ ~visible => ticket'[t].publicUpdated = ticket[t].publicUpdated
                 /\ ticket[t].updated <= ticket'[t].updated]_vars
  BY DEF LeavesNoTrace, Visible
<1> QED
  BY <1>1, <1>2, BaseHolds, PTL DEF Spec, InternalWorkIsInvisible

-----------------------------------------------------------------------------
(* The audit trail.                                                        *)

\* A row of another column, or one that starts where the trail has left the column, keeps
\* the trail a chain.
LEMMA TrailAppend ==
  ASSUME NEW s \in Seq(EventRow), NEW e \in EventRow, NEW f, NEW v, NEW w,
         TrailExplains(s, f, v),
         \/ e.field # f /\ w = v
         \/ e.field = f /\ e.old = v /\ e.new = w /\ e.old # e.new
  PROVE  TrailExplains(Append(s, e), f, w)
<1> DEFINE s2 == Append(s, e)
<1>1. PICK n \in Nat : n = Len(s)
  OBVIOUS
<1>2. /\ DOMAIN s = 1..n /\ DOMAIN s2 = 1..(n + 1)
      /\ s2[n + 1] = e /\ \A i \in 1..n : s2[i] = s[i]
  BY <1>1
<1> HIDE DEF s2
<1>3. RowsOf(s2, f) = IF e.field = f THEN RowsOf(s, f) \cup {n + 1} ELSE RowsOf(s, f)
  BY <1>2 DEF RowsOf
<1>4. \A i \in RowsOf(s, f) : i \in 1..n /\ s2[i] = s[i]
  BY <1>2 DEF RowsOf
<1>5. \A i \in RowsOf(s, f) :
        /\ s[i].old # s[i].new
        /\ (\A j \in RowsOf(s, f) : j <= i) => s[i].new = v
        /\ \A j \in RowsOf(s, f) : i < j /\ (\A k \in RowsOf(s, f) : k <= i \/ j <= k)
                             => s[i].new = s[j].old
  BY DEF TrailExplains
<1>6. CASE e.field # f /\ w = v
  <2>1. RowsOf(s2, f) = RowsOf(s, f) /\ \A i \in RowsOf(s, f) : s2[i] = s[i]
    BY <1>3, <1>4, <1>6
  <2>2. TrailExplains(s2, f, w)
    BY <1>5, <1>6, <2>1 DEF TrailExplains
  <2> QED
    BY <2>2 DEF s2
<1>7. CASE e.field = f /\ e.old = v /\ e.new = w /\ e.old # e.new
  <2> SUFFICES ASSUME NEW i \in RowsOf(s2, f)
               PROVE  /\ s2[i].old # s2[i].new
                      /\ (\A j \in RowsOf(s2, f) : j <= i) => s2[i].new = w
                      /\ \A j \in RowsOf(s2, f) :
                           i < j /\ (\A k \in RowsOf(s2, f) : k <= i \/ j <= k)
                             => s2[i].new = s2[j].old
    BY DEF TrailExplains, s2
  <2>1. CASE i = n + 1
    <3>1. \A j \in RowsOf(s2, f) : ~(i < j)
      BY <1>3, <1>4, <1>7, <2>1
    <3> QED
      BY <1>2, <1>7, <2>1, <3>1
  <2>2. CASE i \in RowsOf(s, f)
    <3>1. i \in 1..n /\ s2[i] = s[i] /\ ~(n + 1 <= i) /\ n + 1 \in RowsOf(s2, f)
      BY <1>3, <1>4, <1>7, <2>2
    <3>2. ASSUME NEW j \in RowsOf(s2, f), i < j, \A k \in RowsOf(s2, f) : k <= i \/ j <= k
          PROVE  s2[i].new = s2[j].old
      <4>1. CASE j = n + 1
        <5>1. \A k \in RowsOf(s, f) : k <= i
          <6> TAKE k \in RowsOf(s, f)
          <6>1. k \in 1..n /\ k \in RowsOf(s2, f)
            BY <1>3, <1>4
          <6> QED
            BY <3>2, <4>1, <6>1
        <5> QED
          BY <1>2, <1>5, <1>7, <2>2, <3>1, <4>1, <5>1
      <4>2. CASE j \in RowsOf(s, f)
        <5>1. \A k \in RowsOf(s, f) : k <= i \/ j <= k
          BY <1>3, <3>2
        <5> QED
          BY <1>4, <1>5, <2>2, <3>1, <3>2, <4>2, <5>1
      <4> QED
        BY <1>3, <1>7, <4>1, <4>2
    <3> QED
      BY <1>5, <2>2, <3>1, <3>2
  <2> QED
    BY <1>3, <1>7, <2>1, <2>2
<1> QED
  BY <1>6, <1>7

\* The rows of a change of one column, which is there or not.
LEMMA TrailChange ==
  ASSUME NEW s \in Seq(EventRow), NEW f, NEW g, NEW v, NEW a, NEW b, NEW visibility, NEW at,
         TrailExplains(s, f, v), f = g => v = a,
         a # b => Event(g, a, b, visibility, at) \in EventRow
  PROVE  LET s2 == s \o ChangeEvent(g, a, b, visibility, at)
         IN  s2 \in Seq(EventRow) /\ TrailExplains(s2, f, IF f = g THEN b ELSE v)
<1>1. CASE a = b
  <2>1. ChangeEvent(g, a, b, visibility, at) = << >>
    BY <1>1 DEF ChangeEvent
  <2>2. s \o << >> = s
    BY ConcatEmptySeq
  <2> QED
    BY <1>1, <2>1, <2>2
<1>2. CASE a # b
  <2> DEFINE e == Event(g, a, b, visibility, at)
  <2>1. ChangeEvent(g, a, b, visibility, at) = <<e>> /\ e \in EventRow
    BY <1>2 DEF ChangeEvent
  <2>2. e.field = g /\ e.old = a /\ e.new = b
    BY DEF Event
  <2> HIDE DEF e
  <2>3. s \o <<e>> = Append(s, e) /\ Append(s, e) \in Seq(EventRow)
    BY <2>1, AppendIsConcat, AppendProperties
  <2>4. TrailExplains(Append(s, e), f, IF f = g THEN b ELSE v)
    BY <1>2, <2>1, <2>2, TrailAppend
  <2> QED
    BY <2>1, <2>3, <2>4
<1> QED
  BY <1>1, <1>2

\* The row of a change is a row of the trail.
LEMMA ChangeEventTyped ==
  ASSUME NEW old \in TicketRow, NEW new \in TicketRow, NEW at \in Nat
  PROVE  /\ Event("status", old.status, new.status, "PUBLIC", at) \in EventRow
         /\ Event("priority", old.priority, new.priority, "PUBLIC", at) \in EventRow
         /\ Event("assignee", old.assignee, new.assignee, "INTERNAL", at) \in EventRow
         /\ ChangeEvent("status", old.status, new.status, "PUBLIC", at) \in Seq(EventRow)
         /\ ChangeEvent("priority", old.priority, new.priority, "PUBLIC", at) \in Seq(EventRow)
         /\ ChangeEvent("assignee", old.assignee, new.assignee, "INTERNAL", at) \in Seq(EventRow)
<1>1. /\ Event("status", old.status, new.status, "PUBLIC", at) \in EventRow
      /\ Event("priority", old.priority, new.priority, "PUBLIC", at) \in EventRow
      /\ Event("assignee", old.assignee, new.assignee, "INTERNAL", at) \in EventRow
  <2> DEFINE Value == Statuses \cup Priorities \cup Assignees \cup {Null}
  <2>1. /\ old.status \in Value /\ new.status \in Value
        /\ old.priority \in Value /\ new.priority \in Value
        /\ old.assignee \in Value /\ new.assignee \in Value
    BY DEF TicketRow
  <2>2. \A field \in {"status", "priority", "assignee", "message"}, v \in Value, w \in Value,
           visibility \in Visibilities : Event(field, v, w, visibility, at) \in EventRow
    BY DEF Event, EventRow
  <2>3. "PUBLIC" \in Visibilities /\ "INTERNAL" \in Visibilities
    BY DEF Visibilities
  <2> HIDE DEF Value
  <2> QED
    BY <2>1, <2>2, <2>3
<1>2. \A f, a, b, v : Event(f, a, b, v, at) \in EventRow => ChangeEvent(f, a, b, v, at) \in Seq(EventRow)
  <2> TAKE f, a, b, v
  <2> HAVE Event(f, a, b, v, at) \in EventRow
  <2> DEFINE e == Event(f, a, b, v, at)
  <2>1. <<e>> \in Seq(EventRow) /\ << >> \in Seq(EventRow)
    OBVIOUS
  <2> QED
    BY <2>1 DEF ChangeEvent
<1> QED
  BY <1>1, <1>2

\* The audit rows of a change join the trail one by one.
LEMMA ChangesJoin ==
  ASSUME NEW s \in Seq(EventRow), NEW old \in TicketRow, NEW new \in TicketRow, NEW at \in Nat
  PROVE  LET x == ChangeEvent("status", old.status, new.status, "PUBLIC", at)
             y == ChangeEvent("priority", old.priority, new.priority, "PUBLIC", at)
             z == ChangeEvent("assignee", old.assignee, new.assignee, "INTERNAL", at)
         IN  s \o ChangeEvents(old, new, at) = ((s \o x) \o y) \o z
<1> DEFINE x == ChangeEvent("status", old.status, new.status, "PUBLIC", at)
           y == ChangeEvent("priority", old.priority, new.priority, "PUBLIC", at)
           z == ChangeEvent("assignee", old.assignee, new.assignee, "INTERNAL", at)
<1>1. ChangeEvents(old, new, at) = (x \o y) \o z
  BY DEF ChangeEvents
<1>2. x \in Seq(EventRow) /\ y \in Seq(EventRow) /\ z \in Seq(EventRow)
  BY ChangeEventTyped
<1> HIDE DEF x, y, z
<1>3. x \o y \in Seq(EventRow) /\ s \o x \in Seq(EventRow)
  BY <1>2, ConcatProperties
<1>a. \A u, v, w \in Seq(EventRow) : (u \o v) \o w = u \o (v \o w)
  <2> TAKE u, v, w \in Seq(EventRow)
  <2> DEFINE lhs == (u \o v) \o w
             rhs == u \o (v \o w)
  <2>1. u \o v \in Seq(EventRow) /\ v \o w \in Seq(EventRow)
    BY ConcatProperties
  <2>2. lhs \in Seq(EventRow) /\ rhs \in Seq(EventRow)
    BY <2>1, ConcatProperties
  <2>3. Len(lhs) = Len(u) + Len(v) + Len(w) /\ Len(rhs) = Len(u) + Len(v) + Len(w)
    BY <2>1, ConcatProperties
  <2>4. \A i \in 1..Len(lhs) : lhs[i] = rhs[i]
    <3> TAKE i \in 1..Len(lhs)
    <3>1. CASE i <= Len(u)
      BY <2>1, <2>3, <3>1
    <3>2. CASE Len(u) < i /\ i <= Len(u) + Len(v)
      BY <2>1, <2>3, <3>2
    <3>3. CASE Len(u) + Len(v) < i
      BY <2>1, <2>3, <3>3
    <3> QED
      BY <2>3, <3>1, <3>2, <3>3
  <2> HIDE DEF lhs, rhs
  <2>5. lhs = rhs
    BY <2>2, <2>3, <2>4, SeqEqual
  <2> QED
    BY <2>5 DEF lhs, rhs
<1>4. s \o ((x \o y) \o z) = (s \o (x \o y)) \o z
  BY <1>a, <1>2, <1>3, Zenon
<1>5. s \o (x \o y) = (s \o x) \o y
  BY <1>a, <1>2, Zenon
<1> QED
  BY <1>1, <1>4, <1>5 DEF x, y, z

\* After a change, the trail accounts for all three columns.
LEMMA TrailFollows ==
  ASSUME NEW s \in Seq(EventRow), NEW old \in TicketRow, NEW new \in TicketRow, NEW at \in Nat,
         TrailExplains(s, "status", old.status),
         TrailExplains(s, "priority", old.priority),
         TrailExplains(s, "assignee", old.assignee)
  PROVE  LET s2 == s \o ChangeEvents(old, new, at)
         IN  /\ s2 \in Seq(EventRow)
             /\ TrailExplains(s2, "status", new.status)
             /\ TrailExplains(s2, "priority", new.priority)
             /\ TrailExplains(s2, "assignee", new.assignee)
<1> DEFINE s1 == s \o ChangeEvent("status", old.status, new.status, "PUBLIC", at)
           s2 == s1 \o ChangeEvent("priority", old.priority, new.priority, "PUBLIC", at)
           s3 == s2 \o ChangeEvent("assignee", old.assignee, new.assignee, "INTERNAL", at)
<1>0. /\ Event("status", old.status, new.status, "PUBLIC", at) \in EventRow
      /\ Event("priority", old.priority, new.priority, "PUBLIC", at) \in EventRow
      /\ Event("assignee", old.assignee, new.assignee, "INTERNAL", at) \in EventRow
  BY ChangeEventTyped
<1>1. /\ s1 \in Seq(EventRow)
      /\ TrailExplains(s1, "status", new.status)
      /\ TrailExplains(s1, "priority", old.priority)
      /\ TrailExplains(s1, "assignee", old.assignee)
  <2>1. /\ s1 \in Seq(EventRow)
        /\ TrailExplains(s1, "status", IF "status" = "status" THEN new.status ELSE old.status)
    BY <1>0, TrailChange
  <2>2. TrailExplains(s1, "priority", IF "priority" = "status" THEN new.status ELSE old.priority)
    BY <1>0, TrailChange
  <2>3. TrailExplains(s1, "assignee", IF "assignee" = "status" THEN new.status ELSE old.assignee)
    BY <1>0, TrailChange
  <2> HIDE DEF s1
  <2> QED
    BY <2>1, <2>2, <2>3
<1> HIDE DEF s1
<1>2. /\ s2 \in Seq(EventRow)
      /\ TrailExplains(s2, "status", new.status)
      /\ TrailExplains(s2, "priority", new.priority)
      /\ TrailExplains(s2, "assignee", old.assignee)
  <2>1. /\ s2 \in Seq(EventRow)
        /\ TrailExplains(s2, "priority", IF "priority" = "priority" THEN new.priority ELSE old.priority)
    BY <1>0, <1>1, TrailChange
  <2>2. TrailExplains(s2, "status", IF "status" = "priority" THEN new.priority ELSE new.status)
    BY <1>0, <1>1, TrailChange
  <2>3. TrailExplains(s2, "assignee", IF "assignee" = "priority" THEN new.priority ELSE old.assignee)
    BY <1>0, <1>1, TrailChange
  <2> HIDE DEF s2
  <2> QED
    BY <2>1, <2>2, <2>3
<1> HIDE DEF s2
<1>3. /\ s3 \in Seq(EventRow)
      /\ TrailExplains(s3, "status", new.status)
      /\ TrailExplains(s3, "priority", new.priority)
      /\ TrailExplains(s3, "assignee", new.assignee)
  <2>1. /\ s3 \in Seq(EventRow)
        /\ TrailExplains(s3, "assignee", IF "assignee" = "assignee" THEN new.assignee ELSE old.assignee)
    BY <1>0, <1>2, TrailChange
  <2>2. TrailExplains(s3, "status", IF "status" = "assignee" THEN new.assignee ELSE new.status)
    BY <1>0, <1>2, TrailChange
  <2>3. TrailExplains(s3, "priority", IF "priority" = "assignee" THEN new.assignee ELSE new.priority)
    BY <1>0, <1>2, TrailChange
  <2> HIDE DEF s3
  <2> QED
    BY <2>1, <2>2, <2>3
<1>4. s \o ChangeEvents(old, new, at) = s3
  BY ChangesJoin DEF s1, s2
<1> QED
  BY <1>3, <1>4

-----------------------------------------------------------------------------
(* Reopenings and cycles.                                                  *)

Reopens(e) == e.field = "status" /\ e.old \in Completed /\ e.new = "IN_PROGRESS"

\* The reopenings of a trail can be counted.
LEMMA ReopeningsFinite ==
  ASSUME NEW s \in Seq(EventRow)
  PROVE  IsFiniteSet(Reopenings(s)) /\ Cardinality(Reopenings(s)) \in Nat
<1>1. Reopenings(s) \subseteq 1..Len(s)
  BY DEF Reopenings, RowsOf
<1>2. IsFiniteSet(1..Len(s))
  BY FS_Interval
<1> QED
  BY <1>1, <1>2, FS_Subset, FS_CardinalityType

\* A row of the trail is a reopening or not.
LEMMA ReopeningsAppend ==
  ASSUME NEW s \in Seq(EventRow), NEW e \in EventRow
  PROVE  Cardinality(Reopenings(Append(s, e))) =
           Cardinality(Reopenings(s)) + (IF Reopens(e) THEN 1 ELSE 0)
<1> DEFINE s2 == Append(s, e)
<1>1. PICK n \in Nat : n = Len(s)
  OBVIOUS
<1>2. /\ DOMAIN s = 1..n /\ DOMAIN s2 = 1..(n + 1)
      /\ s2[n + 1] = e /\ \A i \in 1..n : s2[i] = s[i]
  BY <1>1
<1> HIDE DEF s2
<1>3. Reopenings(s2) = IF Reopens(e) THEN Reopenings(s) \cup {n + 1} ELSE Reopenings(s)
  BY <1>2 DEF Reopenings, RowsOf, Reopens
<1>4. n + 1 \notin Reopenings(s)
  BY <1>2 DEF Reopenings, RowsOf
<1>5. IsFiniteSet(Reopenings(s)) /\ Cardinality(Reopenings(s)) \in Nat
  BY ReopeningsFinite
<1>6. CASE Reopens(e)
  <2>1. Cardinality(Reopenings(s) \cup {n + 1}) = Cardinality(Reopenings(s)) + 1
    BY <1>4, <1>5, FS_AddElement
  <2> QED
    BY <1>3, <1>6, <2>1 DEF s2
<1>7. CASE ~Reopens(e)
  BY <1>3, <1>5, <1>7 DEF s2
<1> QED
  BY <1>6, <1>7

\* The row of a change counts when it is one of a reopening.
LEMMA ReopeningsChange ==
  ASSUME NEW s \in Seq(EventRow), NEW f, NEW a, NEW b, NEW visibility, NEW at,
         Event(f, a, b, visibility, at) \in EventRow
  PROVE  LET s2 == s \o ChangeEvent(f, a, b, visibility, at)
         IN  /\ s2 \in Seq(EventRow)
             /\ Cardinality(Reopenings(s2)) = Cardinality(Reopenings(s)) +
                  (IF f = "status" /\ a \in Completed /\ b = "IN_PROGRESS" THEN 1 ELSE 0)
<1>0. "IN_PROGRESS" \notin Completed
  BY DEF Completed
<1>1. CASE a = b
  <2>1. ChangeEvent(f, a, b, visibility, at) = << >>
    BY <1>1 DEF ChangeEvent
  <2>2. s \o << >> = s
    BY ConcatEmptySeq
  <2> QED
    BY <1>0, <1>1, <2>1, <2>2, ReopeningsFinite
<1>2. CASE a # b
  <2> DEFINE e == Event(f, a, b, visibility, at)
  <2>1. ChangeEvent(f, a, b, visibility, at) = <<e>> /\ e \in EventRow
    BY <1>2 DEF ChangeEvent
  <2>2. Reopens(e) <=> f = "status" /\ a \in Completed /\ b = "IN_PROGRESS"
    BY DEF Event, Reopens
  <2> HIDE DEF e
  <2>3. s \o <<e>> = Append(s, e) /\ Append(s, e) \in Seq(EventRow)
    BY <2>1, AppendIsConcat, AppendProperties
  <2> QED
    BY <2>1, <2>2, <2>3, ReopeningsAppend
<1> QED
  BY <1>1, <1>2

\* A change of the columns reopens the ticket at most once.
LEMMA ReopeningsFollow ==
  ASSUME NEW s \in Seq(EventRow), NEW old \in TicketRow, NEW new \in TicketRow, NEW at \in Nat
  PROVE  Cardinality(Reopenings(s \o ChangeEvents(old, new, at))) =
           Cardinality(Reopenings(s)) +
             (IF old.status \in Completed /\ new.status = "IN_PROGRESS" THEN 1 ELSE 0)
<1> DEFINE s1 == s \o ChangeEvent("status", old.status, new.status, "PUBLIC", at)
           s2 == s1 \o ChangeEvent("priority", old.priority, new.priority, "PUBLIC", at)
           s3 == s2 \o ChangeEvent("assignee", old.assignee, new.assignee, "INTERNAL", at)
           one == IF old.status \in Completed /\ new.status = "IN_PROGRESS" THEN 1 ELSE 0
<1>0. /\ Event("status", old.status, new.status, "PUBLIC", at) \in EventRow
      /\ Event("priority", old.priority, new.priority, "PUBLIC", at) \in EventRow
      /\ Event("assignee", old.assignee, new.assignee, "INTERNAL", at) \in EventRow
  BY ChangeEventTyped
<1>1. /\ s1 \in Seq(EventRow)
      /\ Cardinality(Reopenings(s1)) = Cardinality(Reopenings(s)) + one
  BY <1>0, ReopeningsChange
<1> HIDE DEF s1, one
<1>2. /\ s2 \in Seq(EventRow)
      /\ Cardinality(Reopenings(s2)) = Cardinality(Reopenings(s1)) + 0
  BY <1>0, <1>1, ReopeningsChange
<1> HIDE DEF s2
<1>3. /\ s3 \in Seq(EventRow)
      /\ Cardinality(Reopenings(s3)) = Cardinality(Reopenings(s2)) + 0
  BY <1>0, <1>2, ReopeningsChange
<1> HIDE DEF s3
<1>4. s \o ChangeEvents(old, new, at) = s3
  BY ChangesJoin DEF s1, s2, s3
<1>5. /\ Cardinality(Reopenings(s1)) \in Nat /\ Cardinality(Reopenings(s2)) \in Nat
      /\ Cardinality(Reopenings(s)) \in Nat
  BY <1>1, <1>2, ReopeningsFinite
<1> QED
  BY <1>1, <1>2, <1>3, <1>4, <1>5 DEF one

PhaseOf(status) ==
  CASE status \in Completed -> "completed"
    [] status = "WAITING_FOR_CUSTOMER" -> "paused"
    [] OTHER -> "running"

\* The cycles of a ticket in a status, after n reopenings; all have the same answer.
CyclesFit(cs, status, n, answered) ==
  /\ cs \in Seq(CycleRow) /\ Len(cs) = n + 1
  /\ \A i \in 1..(Len(cs) - 1) : cs[i].phase = "completed"
  /\ cs[Len(cs)].phase = PhaseOf(status)
  /\ \A i \in 1..Len(cs) : cs[i].answered = answered

\* The phase tells a completed status from the others.
LEMMA PhaseCompleted ==
  ASSUME NEW status
  PROVE  PhaseOf(status) = "completed" <=> status \in Completed
<1>1. CASE status \in Completed
  BY <1>1 DEF PhaseOf, Completed
<1>2. CASE status \notin Completed /\ status = "WAITING_FOR_CUSTOMER"
  BY <1>2 DEF PhaseOf, Completed
<1>3. CASE status \notin Completed /\ status # "WAITING_FOR_CUSTOMER"
  BY <1>3 DEF PhaseOf
<1> QED
  BY <1>1, <1>2, <1>3

\* The active cycle is the last one, if there is one.
LEMMA ActiveIsLast ==
  ASSUME NEW cs, NEW status, NEW n \in Nat, NEW answered, CyclesFit(cs, status, n, answered)
  PROVE  ActiveCycle(cs) = IF status \in Completed THEN 0 ELSE n + 1
<1> DEFINE active == {i \in DOMAIN cs : cs[i].phase # "completed"}
<1>1. /\ DOMAIN cs = 1..(n + 1) /\ \A i \in 1..n : cs[i].phase = "completed"
      /\ cs[n + 1].phase = PhaseOf(status)
  BY DEF CyclesFit
<1>p. PhaseOf(status) = "completed" <=> status \in Completed
  BY PhaseCompleted
<1>2. CASE status \in Completed
  <2>1. cs[n + 1].phase = "completed"
    BY <1>1, <1>2, <1>p
  <2>2. active = {}
    BY <1>1, <2>1
  <2> QED
    BY <1>2, <2>2 DEF ActiveCycle
<1>3. CASE status \notin Completed
  <2>1. cs[n + 1].phase # "completed"
    BY <1>1, <1>3, <1>p
  <2>2. active = {n + 1}
    BY <1>1, <2>1
  <2>3. ActiveCycle(cs) = CHOOSE i \in active : \A j \in active : j <= i
    BY <2>2 DEF ActiveCycle
  <2>4. (CHOOSE i \in active : \A j \in active : j <= i) = n + 1
    <3> HIDE DEF active
    <3> QED
      BY <2>2
  <2> QED
    BY <1>3, <2>3, <2>4
<1> QED
  BY <1>2, <1>3

\* A status change that stays among open states, or completes the ticket.
LEMMA PhaseFollows ==
  ASSUME NEW cs, NEW old, NEW new, NEW n \in Nat, NEW answered,
         CyclesFit(cs, old, n, answered), old \notin Completed, NEW phase \in Phases,
         phase = PhaseOf(new)
  PROVE  CyclesFit(SetPhase(cs, phase), new, n, answered)
<1> DEFINE cs2 == SetPhase(cs, phase)
<1>1. cs2 \in Seq(CycleRow)
  BY SetPhaseType DEF CyclesFit
<1>2. DOMAIN cs = 1..(n + 1) /\ Len(cs) = n + 1 /\ ActiveCycle(cs) = n + 1
  <2>1. ActiveCycle(cs) = n + 1
    BY ActiveIsLast
  <2> QED
    BY <2>1 DEF CyclesFit
<1>3. cs2 = [i \in 1..(n + 1) |-> IF i = n + 1 THEN [cs[i] EXCEPT !.phase = phase] ELSE cs[i]]
  BY <1>2 DEF SetPhase
<1>4. Len(cs2) = n + 1
  BY <1>1, <1>3
<1>5. \A i \in 1..(n + 1) : cs[i] \in CycleRow
  BY <1>2 DEF CyclesFit
<1>6. \A i \in 1..n : cs2[i] = cs[i]
  BY <1>3
<1>7. cs2[n + 1].phase = phase /\ cs2[n + 1].answered = cs[n + 1].answered
  <2>1. cs2[n + 1] = [cs[n + 1] EXCEPT !.phase = phase]
    BY <1>3
  <2> QED
    BY <1>5, <2>1 DEF CycleRow
<1> HIDE DEF cs2
<1> QED
  BY <1>1, <1>2, <1>4, <1>6, <1>7 DEF CyclesFit, cs2

\* A move along the policy leaves the cycles that belong to it.
LEMMA CyclesFollow ==
  ASSUME NEW cs, NEW old \in Statuses, NEW new \in Statuses, NEW n \in Nat, NEW answered \in Nat,
         CyclesFit(cs, old, n, answered), NEW reason, ValidTransition(old, new, reason)
  PROVE  CyclesFit(ApplyStatusChange(cs, old, new, answered), new,
                   n + (IF old \in Completed /\ new = "IN_PROGRESS" THEN 1 ELSE 0), answered)
<1> DEFINE cs2 == ApplyStatusChange(cs, old, new, answered)
<1>0. "IN_PROGRESS" \notin Completed
  BY DEF Completed
<1>1. CASE old = new
  BY <1>0, <1>1 DEF ApplyStatusChange
<1>2. CASE old # new /\ old \notin Completed
  <2>1. CASE new \in Completed
    <3>1. cs2 = SetPhase(cs, "completed") /\ PhaseOf(new) = "completed"
      BY <1>2, <2>1, PhaseCompleted DEF ApplyStatusChange, Completed
    <3>2. "completed" \in Phases
      BY DEF Phases
    <3>3. CyclesFit(SetPhase(cs, "completed"), new, n, answered)
      BY <1>2, <3>1, <3>2, PhaseFollows
    <3> QED
      BY <1>2, <3>1, <3>3
  <2>2. CASE new = "WAITING_FOR_CUSTOMER"
    <3>1. cs2 = SetPhase(cs, "paused") /\ PhaseOf(new) = "paused"
      BY <1>2, <2>2 DEF ApplyStatusChange, PhaseOf, Completed
    <3>2. "paused" \in Phases
      BY DEF Phases
    <3>3. CyclesFit(SetPhase(cs, "paused"), new, n, answered)
      BY <1>2, <3>1, <3>2, PhaseFollows
    <3> QED
      BY <1>2, <3>1, <3>3
  <2>3. CASE new \notin Completed /\ new # "WAITING_FOR_CUSTOMER"
    <3>1. cs2 = SetPhase(cs, "running") /\ PhaseOf(new) = "running"
      BY <1>2, <2>3 DEF ApplyStatusChange, PhaseOf
    <3>2. "running" \in Phases
      BY DEF Phases
    <3>3. CyclesFit(SetPhase(cs, "running"), new, n, answered)
      BY <1>2, <3>1, <3>2, PhaseFollows
    <3> QED
      BY <1>2, <3>1, <3>3
  <2> QED
    BY <2>1, <2>2, <2>3
<1>3. CASE old # new /\ old = "RESOLVED" /\ new = "CLOSED"
  <2>1. ActiveCycle(cs) = 0 /\ DOMAIN cs = 1..Len(cs) /\ Len(cs) = n + 1
    <3>1. ActiveCycle(cs) = 0
      BY <1>3, ActiveIsLast DEF Completed
    <3> QED
      BY <3>1 DEF CyclesFit
  <2>2. SetPhase(cs, "completed") = cs
    BY <2>1 DEF SetPhase, CyclesFit
  <2>3. cs2 = cs /\ PhaseOf(new) = PhaseOf(old)
    BY <1>3, <2>2 DEF ApplyStatusChange, Completed, PhaseOf
  <2> QED
    BY <1>3, <2>3 DEF CyclesFit
<1>4. CASE old \in Completed /\ new = "IN_PROGRESS"
  <2>1. ActiveCycle(cs) = 0 /\ DOMAIN cs = 1..Len(cs) /\ Len(cs) = n + 1
    <3>1. ActiveCycle(cs) = 0
      BY <1>4, ActiveIsLast
    <3> QED
      BY <3>1 DEF CyclesFit
  <2>2. SetPhase(cs, "running") = cs
    BY <2>1 DEF SetPhase, CyclesFit
  <2>3. cs2 = Append(cs, NewCycle(answered))
    BY <1>0, <1>4, <2>2 DEF ApplyStatusChange
  <2> DEFINE c == NewCycle(answered)
  <2>4. c \in CycleRow /\ c.phase = "running" /\ c.answered = answered
    BY DEF NewCycle, CycleRow, Phases
  <2> HIDE DEF c
  <2>5. cs \in Seq(CycleRow) /\ cs2 = Append(cs, c)
    BY <2>3 DEF c, CyclesFit
  <2> HIDE DEF cs2
  <2>6. /\ cs2 \in Seq(CycleRow) /\ Len(cs2) = n + 2
        /\ cs2[n + 2] = c /\ \A i \in 1..(n + 1) : cs2[i] = cs[i]
    BY <2>1, <2>4, <2>5
  <2>7. \A i \in 1..(n + 1) : cs[i].phase = "completed" /\ cs[i].answered = answered
    <3>1. PhaseOf(old) = "completed"
      BY <1>4, PhaseCompleted
    <3> QED
      BY <2>1, <3>1 DEF CyclesFit
  <2>8. PhaseOf(new) = "running"
    BY <1>4 DEF PhaseOf, Completed
  <2>9. CyclesFit(cs2, new, n + 1, answered)
    BY <2>4, <2>6, <2>7, <2>8 DEF CyclesFit
  <2> QED
    BY <1>4, <2>9 DEF cs2
<1>5. \/ old = new \/ old \notin Completed
      \/ old = "RESOLVED" /\ new = "CLOSED"
      \/ old \in Completed /\ new = "IN_PROGRESS"
  BY DEF ValidTransition, ALLOWED_TRANSITIONS, Completed, Statuses
<1> QED
  BY <1>1, <1>2, <1>3, <1>4, <1>5

\* The first public answer of the staff, in the only cycle.
LEMMA CyclesAnswered ==
  ASSUME NEW cs, NEW status, NEW n \in Nat, NEW now \in Nat, NEW answered \in Nat,
         CyclesFit(cs, status, n, answered), answered = 0 => n = 0 /\ status \notin Completed
  PROVE  CyclesFit(RecordFirstPublicResponse(cs, now), status, n,
                   IF answered = 0 THEN now ELSE answered)
<1> DEFINE cs2 == RecordFirstPublicResponse(cs, now)
<1>1. DOMAIN cs = 1..(n + 1) /\ Len(cs) = n + 1 /\ cs \in Seq(CycleRow)
  BY DEF CyclesFit
<1>2. CASE answered # 0
  <2>1. cs2 = cs
    BY <1>1, <1>2 DEF RecordFirstPublicResponse, CyclesFit
  <2> QED
    BY <1>2, <2>1
<1>3. CASE answered = 0
  <2>1. n = 0 /\ ActiveCycle(cs) = 1 /\ cs[1].answered = 0 /\ cs[1] \in CycleRow
    <3>1. n = 0 /\ ActiveCycle(cs) = n + 1
      BY <1>3, ActiveIsLast
    <3> QED
      BY <1>1, <1>3, <3>1 DEF CyclesFit
  <2>2. cs2 = [i \in 1..1 |-> IF i = 1 /\ cs[i].answered = 0
                              THEN [cs[i] EXCEPT !.answered = now] ELSE cs[i]]
    BY <1>1, <2>1 DEF RecordFirstPublicResponse
  <2>3. cs2[1] = [cs[1] EXCEPT !.answered = now] /\ DOMAIN cs2 = 1..1
    BY <2>1, <2>2
  <2>4. cs2[1].answered = now /\ cs2[1].phase = cs[1].phase
    BY <2>1, <2>3 DEF CycleRow
  <2>5. cs2 \in Seq(CycleRow)
    BY <1>1, RecordFirstType
  <2> HIDE DEF cs2
  <2>6. Len(cs2) = 1
    BY <2>3, <2>5
  <2> QED
    BY <1>1, <1>3, <2>1, <2>4, <2>5, <2>6 DEF CyclesFit, cs2
<1> QED
  BY <1>2, <1>3

-----------------------------------------------------------------------------
(* The timestamps of a status.                                             *)

StampsFit(row) ==
  /\ row.resolvedAt > 0 <=> row.status \in Completed
  /\ row.closedAt > 0 <=> row.status = "CLOSED"
  /\ row.closedAt > 0 => row.closedAt >= row.resolvedAt

\* A ticket is closed only after it was resolved.
LEMMA PatchedStamps ==
  ASSUME NEW row \in TicketRow, NEW r \in PatchRequests, NEW now \in Nat, now > 0,
         row.resolvedAt <= now, row.status \in Statuses, StampsFit(row),
         ValidTransition(row.status, Wanted(row, r).status, r.reason)
  PROVE  StampsFit(Patched(row, r, now))
<1> DEFINE w == Wanted(row, r)
           st == Stamped(w, row.status, now)
           new == Patched(row, r, now)
<1>1. /\ w \in TicketRow /\ w.resolvedAt = row.resolvedAt /\ w.closedAt = row.closedAt
  <2>1. /\ OrKeep(r.status, row.status) \in Statuses \cup {Null}
        /\ OrKeep(r.priority, row.priority) \in Priorities \cup {Null}
        /\ OrKeep(r.assignee, row.assignee) \in Assignees
    BY DEF OrKeep, PatchRequests, TicketRow
  <2> QED
    BY <2>1 DEF Wanted, TicketRow
<1>2. /\ new.status = w.status
      /\ new.resolvedAt = st.resolvedAt /\ new.closedAt = st.closedAt
  BY PatchedColumns
<1>3. ValidTransition(row.status, w.status, r.reason)
  OBVIOUS
<1> HIDE DEF w, new
<1>4. CASE w.status = row.status
  <2>1. st = w
    BY <1>4 DEF Stamped
  <2> QED
    BY <1>1, <1>2, <1>4, <2>1 DEF StampsFit, new
<1>5. CASE w.status # row.status /\ w.status = "RESOLVED"
  <2>1. st = [w EXCEPT !.resolvedAt = now, !.closedAt = 0]
    BY <1>5 DEF Stamped, Completed
  <2>2. st.resolvedAt = now /\ st.closedAt = 0
    BY <1>1, <2>1 DEF TicketRow
  <2> QED
    BY <1>2, <1>5, <2>2 DEF StampsFit, Completed, new
<1>6. CASE w.status # row.status /\ w.status = "CLOSED"
  <2>1. st = [w EXCEPT !.closedAt = now]
    BY <1>6 DEF Stamped, Completed
  <2>2. st.resolvedAt = row.resolvedAt /\ st.closedAt = now
    BY <1>1, <2>1 DEF TicketRow
  <2>3. row.status = "RESOLVED"
    BY <1>3, <1>6 DEF ValidTransition, ALLOWED_TRANSITIONS, Statuses
  <2> QED
    BY <1>2, <1>6, <2>2, <2>3 DEF StampsFit, Completed, new
<1>7. CASE w.status # row.status /\ w.status \notin Completed
  <2>1. st.resolvedAt = 0 /\ st.closedAt = 0
    <3>1. CASE row.status \in Completed
      <4>1. st = [w EXCEPT !.resolvedAt = 0, !.closedAt = 0]
        BY <1>7, <3>1 DEF Stamped, Completed
      <4> QED
        BY <1>1, <4>1 DEF TicketRow
    <3>2. CASE row.status \notin Completed
      <4>1. st = w
        BY <1>7, <3>2 DEF Stamped, Completed
      <4>2. row.resolvedAt \in Nat /\ row.closedAt \in Nat
        BY DEF TicketRow
      <4> QED
        BY <1>1, <3>2, <4>1, <4>2 DEF StampsFit, Completed
    <3> QED
      BY <3>1, <3>2
  <2> QED
    BY <1>2, <1>7, <2>1 DEF StampsFit, Completed, new
<1> QED
  BY <1>4, <1>5, <1>6, <1>7 DEF Completed

\* A reply that takes a ticket back takes its stamps away.
LEMMA RepliedStamps ==
  ASSUME NEW row \in TicketRow, NEW r \in MessageRequests, NEW now \in Nat, StampsFit(row)
  PROVE  StampsFit(Replied(row, r, now))
<1> DEFINE new == Replied(row, r, now)
<1>1. /\ new.status = IF ReopensOnReply(row, r) THEN "IN_PROGRESS" ELSE row.status
      /\ new.resolvedAt = IF ReopensOnReply(row, r) THEN 0 ELSE row.resolvedAt
      /\ new.closedAt = IF ReopensOnReply(row, r) THEN 0 ELSE row.closedAt
  BY RepliedColumns
<1> HIDE DEF new
<1> QED
  BY <1>1 DEF StampsFit, Completed, new

-----------------------------------------------------------------------------
(* The whole history.                                                      *)

\* What the trail, the thread, the cycles and the deliveries of a ticket say of it.
Accounted(t) ==
  Exists(t) =>
    /\ ticket[t].status \in Statuses /\ ticket[t].customer \in Customers
    /\ ticket[t].assignee \in Staff \cup {Nobody}
    /\ TrailExplainsColumns(t)
    /\ StampsFit(ticket[t])
    /\ CyclesFit(cycles[t], ticket[t].status, Cardinality(Reopenings(events[t])),
                 ticket[t].firstResponse)
    /\ ticket[t].firstResponse = 0 => Cardinality(Reopenings(events[t])) = 0
    /\ ticket[t].firstResponse > 0 <=> ToldPublicly(t)
    /\ DeliveriesFollowThread(t)

HistoryInv == HistoryBase /\ ResolutionWasExplained /\ \A t \in Tickets : Accounted(t)

\* A history that nobody touches accounts for its ticket.
LEMMA AccountKept ==
  ASSUME NEW t, Accounted(t),
         UNCHANGED <<ticket[t], messages[t], events[t], cycles[t], deliveries[t]>>
  PROVE  Accounted(t)'
BY DEF Accounted, Exists, TrailExplainsColumns, ToldPublicly, DeliveriesFollowThread

\* A creation writes a history that accounts for its ticket.
LEMMA CreateAccounts ==
  ASSUME HistoryInv, NEW t \in Tickets, NEW r \in CreateRequests, NEW now \in Nat, NEW at \in Nat,
         ~Exists(t), OpensAs(t, r, now, at)
  PROVE  Accounted(t)'
<1> DEFINE new == [NoTicket EXCEPT !.status = "OPEN", !.priority = r.priority,
                                   !.customer = r.customer, !.version = 1,
                                   !.updated = now, !.publicUpdated = now]
           e == Event("status", Null, "OPEN", "PUBLIC", at)
           c == NewCycle(0)
<1>0. TypeOK /\ BlankBefore
  BY DEF HistoryInv, HistoryBase, LockInv
<1>1. /\ messages[t] = << >> /\ events[t] = << >> /\ cycles[t] = << >> /\ deliveries[t] = {}
  BY <1>0 DEF BlankBefore
<1>2. /\ ticket'[t] = new /\ cycles'[t] = Append(cycles[t], c) /\ events'[t] = Append(events[t], e)
      /\ messages'[t] = messages[t] /\ deliveries'[t] = deliveries[t]
  BY <1>0 DEF OpensAs, TypeOK
<1>3. /\ new.status = "OPEN" /\ new.priority = r.priority /\ new.assignee = Nobody
      /\ new.customer = r.customer /\ new.firstResponse = 0
      /\ new.resolvedAt = 0 /\ new.closedAt = 0
  BY OpenedColumns
<1>4. e \in EventRow /\ e.field = "status" /\ e.old = Null /\ e.new = "OPEN"
  BY DEF Event, EventRow, Statuses, Visibilities
<1>5. c \in CycleRow /\ c.phase = "running" /\ c.answered = 0
  BY DEF NewCycle, CycleRow, Phases
<1> HIDE DEF new, e, c
<1>6. /\ events'[t] = <<e>> /\ events[t] \in Seq(EventRow)
      /\ cycles'[t] = <<c>> /\ <<c>> \in Seq(CycleRow) /\ Len(<<c>>) = 1 /\ <<c>>[1] = c
  BY <1>1, <1>2, <1>5
<1>7. TrailExplainsColumns(t)'
  <2>1. DOMAIN <<e>> = {1} /\ <<e>>[1] = e
    OBVIOUS
  <2>2. RowsOf(<<e>>, "status") = {1} /\ RowsOf(<<e>>, "priority") = {}
        /\ RowsOf(<<e>>, "assignee") = {}
    BY <1>4, <2>1 DEF RowsOf
  <2>3. /\ TrailExplains(<<e>>, "status", "OPEN")
        /\ TrailExplains(<<e>>, "priority", new.priority)
        /\ TrailExplains(<<e>>, "assignee", new.assignee)
    BY <1>4, <2>1, <2>2 DEF TrailExplains, Null
  <2> QED
    BY <1>2, <1>3, <1>6, <2>3 DEF TrailExplainsColumns
<1>8. Cardinality(Reopenings(<<e>>)) = 0
  <2>1. DOMAIN <<e>> = {1} /\ <<e>>[1] = e
    OBVIOUS
  <2>2. Reopenings(<<e>>) = {}
    BY <1>4, <2>1 DEF Reopenings, RowsOf, Null, Completed
  <2> QED
    BY <2>2, FS_EmptySet
<1>9. CyclesFit(<<c>>, "OPEN", 0, 0)
  <2>1. PhaseOf("OPEN") = "running"
    BY DEF PhaseOf, Completed
  <2>2. \A i \in 1..Len(<<c>>) : <<c>>[i] = c
    BY <1>6
  <2> QED
    BY <1>5, <1>6, <2>1, <2>2 DEF CyclesFit
<1>10. ToldPublicly(t)' = FALSE
  BY <1>1, <1>2 DEF ToldPublicly
<1>11. DeliveriesFollowThread(t)'
  BY <1>1, <1>2 DEF DeliveriesFollowThread
<1>12. new.customer \in Customers
  BY <1>3 DEF CreateRequests
<1>13. StampsFit(new)
  BY <1>3 DEF StampsFit, Completed
<1> QED
  BY <1>2, <1>3, <1>6, <1>7, <1>8, <1>9, <1>10, <1>11, <1>12, <1>13 DEF Accounted, Statuses

\* So does a PATCH, along the policy.
LEMMA PatchAccounts ==
  ASSUME HistoryInv, ResolutionWasExplained',
         NEW t \in Tickets, NEW r \in PatchRequests, NEW old \in TicketRow,
         NEW now \in Nat, NEW at \in Nat, now > 0, old.updated <= now,
         old = ticket[t], old.version > 0,
         ValidTransition(old.status, Wanted(old, r).status, r.reason),
         Wanted(old, r).assignee \in Staff \cup {Nobody},
         PatchesTo(t, old, Patched(old, r, now), now, at)
  PROVE  Accounted(t)'
<1>0. TypeOK /\ StampsAreLate /\ Accounted(t) /\ Exists(t)
  BY DEF HistoryInv, HistoryBase, LockInv, Exists
<1>1. PICK new \in TicketRow : new = Patched(old, r, now)
  BY PatchedRow
<1>2. PICK s \in Seq(EventRow), n \in Nat : s = events[t] /\ n = Cardinality(Reopenings(s))
  BY <1>0, ReopeningsFinite DEF TypeOK
<1>3. PICK cs, cs2, s2 :
        /\ cs = cycles[t] /\ cs2 = cycles'[t] /\ s2 = events'[t]
  OBVIOUS
<1>4. /\ ticket'[t] = new /\ messages'[t] = messages[t] /\ deliveries'[t] = deliveries[t]
      /\ s2 = s \o ChangeEvents(old, new, at)
      /\ cs2 = ApplyStatusChange(cs, old.status, new.status, OrNow(old.firstResponse, now))
  BY <1>0, <1>1, <1>2, <1>3 DEF PatchesTo, TypeOK
<1>5. /\ new.status = Wanted(old, r).status /\ new.assignee = Wanted(old, r).assignee
      /\ new.customer = old.customer /\ new.firstResponse = old.firstResponse
  BY <1>1, PatchedColumns
<1>6. old.firstResponse \in Nat /\ old.status \in Statuses
  BY <1>0 DEF TicketRow, Accounted
<1>7. new.status \in Statuses
  <2>1. Wanted(old, r).status \in Statuses \cup {old.status}
    BY PatchedRow
  <2> QED
    BY <1>5, <1>6, <2>1
<1>8. TrailExplainsColumns(t)'
  <2>1. /\ TrailExplains(s, "status", old.status)
        /\ TrailExplains(s, "priority", old.priority)
        /\ TrailExplains(s, "assignee", old.assignee)
    BY <1>0, <1>2 DEF Accounted, TrailExplainsColumns
  <2>2. /\ TrailExplains(s2, "status", new.status)
        /\ TrailExplains(s2, "priority", new.priority)
        /\ TrailExplains(s2, "assignee", new.assignee)
    BY <1>4, <2>1, TrailFollows
  <2>3. events'[t] = s2 /\ ticket'[t] = new
    BY <1>3, <1>4
  <2> QED
    BY <2>2, <2>3 DEF TrailExplainsColumns
<1>9. StampsFit(new)
  <2>1. old.resolvedAt <= now
    <3>1. old.resolvedAt <= old.updated
      BY <1>0 DEF StampsAreLate
    <3>2. old.resolvedAt \in Nat /\ old.updated \in Nat
      BY DEF TicketRow
    <3>3. \A x, y, z \in Nat : x <= y /\ y <= z => x <= z
      OBVIOUS
    <3> QED
      BY <3>1, <3>2, <3>3
  <2>2. StampsFit(old)
    BY <1>0 DEF Accounted
  <2> QED
    BY <1>1, <1>6, <2>1, <2>2, PatchedStamps
<1>10. CyclesFit(cs, old.status, n, old.firstResponse)
  BY <1>0, <1>2, <1>3 DEF Accounted
<1>11. old.status \in Completed => old.firstResponse > 0
  BY <1>0 DEF HistoryInv, ResolutionWasExplained, Accounted
<1>12. PICK n2 \in Nat :
         /\ n2 = n + (IF old.status \in Completed /\ new.status = "IN_PROGRESS" THEN 1 ELSE 0)
         /\ Cardinality(Reopenings(s2)) = n2
  BY <1>2, <1>4, ReopeningsFollow
<1>13. CyclesFit(cs2, new.status, n2, new.firstResponse)
  <2>1. ValidTransition(old.status, new.status, r.reason)
    BY <1>5
  <2>2. CASE old.firstResponse > 0
    <3>1. OrNow(old.firstResponse, now) = old.firstResponse
      BY <1>6, <2>2 DEF OrNow
    <3> QED
      BY <1>4, <1>5, <1>6, <1>7, <1>10, <1>12, <2>1, <3>1, CyclesFollow
  <2>3. CASE old.firstResponse = 0
    <3>1. old.status \notin Completed
      BY <1>11, <2>3
    <3>2. cs2 = ApplyStatusChange(cs, old.status, new.status, 0)
      BY <1>4, <3>1 DEF ApplyStatusChange
    <3> QED
      BY <1>5, <1>6, <1>7, <1>10, <1>12, <2>1, <2>3, <3>2, CyclesFollow
  <2> QED
    BY <1>6, <2>2, <2>3
<1>14. new.firstResponse = 0 => n2 = 0
  <2>1. old.firstResponse = 0 => n = 0
    BY <1>0, <1>2 DEF Accounted
  <2> QED
    BY <1>5, <1>6, <1>11, <1>12, <2>1
<1>15. new.firstResponse > 0 <=> ToldPublicly(t)'
  BY <1>0, <1>4, <1>5 DEF Accounted, ToldPublicly
<1>16. DeliveriesFollowThread(t)'
  BY <1>0, <1>4 DEF Accounted, DeliveriesFollowThread
<1>17. new.customer \in Customers /\ new.assignee \in Staff \cup {Nobody}
  BY <1>0, <1>5 DEF Accounted
<1> QED
  BY <1>3, <1>4, <1>7, <1>8, <1>9, <1>12, <1>13, <1>14, <1>15, <1>16, <1>17 DEF Accounted

\* A public reply of one side is announced to the other, a note to nobody.
LEMMA ReplyAnnounces ==
  ASSUME NEW row \in TicketRow, NEW r \in MessageRequests, NEW n \in Nat,
         row.customer \in Customers, row.assignee \in Staff \cup {Nobody},
         ~FromStaff(r) => row.customer = r.actor
  PROVE  IF r.visibility = "PUBLIC"
         THEN \E to : /\ NewDeliveries(row, r, n) = {[message |-> n, recipient |-> to]}
                      /\ to \in Customers <=> FromStaff(r)
         ELSE NewDeliveries(row, r, n) = {}
<1>1. CASE r.visibility # "PUBLIC"
  BY <1>1 DEF NewDeliveries
<1>2. CASE r.visibility = "PUBLIC"
  <2> DEFINE to == IF FromStaff(r) THEN row.customer ELSE row.assignee
  <2>1. Nobody \notin Customers
    BY SentinelAssumption DEF Users
  <2>2. to \in Customers <=> FromStaff(r)
    BY <2>1, RoleAssumption
  <2>3. to # r.actor
    <3>1. CASE FromStaff(r)
      BY <3>1, RoleAssumption DEF FromStaff
    <3>2. CASE ~FromStaff(r)
      BY <2>2, <3>2
    <3> QED
      BY <3>1, <3>2
  <2>4. NewDeliveries(row, r, n) = {[message |-> n, recipient |-> to]}
    BY <1>2, <2>3 DEF NewDeliveries
  <2> HIDE DEF to
  <2> QED
    BY <1>2, <2>2, <2>4
<1> QED
  BY <1>1, <1>2

\* A reply leaves the notifications that the thread accounts for.
LEMMA ReplyDelivers ==
  ASSUME HistoryInv, NEW t \in Tickets, NEW r \in MessageRequests, NEW old \in TicketRow,
         NEW m \in MessageRow, NEW now, NEW at,
         old = ticket[t], old.version > 0,
         m.sender = r.actor, m.visibility = r.visibility,
         ~FromStaff(r) => old.customer = r.actor,
         RepliesTo(t, old, Replied(old, r, now), r, m, now, at)
  PROVE  DeliveriesFollowThread(t)'
<1>0. TypeOK /\ Accounted(t) /\ Exists(t)
  BY DEF HistoryInv, HistoryBase, LockInv, Exists
<1>1. PICK ms \in Seq(MessageRow), ds \in SUBSET DeliveryRow, n \in Nat :
        ms = messages[t] /\ ds = deliveries[t] /\ n = Len(ms)
  <2>1. messages[t] \in Seq(MessageRow) /\ deliveries[t] \in SUBSET DeliveryRow
    BY <1>0 DEF TypeOK
  <2>2. Len(messages[t]) \in Nat
    BY <2>1
  <2> QED
    BY <2>1, <2>2
<1>2. PICK ms2, ds2, news : /\ ms2 = messages'[t] /\ ds2 = deliveries'[t]
                            /\ news = NewDeliveries(old, r, n + 1)
  OBVIOUS
<1>3. ms2 = Append(ms, m) /\ ds2 = ds \cup news
  BY <1>0, <1>1, <1>2 DEF RepliesTo, TypeOK
<1>4. /\ DOMAIN ms2 = 1..(n + 1) /\ ms2[n + 1] = m /\ DOMAIN ms = 1..n
      /\ \A i \in 1..n : ms2[i] = ms[i]
  BY <1>1, <1>3
<1>5. /\ {d.message : d \in ds} = {i \in 1..n : ms[i].visibility = "PUBLIC"}
      /\ \A d1, d2 \in ds : d1.message = d2.message => d1 = d2
      /\ \A d \in ds : d.recipient \in Customers <=> ms[d.message].sender \in Staff
  BY <1>0, <1>1, <1>4 DEF Accounted, DeliveriesFollowThread
<1>6. \A d \in ds : d.message \in 1..n /\ d.message # n + 1
  BY <1>5
<1>7. old.customer \in Customers /\ old.assignee \in Staff \cup {Nobody}
  BY <1>0 DEF Accounted
<1>8. /\ {d.message : d \in ds2} = {i \in 1..(n + 1) : ms2[i].visibility = "PUBLIC"}
      /\ \A d1, d2 \in ds2 : d1.message = d2.message => d1 = d2
      /\ \A d \in ds2 : d.recipient \in Customers <=> ms2[d.message].sender \in Staff
  <2>1. CASE r.visibility # "PUBLIC"
    <3>1. ds2 = ds
      BY <1>2, <1>3, <2>1 DEF NewDeliveries
    <3>2. {i \in 1..(n + 1) : ms2[i].visibility = "PUBLIC"} =
            {i \in 1..n : ms[i].visibility = "PUBLIC"}
      BY <1>4, <2>1
    <3>3. \A d \in ds : ms2[d.message] = ms[d.message]
      BY <1>4, <1>6
    <3> QED
      BY <1>5, <3>1, <3>2, <3>3
  <2>2. CASE r.visibility = "PUBLIC"
    <3>1. PICK to : /\ news = {[message |-> n + 1, recipient |-> to]}
                    /\ to \in Customers <=> FromStaff(r)
      BY <1>2, <1>7, <2>2, ReplyAnnounces
    <3>0. PICK d0 : d0 = [message |-> n + 1, recipient |-> to]
      OBVIOUS
    <3>2. d0.message = n + 1 /\ d0.recipient = to
      BY <3>0
    <3>3. ds2 = ds \cup {d0}
      BY <1>3, <3>0, <3>1
    <3>4. {i \in 1..(n + 1) : ms2[i].visibility = "PUBLIC"} =
            {i \in 1..n : ms[i].visibility = "PUBLIC"} \cup {n + 1}
      BY <1>4, <2>2
    <3>5. {d.message : d \in ds2} = {d.message : d \in ds} \cup {n + 1}
      BY <3>2, <3>3
    <3>6. \A d1, d2 \in ds2 : d1.message = d2.message => d1 = d2
      BY <1>5, <1>6, <3>2, <3>3
    <3>7. \A d \in ds2 : d.recipient \in Customers <=> ms2[d.message].sender \in Staff
      <4> TAKE d \in ds2
      <4>1. CASE d \in ds
        BY <1>4, <1>5, <1>6, <4>1
      <4>2. CASE d = d0
        BY <1>4, <3>1, <3>2, <4>2 DEF FromStaff
      <4> QED
        BY <3>3, <4>1, <4>2
    <3> QED
      BY <1>5, <3>4, <3>5, <3>6, <3>7
  <2> QED
    BY <2>1, <2>2
<1> QED
  BY <1>2, <1>4, <1>8 DEF DeliveriesFollowThread

\* A reply leaves a history that accounts for its ticket.
LEMMA ReplyAccounts ==
  ASSUME HistoryInv,
         NEW t \in Tickets, NEW r \in MessageRequests, NEW old \in TicketRow,
         NEW m \in MessageRow, NEW now \in Nat, NEW at \in Nat, now > 0,
         old = ticket[t], old.version > 0,
         m.sender = r.actor, m.visibility = r.visibility,
         ~FromStaff(r) => old.customer = r.actor /\ r.visibility = "PUBLIC",
         r.visibility = "PUBLIC" => old.status # "CLOSED",
         RepliesTo(t, old, Replied(old, r, now), r, m, now, at)
  PROVE  Accounted(t)'
<1>0. TypeOK /\ Accounted(t) /\ Exists(t)
  BY DEF HistoryInv, HistoryBase, LockInv, Exists
<1>1. PICK new \in TicketRow : new = Replied(old, r, now)
  BY RepliedRow
<1>2. PICK s \in Seq(EventRow), n \in Nat : s = events[t] /\ n = Cardinality(Reopenings(s))
  BY <1>0, ReopeningsFinite DEF TypeOK
<1>3. PICK cs, cs2, s1, s2, e :
        /\ cs = cycles[t] /\ cs2 = cycles'[t] /\ s2 = events'[t]
        /\ s1 = s \o ChangeEvents(old, new, at)
        /\ e = Event("message", Null, Null, r.visibility, at)
  OBVIOUS
<1>4. /\ ticket'[t] = new /\ messages'[t] = Append(messages[t], m)
      /\ s2 = Append(s1, e)
      /\ cs2 = RepliedCycles(cs, old, r, now)
  BY <1>0, <1>1, <1>2, <1>3 DEF RepliesTo, TypeOK
<1>5. /\ new.status = IF ReopensOnReply(old, r) THEN "IN_PROGRESS" ELSE old.status
      /\ new.assignee = old.assignee /\ new.customer = old.customer
      /\ new.firstResponse = IF r.visibility = "PUBLIC" /\ FromStaff(r) /\ old.firstResponse = 0
                             THEN now ELSE old.firstResponse
  BY <1>1, RepliedColumns
<1>6. old.firstResponse \in Nat /\ old.status \in Statuses /\ new.status \in Statuses
  BY <1>0, <1>5 DEF TicketRow, Accounted, Statuses
<1>7. e \in EventRow /\ e.field = "message"
  BY <1>3 DEF Event, EventRow, MessageRequests
<1>8. s1 \in Seq(EventRow) /\ TrailExplainsColumns(t)'
  <2>1. /\ TrailExplains(s, "status", old.status)
        /\ TrailExplains(s, "priority", old.priority)
        /\ TrailExplains(s, "assignee", old.assignee)
    BY <1>0, <1>2 DEF Accounted, TrailExplainsColumns
  <2>2. /\ s1 \in Seq(EventRow)
        /\ TrailExplains(s1, "status", new.status)
        /\ TrailExplains(s1, "priority", new.priority)
        /\ TrailExplains(s1, "assignee", new.assignee)
    BY <1>3, <2>1, TrailFollows
  <2>3. /\ TrailExplains(s2, "status", new.status)
        /\ TrailExplains(s2, "priority", new.priority)
        /\ TrailExplains(s2, "assignee", new.assignee)
    BY <1>4, <1>7, <2>2, TrailAppend
  <2>4. events'[t] = s2 /\ ticket'[t] = new
    BY <1>3, <1>4
  <2> QED
    BY <2>2, <2>3, <2>4 DEF TrailExplainsColumns
<1>9. StampsFit(new)
  BY <1>0, <1>1, RepliedStamps DEF Accounted
<1>10. CyclesFit(cs, old.status, n, old.firstResponse)
  BY <1>0, <1>2, <1>3 DEF Accounted
<1>11. old.status \in Completed => old.firstResponse > 0
  BY <1>0 DEF HistoryInv, ResolutionWasExplained, Accounted
<1>12. PICK n2 \in Nat :
         /\ n2 = n + (IF old.status \in Completed /\ new.status = "IN_PROGRESS" THEN 1 ELSE 0)
         /\ Cardinality(Reopenings(s2)) = n2
  <2>1. Cardinality(Reopenings(s1)) =
          n + (IF old.status \in Completed /\ new.status = "IN_PROGRESS" THEN 1 ELSE 0)
    BY <1>2, <1>3, ReopeningsFollow
  <2>2. Cardinality(Reopenings(s2)) = Cardinality(Reopenings(s1)) + 0
    BY <1>4, <1>7, <1>8, ReopeningsAppend DEF Reopens
  <2> QED
    BY <2>1, <2>2
<1>13. CyclesFit(cs2, new.status, n2, new.firstResponse)
  <2>1. CASE r.visibility = "PUBLIC" /\ FromStaff(r)
    <3>1. cs2 = RecordFirstPublicResponse(cs, now) /\ new.status = old.status
      BY <1>4, <1>5, <2>1 DEF RepliedCycles, ReopensOnReply
    <3>2. n2 = n
      BY <1>12, <3>1 DEF Completed
    <3>3. old.firstResponse = 0 => n = 0 /\ old.status \notin Completed
      BY <1>0, <1>2, <1>11 DEF Accounted
    <3>4. new.firstResponse = IF old.firstResponse = 0 THEN now ELSE old.firstResponse
      BY <1>5, <2>1
    <3> QED
      BY <1>6, <1>10, <3>1, <3>2, <3>3, <3>4, CyclesAnswered
  <2>2. CASE ~(r.visibility = "PUBLIC" /\ FromStaff(r)) /\ ReopensOnReply(old, r)
    <3>1. /\ cs2 = ApplyStatusChange(cs, old.status, "IN_PROGRESS", OrNow(old.firstResponse, now))
          /\ new.status = "IN_PROGRESS" /\ new.firstResponse = old.firstResponse
      BY <1>4, <1>5, <2>2 DEF RepliedCycles
    <3>2. ValidTransition(old.status, "IN_PROGRESS", TRUE) /\ "IN_PROGRESS" \in Statuses
      BY <2>2 DEF ReopensOnReply, ValidTransition, ALLOWED_TRANSITIONS, Statuses
    <3>a. n2 = n + (IF old.status \in Completed /\ "IN_PROGRESS" = "IN_PROGRESS" THEN 1 ELSE 0)
      BY <1>12, <3>1
    <3>3. CASE old.firstResponse > 0
      <4>1. OrNow(old.firstResponse, now) = old.firstResponse
        BY <1>6, <3>3 DEF OrNow
      <4>2. CyclesFit(ApplyStatusChange(cs, old.status, "IN_PROGRESS", old.firstResponse),
                      "IN_PROGRESS", n2, old.firstResponse)
        BY <1>6, <1>10, <3>2, <3>a, CyclesFollow
      <4> QED
        BY <3>1, <4>1, <4>2
    <3>4. CASE old.firstResponse = 0
      <4>1. old.status \notin Completed
        BY <1>11, <3>4
      <4>2. cs2 = ApplyStatusChange(cs, old.status, "IN_PROGRESS", 0)
        BY <3>1, <4>1 DEF ApplyStatusChange
      <4>3. CyclesFit(ApplyStatusChange(cs, old.status, "IN_PROGRESS", 0), "IN_PROGRESS", n2, 0)
        BY <1>10, <1>6, <3>2, <3>4, <3>a, CyclesFollow
      <4> QED
        BY <3>1, <3>4, <4>2, <4>3
    <3> QED
      BY <1>6, <3>3, <3>4
  <2>3. CASE ~(r.visibility = "PUBLIC" /\ FromStaff(r)) /\ ~ReopensOnReply(old, r)
    <3>1. cs2 = cs /\ new.status = old.status /\ new.firstResponse = old.firstResponse
      BY <1>4, <1>5, <2>3 DEF RepliedCycles
    <3>2. n2 = n
      BY <1>12, <3>1 DEF Completed
    <3> QED
      BY <1>10, <3>1, <3>2
  <2> QED
    BY <2>1, <2>2, <2>3
<1>14. new.firstResponse = 0 => n2 = 0
  <2>1. old.firstResponse = 0 => n = 0
    BY <1>0, <1>2 DEF Accounted
  <2> QED
    BY <1>5, <1>6, <1>11, <1>12, <2>1
<1>15. new.firstResponse > 0 <=> ToldPublicly(t)'
  <2>0. messages[t] \in Seq(MessageRow) /\ Len(messages[t]) \in Nat
    BY <1>0 DEF TypeOK
  <2>1. PICK ms \in Seq(MessageRow), k \in Nat : ms = messages[t] /\ k = Len(ms)
    BY <2>0
  <2>2. /\ DOMAIN messages'[t] = 1..(k + 1) /\ messages'[t][k + 1] = m
        /\ DOMAIN messages[t] = 1..k /\ \A i \in 1..k : messages'[t][i] = messages[t][i]
    BY <1>4, <2>1
  <2>3. ToldPublicly(t)' <=> ToldPublicly(t) \/ (m.visibility = "PUBLIC" /\ m.sender \in Staff)
    <3>1. ASSUME ToldPublicly(t)
          PROVE  ToldPublicly(t)'
      BY <2>1, <2>2, <3>1 DEF ToldPublicly
    <3>2. ASSUME m.visibility = "PUBLIC", m.sender \in Staff
          PROVE  ToldPublicly(t)'
      <4>1. k + 1 \in 1..(k + 1)
        OBVIOUS
      <4> QED
        BY <2>2, <3>2, <4>1 DEF ToldPublicly
    <3>3. ASSUME ToldPublicly(t)', ~(m.visibility = "PUBLIC" /\ m.sender \in Staff)
          PROVE  ToldPublicly(t)
      <4>1. PICK i \in 1..(k + 1) :
              messages'[t][i].visibility = "PUBLIC" /\ messages'[t][i].sender \in Staff
        BY <2>2, <3>3 DEF ToldPublicly
      <4>2. i # k + 1
        BY <2>2, <3>3, <4>1
      <4>3. i \in 1..k
        BY <4>2
      <4> QED
        BY <2>2, <4>1, <4>3 DEF ToldPublicly
    <3> QED
      BY <3>1, <3>2, <3>3
  <2>4. old.firstResponse > 0 <=> ToldPublicly(t)
    BY <1>0 DEF Accounted
  <2> QED
    BY <1>5, <1>6, <2>3, <2>4 DEF FromStaff
<1>16. DeliveriesFollowThread(t)'
  BY ReplyDelivers
<1>17. new.customer \in Customers /\ new.assignee \in Staff \cup {Nobody}
  BY <1>0, <1>5 DEF Accounted
<1> QED
  BY <1>3, <1>4, <1>6, <1>8, <1>9, <1>12, <1>13, <1>14, <1>15, <1>16, <1>17 DEF Accounted

\* Every step of the program keeps every history accounted for.
LEMMA AccountsInductive ==
  HistoryInv /\ ResolutionWasExplained' /\ [Next]_vars => (\A t \in Tickets : Accounted(t))'
<1> SUFFICES ASSUME HistoryInv, ResolutionWasExplained', [Next]_vars, NEW u \in Tickets
             PROVE  Accounted(u)'
  OBVIOUS
<1>0. TypeOK /\ LockInv /\ StampsAreLate /\ Accounted(u)
  BY DEF HistoryInv, HistoryBase, LockInv
<1>1. ASSUME NEW p \in Procs, CommitCreate(p) PROVE Accounted(u)'
  <2>1. PICK t \in Tickets, r \in CreateRequests, now \in Nat, at \in Nat :
          ~Exists(t) /\ OpensAs(t, r, now, at)
    BY <1>0, <1>1, CreateWrites
  <2>2. CASE u = t
    BY <2>1, <2>2, CreateAccounts
  <2>3. CASE u # t
    <3>1. UNCHANGED <<ticket[u], messages[u], events[u], cycles[u], deliveries[u]>>
      BY <1>0, <2>1, <2>3 DEF OpensAs, TypeOK
    <3> QED
      BY <1>0, <3>1, AccountKept
  <2> QED
    BY <2>2, <2>3
<1>2. ASSUME NEW p \in Procs, CommitPatch(p) PROVE Accounted(u)'
  <2>1. PICK t \in Tickets, r \in PatchRequests, old \in TicketRow, now \in Nat, at \in Nat :
          /\ now = tx[p].now /\ tx[p].pc = "ready" /\ tx[p].req.kind # "create"
          /\ t = tx[p].req.ticket
          /\ old = ticket[t] /\ old.version > 0
          /\ ValidTransition(old.status, Wanted(old, r).status, r.reason)
          /\ Wanted(old, r).assignee \in Staff \cup {Nobody}
          /\ PatchesTo(t, old, Patched(old, r, now), now, at)
    BY <1>0, <1>2, PatchWrites
  <2>2. now > 0 /\ old.updated <= now
    BY <1>0, <2>1 DEF StampsAreLate
  <2>3. CASE u = t
    BY <2>1, <2>2, <2>3, PatchAccounts
  <2>4. CASE u # t
    <3>1. UNCHANGED <<ticket[u], messages[u], events[u], cycles[u], deliveries[u]>>
      BY <1>0, <2>1, <2>4 DEF PatchesTo, TypeOK
    <3> QED
      BY <1>0, <3>1, AccountKept
  <2> QED
    BY <2>3, <2>4
<1>3. ASSUME NEW p \in Procs, CommitMessage(p) PROVE Accounted(u)'
  <2>1. PICK t \in Tickets, r \in MessageRequests, old \in TicketRow, now \in Nat, at \in Nat,
             m \in MessageRow :
          /\ now = tx[p].now /\ tx[p].pc = "ready" /\ tx[p].req.kind # "create"
          /\ t = tx[p].req.ticket
          /\ old = ticket[t] /\ old.version > 0
          /\ m.sender = r.actor /\ m.visibility = r.visibility
          /\ ~FromStaff(r) => old.customer = r.actor /\ r.visibility = "PUBLIC"
          /\ r.visibility = "PUBLIC" => old.status # "CLOSED"
          /\ RepliesTo(t, old, Replied(old, r, now), r, m, now, at)
    BY <1>0, <1>3, MessageWrites
  <2>2. now > 0
    BY <1>0, <2>1 DEF StampsAreLate
  <2>3. CASE u = t
    BY <2>1, <2>2, <2>3, ReplyAccounts
  <2>4. CASE u # t
    <3>1. UNCHANGED <<ticket[u], messages[u], events[u], cycles[u], deliveries[u]>>
      BY <1>0, <2>1, <2>4 DEF RepliesTo, TypeOK
    <3> QED
      BY <1>0, <3>1, AccountKept
  <2> QED
    BY <2>3, <2>4
<1>4. CASE ~\E p \in Procs : CommitCreate(p) \/ CommitPatch(p) \/ CommitMessage(p)
  <2>1. UNCHANGED <<ticket, messages, events, cycles, deliveries>>
    BY <1>4, HistoryStays
  <2>2. UNCHANGED <<ticket[u], messages[u], events[u], cycles[u], deliveries[u]>>
    BY <2>1
  <2> QED
    BY <1>0, <2>2, AccountKept
<1> QED
  BY <1>1, <1>2, <1>3, <1>4

\* The invariant holds in every reachable state.
LEMMA HistoryInvHolds == Spec => []HistoryInv
<1>1. Init => \A t \in Tickets : Accounted(t)
  BY DEF Init, Accounted, Exists, NoTicket
<1> QED
  BY <1>1, AccountsInductive, BaseHolds, ResolutionExplained, PTL DEF Spec, HistoryInv

\* A history that fits its status explains the ticket; one that is not there, too.
LEMMA HistoryExplains ==
  ASSUME HistoryInv, NEW t \in Tickets
  PROVE  /\ TrailExplainsColumns(t) /\ StampsFollowStatus(t) /\ CyclesFollowTrail(t)
         /\ ResponseFollowsThread(t) /\ DeliveriesFollowThread(t)
<1>0. TypeOK /\ BlankBefore /\ Accounted(t)
  BY DEF HistoryInv, HistoryBase, LockInv
<1>1. CASE Exists(t)
  <2>1. TrailExplainsColumns(t) /\ DeliveriesFollowThread(t)
    BY <1>0, <1>1 DEF Accounted
  <2>2. StampsFollowStatus(t)
    BY <1>0, <1>1 DEF Accounted, StampsFit, StampsFollowStatus
  <2>3. PICK cs, n, row : /\ cs = cycles[t] /\ n = Cardinality(Reopenings(events[t]))
                          /\ row = ticket[t]
    OBVIOUS
  <2>4. n \in Nat
    BY <1>0, <2>3, ReopeningsFinite DEF TypeOK
  <2>5. /\ cs \in Seq(CycleRow) /\ Len(cs) = n + 1
        /\ \A i \in 1..(Len(cs) - 1) : cs[i].phase = "completed"
        /\ cs[Len(cs)].phase = PhaseOf(row.status)
        /\ \A i \in 1..Len(cs) : cs[i].answered = row.firstResponse
    BY <1>0, <1>1, <2>3 DEF Accounted, CyclesFit
  <2>6. CyclesFollowTrail(t)
    BY <2>3, <2>4, <2>5 DEF CyclesFollowTrail, PhaseOf
  <2>7. ResponseFollowsThread(t)
    BY <1>0, <1>1, <2>3, <2>5 DEF Accounted, ResponseFollowsThread
  <2> QED
    BY <2>1, <2>2, <2>6, <2>7
<1>2. CASE ~Exists(t)
  <2>1. /\ ticket[t] = NoTicket /\ messages[t] = << >> /\ events[t] = << >>
        /\ cycles[t] = << >> /\ deliveries[t] = {}
    BY <1>0, <1>2 DEF BlankBefore
  <2>2. TrailExplainsColumns(t)
    BY <2>1 DEF TrailExplainsColumns, TrailExplains, RowsOf
  <2>3. StampsFollowStatus(t)
    BY <2>1 DEF StampsFollowStatus, NoTicket, Null, Completed
  <2>4. CyclesFollowTrail(t)
    BY <1>2, <2>1 DEF CyclesFollowTrail
  <2>5. ResponseFollowsThread(t)
    BY <2>1 DEF ResponseFollowsThread, ToldPublicly, NoTicket
  <2>6. DeliveriesFollowThread(t)
    BY <2>1 DEF DeliveriesFollowThread
  <2> QED
    BY <2>2, <2>3, <2>4, <2>5, <2>6
<1> QED
  BY <1>1, <1>2

\* For every set of requests and every interleaving: the columns, the timestamps, the SLA
\* cycles and the notifications of a ticket are those that its audit trail and its thread
\* account for.
THEOREM HistoryAccountsForTicket == Spec => []HistoryExplainsTicket
<1>1. HistoryInv => HistoryExplainsTicket
  BY HistoryExplains DEF HistoryExplainsTicket
<1> QED
  BY <1>1, HistoryInvHolds, PTL

=============================================================================
