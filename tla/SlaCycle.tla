------------------------------ MODULE SlaCycle ------------------------------
(***************************************************************************)
(* Service levels: the ticket_sla_cycles rows with their instants, written *)
(* by the ticket handlers (inside the transaction that moves, re-prices or *)
(* answers a ticket) and by the worker's breach scan, over a clock.        *)
(*                                                                         *)
(* A handler holds its ticket row FOR UPDATE, fixes its "now", reads the   *)
(* cycles without a lock, and writes them when it commits.  A worker reads *)
(* due cycles FOR UPDATE SKIP LOCKED, and the audit row that it inserts    *)
(* makes it share the ticket row (the foreign key of ticket_events).  So   *)
(* the two take their two locks in opposite orders, and PostgreSQL rolls   *)
(* one of them back when they meet.                                        *)
(*                                                                         *)
(* An instant is a number of ticks, 0 while the column is NULL; Second     *)
(* ticks make a second, the grain of resolution_paused_seconds.            *)
(***************************************************************************)
EXTENDS Naturals, Sequences, FiniteSets, TicketPolicy

CONSTANTS
  Tickets,
  Workers,           \* breach scans that may run at the same time
  OpenedAs,          \* priorities that tickets are opened with
  Requests,          \* what handlers are asked to do with a ticket
  Second,            \* ticks per second
  FirstTarget,       \* FIRST_RESPONSE_TARGETS, in ticks
  ResolutionTarget,  \* RESOLUTION_TARGETS, in ticks
  Limit,             \* rows per scan
  MaxClock,          \* bound: the last tick
  MaxRequests        \* bound: handlers ever begun

VARIABLES
  ticket,      \* tickets rows: status, priority, first_agent_response_at
  cycles,      \* ticket_sla_cycles rows of each ticket, by cycle_number
  audit,       \* sla.breached rows of ticket_events
  handler,     \* the handler that holds each ticket row
  scan,        \* the transaction of each worker
  clock,
  begun,       \* handlers begun so far
  past         \* history: what each ticket became, and when

vars == <<ticket, cycles, audit, handler, scan, clock, begun, past>>

Keep == "keep"      \* a field that a PATCH payload leaves out
NoTicket == [status |-> "null", priority |-> "null", firstResponse |-> 0]
Idle == [pc |-> "idle"]

PatchRequests == [kind: {"patch"}, status: Statuses \cup {Keep},
                  priority: Priorities \cup {Keep}]
ReplyRequests == [kind: {"staff_reply", "customer_reply"}]

ASSUME RequestAssumption ==
  Requests \subseteq PatchRequests \cup ReplyRequests /\ OpenedAs \subseteq Priorities
ASSUME TargetAssumption ==
  /\ Second \in Nat \ {0}
  /\ FirstTarget \in [Priorities -> Nat \ {0}]
  /\ ResolutionTarget \in [Priorities -> Nat \ {0}]
ASSUME BoundAssumption == Limit \in Nat \ {0} /\ MaxClock \in Nat \ {0} /\ MaxRequests \in Nat

Exists(t) == ticket[t].status # "null"

-----------------------------------------------------------------------------
(* sla.py: reading a cycle.                                                *)

EffectiveDue(c, now) == IF c.pauseStart = 0 THEN c.due ELSE c.due + (now - c.pauseStart)

\* Ticks that count against the target; the pauses are stored in whole seconds.
Eligible(c, now) ==
  LET paused == Second * c.paused + (IF c.pauseStart = 0 THEN 0 ELSE now - c.pauseStart)
  IN  IF now - c.started > paused THEN (now - c.started) - paused ELSE 0

\* The states that GET /tickets/{id}/sla shows; due_soon is part of on_track.
Classify(due, now) == IF due <= now THEN "overdue" ELSE "on_track"
FirstResponseState(c, now) == IF c.firstAt # 0 THEN "met" ELSE Classify(c.firstDue, now)
ResolutionState(c, now) ==
  CASE c.completed # 0 -> IF c.completed > EffectiveDue(c, now) THEN "overdue" ELSE "met"
    [] c.completed = 0 /\ c.pauseStart # 0 -> "paused"
    [] c.completed = 0 /\ c.pauseStart = 0 -> Classify(c.due, now)

\* Mutant: the latest cycle, active or not.
ActiveCycle_Latest(cs) == Len(cs)

\* The active row with the highest cycle number; 0 when there is none.
ActiveCycle(cs) ==
  LET active == {i \in DOMAIN cs : cs[i].active}
  IN  IF active = {} THEN 0 ELSE CHOOSE i \in active : \A j \in active : j <= i

-----------------------------------------------------------------------------
(* sla.py: what a handler does to the rows it has read.                    *)

NewCycle(priority, now) ==
  [priority |-> priority, started |-> now,
   firstDue |-> now + FirstTarget[priority], firstAt |-> 0, firstBreached |-> 0,
   due |-> now + ResolutionTarget[priority], paused |-> 0, pauseStart |-> 0,
   completed |-> 0, breached |-> 0, active |-> TRUE]

\* Mutant: an answer in time counts as late when it comes at the last moment.
Answered_AtDue(c, now) ==
  IF c.firstAt # 0 THEN c
  ELSE [c EXCEPT !.firstAt = now,
                 !.firstBreached = IF now >= c.firstDue THEN c.firstDue ELSE @]

Answered(c, now) ==
  IF c.firstAt # 0 THEN c
  ELSE [c EXCEPT !.firstAt = now,
                 !.firstBreached = IF now > c.firstDue THEN c.firstDue ELSE @]

\* Mutant: the target starts over.
Repriced_Reset(c, priority, now) ==
  [c EXCEPT !.priority = priority, !.due = now + ResolutionTarget[priority],
            !.firstDue = IF c.firstAt = 0 THEN c.started + FirstTarget[priority] ELSE @]

Repriced(c, priority, now) ==
  [c EXCEPT !.priority = priority,
            !.due = (now + ResolutionTarget[priority]) - Eligible(c, now),
            !.firstDue = IF c.firstAt = 0 THEN c.started + FirstTarget[priority] ELSE @]

\* Mutants: the completed cycle stays active; a late completion is not recorded;
\* the running pause is forgotten before the deadline is computed.
CompletedCycle_StaysActive(c, now) == [c EXCEPT !.completed = now, !.pauseStart = 0]
CompletedCycle_Unrecorded(c, now) ==
  [c EXCEPT !.completed = now, !.active = FALSE, !.pauseStart = 0]
CompletedCycle_PauseFirst(c, now) ==
  [c EXCEPT !.completed = now, !.active = FALSE, !.pauseStart = 0,
            !.breached = IF now > c.due THEN c.due ELSE @]

CompletedCycle(c, now) ==
  LET due == EffectiveDue(c, now)
  IN  [c EXCEPT !.completed = now, !.active = FALSE, !.pauseStart = 0,
                !.breached = IF now > due THEN due ELSE @]

Paused(c, now) == IF c.pauseStart = 0 THEN [c EXCEPT !.pauseStart = now] ELSE c

Resumed(c, now) ==
  IF c.pauseStart = 0 THEN c
  ELSE [c EXCEPT !.paused = @ + ((now - c.pauseStart) \div Second),
                 !.due = @ + (now - c.pauseStart), !.pauseStart = 0]

\* A reopening starts a cycle whose first response is the ticket's.
ReopenedCycle(row, now) ==
  LET answered == IF row.firstResponse = 0 THEN now ELSE row.firstResponse
  IN  [NewCycle(row.priority, now) EXCEPT !.firstAt = answered, !.firstDue = answered]

OnActive(cs, Change(_)) ==
  [i \in DOMAIN cs |-> IF i = ActiveCycle(cs) THEN Change(cs[i]) ELSE cs[i]]

ApplyStatusChange(cs, row, new, now) ==
  LET complete(c) == CompletedCycle(c, now)
      pause(c)    == Paused(c, now)
      resume(c)   == Resumed(c, now)
  IN  CASE new = row.status -> cs
        [] new # row.status /\ new \in Completed -> OnActive(cs, complete)
        [] new # row.status /\ new = "WAITING_FOR_CUSTOMER" -> OnActive(cs, pause)
        [] new # row.status /\ new \notin Completed \cup {"WAITING_FOR_CUSTOMER"} ->
             OnActive(cs, resume)
               \o (IF row.status \in Completed THEN <<ReopenedCycle(row, now)>> ELSE << >>)

OrKeep(value, kept) == IF value = Keep THEN kept ELSE value

\* A public reply of the customer takes the ticket back from these states.
StatusAfter(row, r) ==
  CASE r.kind = "patch" -> OrKeep(r.status, row.status)
    [] r.kind = "customer_reply" ->
         IF row.status \in {"WAITING_FOR_CUSTOMER", "RESOLVED"} THEN "IN_PROGRESS"
                                                                ELSE row.status
    [] r.kind = "staff_reply" -> row.status
PriorityAfter(row, r) == IF r.kind = "patch" THEN OrKeep(r.priority, row.priority)
                                             ELSE row.priority

\* The columns of the ticket row that a request leaves behind.
TicketAfter(row, r, now) ==
  [status |-> StatusAfter(row, r), priority |-> PriorityAfter(row, r),
   firstResponse |-> IF r.kind = "staff_reply" /\ row.firstResponse = 0
                     THEN now ELSE row.firstResponse]

\* A PATCH moves the status first, then the priority, of the cycle it then finds.
CyclesAfter(cs, row, r, now) ==
  LET answer(c)  == Answered(c, now)
      reprice(c) == Repriced(c, PriorityAfter(row, r), now)
      moved      == ApplyStatusChange(cs, row, StatusAfter(row, r), now)
  IN  CASE r.kind = "staff_reply" -> OnActive(cs, answer)
        [] r.kind # "staff_reply" /\ PriorityAfter(row, r) = row.priority -> moved
        [] r.kind # "staff_reply" /\ PriorityAfter(row, r) # row.priority ->
             OnActive(moved, reprice)

\* The answers 404, 409 and 422, and the empty change.  A resolution needs a public
\* staff reply, and every such reply sets first_agent_response_at.
Refused(row, r) ==
  CASE r.kind = "patch" ->
         \/ ~ValidTransition(row.status, StatusAfter(row, r), TRUE)
         \/ StatusAfter(row, r) # row.status /\ r.status = "RESOLVED" /\ row.firstResponse = 0
         \/ StatusAfter(row, r) = row.status /\ PriorityAfter(row, r) = row.priority
    [] r.kind # "patch" -> row.status = "CLOSED"

-----------------------------------------------------------------------------
Init ==
  /\ ticket = [t \in Tickets |-> NoTicket]
  /\ cycles = [t \in Tickets |-> << >>]
  /\ audit = [t \in Tickets |-> << >>]
  /\ handler = [t \in Tickets |-> Idle]
  /\ scan = [w \in Workers |-> {}]
  /\ clock = 1
  /\ begun = 0
  /\ past = [t \in Tickets |-> << >>]

Tick ==
  /\ clock < MaxClock
  /\ clock' = clock + 1
  /\ UNCHANGED <<ticket, cycles, audit, handler, scan, begun, past>>

\* What the row says from an instant on.
Entry(row, at) == [status |-> row.status, priority |-> row.priority, at |-> at]

\* POST /tickets, and open_first_cycle in its transaction.
Create(t) ==
  /\ ~Exists(t)
  /\ \E p \in OpenedAs :
       LET row == [status |-> "OPEN", priority |-> p, firstResponse |-> 0]
       IN  /\ ticket' = [ticket EXCEPT ![t] = row]
           /\ cycles' = [cycles EXCEPT ![t] = <<NewCycle(p, clock)>>]
           /\ past' = [past EXCEPT ![t] = <<Entry(row, clock)>>]
  /\ UNCHANGED <<audit, handler, scan, clock, begun>>

\* Take the ticket row, check the request, fix now, and read the cycles.
HandlerLocks(t, r) ==
  /\ Exists(t) /\ handler[t] = Idle
  /\ begun < MaxRequests
  /\ ~Refused(ticket[t], r)
  /\ handler' = [handler EXCEPT ![t] =
       [pc |-> "holds", request |-> r, now |-> clock, seen |-> cycles[t]]]
  /\ begun' = begun + 1
  /\ UNCHANGED <<ticket, cycles, audit, scan, clock, past>>

Outcome(t) == CyclesAfter(handler[t].seen, ticket[t], handler[t].request, handler[t].now)

\* A cycle that the handler must update while a scan has it FOR UPDATE.
Blocks(w, t) ==
  \E m \in scan[w] : m.ticket = t /\ Outcome(t)[m.cycle] # handler[t].seen[m.cycle]

HandlerCommits(t) ==
  LET h == handler[t]
      new == TicketAfter(ticket[t], h.request, h.now)
  IN  /\ h # Idle
      /\ \A w \in Workers : ~Blocks(w, t)
      /\ ticket' = [ticket EXCEPT ![t] = new]
      /\ cycles' = [cycles EXCEPT ![t] = Outcome(t)]
      /\ past' = [past EXCEPT ![t] = Append(@, Entry(new, h.now))]
      /\ handler' = [handler EXCEPT ![t] = Idle]
      /\ UNCHANGED <<audit, scan, clock, begun>>

\* An error, a lost connection, a crash, or the victim of a deadlock.
HandlerRollsBack(t) ==
  /\ handler[t] # Idle
  /\ handler' = [handler EXCEPT ![t] = Idle]
  /\ UNCHANGED <<ticket, cycles, audit, scan, clock, begun, past>>

-----------------------------------------------------------------------------
(* record_breaches                                                         *)

\* Mutant: only the resolution timer is looked at.
Misses_ResolutionOnly(c, now) ==
  IF c.completed = 0 /\ c.pauseStart = 0 /\ c.breached = 0 /\ c.due < now
  THEN {"resolution"} ELSE {}

\* The timers of an active cycle that are past due and not marked yet.
Misses(c, now) ==
  {f \in {"first_response", "resolution"} :
     \/ f = "first_response" /\ c.firstAt = 0 /\ c.firstBreached = 0 /\ c.firstDue < now
     \/ /\ f = "resolution" /\ c.completed = 0 /\ c.pauseStart = 0
        /\ c.breached = 0 /\ c.due < now}

\* Mutant: FOR UPDATE SKIP LOCKED is left out.
Locked_Never(t, i) == FALSE

Locked(t, i) == \E w \in Workers : \E m \in scan[w] : m.ticket = t /\ m.cycle = i

Rows == UNION {{t} \X DOMAIN cycles[t] : t \in Tickets}

Candidates == {k \in Rows :
  LET c == cycles[k[1]][k[2]]
  IN  c.active /\ Misses(c, clock) # {} /\ ~Locked(k[1], k[2])}

Due(k) == cycles[k[1]][k[2]].due

\* ORDER BY resolution_due_at LIMIT n
Batches ==
  {S \in SUBSET Candidates :
     /\ Cardinality(S) = IF Cardinality(Candidates) < Limit THEN Cardinality(Candidates) ELSE Limit
     /\ \A k \in S : \A l \in Candidates \ S : Due(k) <= Due(l)}

\* What the loop assigns to a cycle it has read, one record per timer.
Marks(k) ==
  {[ticket |-> k[1], cycle |-> k[2], timer |-> f, at |-> clock,
    due |-> IF f = "resolution" THEN Due(k) ELSE cycles[k[1]][k[2]].firstDue]
   : f \in Misses(cycles[k[1]][k[2]], clock)}

WorkerScans(w) ==
  /\ scan[w] = {}
  /\ \E S \in Batches \ {{}} : scan' = [scan EXCEPT ![w] = UNION {Marks(k) : k \in S}]
  /\ UNCHANGED <<ticket, cycles, audit, handler, clock, begun, past>>

\* The marks of a scan for one timer of a ticket: at most one.
MarkOf(w, t, timer) == {m \in scan[w] : m.ticket = t /\ m.timer = timer}

Marked(c, ms) ==
  LET due(timer, kept) == IF \E m \in ms : m.timer = timer
                          THEN (CHOOSE m \in ms : m.timer = timer).due ELSE kept
  IN  [c EXCEPT !.firstBreached = due("first_response", @),
                !.breached = due("resolution", @)]

AuditRows(ms) == IF ms = {} THEN << >> ELSE <<CHOOSE m \in ms : TRUE>>

\* Mutant: no audit row, so nothing makes the scan wait for the ticket.
TicketIsFree_Always(w) == TRUE

\* The foreign key of the audit row: KEY SHARE on the ticket waits for FOR UPDATE.
TicketIsFree(w) == \A m \in scan[w] : handler[m.ticket] = Idle

WorkerCommits(w) ==
  /\ scan[w] # {}
  /\ TicketIsFree(w)
  /\ cycles' = [t \in Tickets |-> [i \in DOMAIN cycles[t] |->
       Marked(cycles[t][i], {m \in scan[w] : m.ticket = t /\ m.cycle = i})]]
  /\ audit' = [t \in Tickets |-> audit[t] \o AuditRows(MarkOf(w, t, "first_response"))
                                          \o AuditRows(MarkOf(w, t, "resolution"))]
  /\ scan' = [scan EXCEPT ![w] = {}]
  /\ UNCHANGED <<ticket, handler, clock, begun, past>>

\* The loop of run() logs the error and scans again; so does a restarted worker.
WorkerRollsBack(w) ==
  /\ scan[w] # {}
  /\ scan' = [scan EXCEPT ![w] = {}]
  /\ UNCHANGED <<ticket, cycles, audit, handler, clock, begun, past>>

-----------------------------------------------------------------------------
Handle(t) ==
  \/ Create(t) \/ HandlerCommits(t) \/ HandlerRollsBack(t)
  \/ \E r \in Requests : HandlerLocks(t, r)
Scan(w) == WorkerScans(w) \/ WorkerCommits(w) \/ WorkerRollsBack(w)

Next == Tick \/ (\E t \in Tickets : Handle(t)) \/ (\E w \in Workers : Scan(w))

Spec == Init /\ [][Next]_vars

\* PostgreSQL picks a victim when a handler and a scan wait for each other.
Deadlocked(t) == handler[t] # Idle /\ \E w \in Workers : Blocks(w, t)
Victim == \E t \in Tickets :
  Deadlocked(t) /\ (HandlerRollsBack(t) \/ \E w \in Workers : Blocks(w, t) /\ WorkerRollsBack(w))

\* Time passes; the victim of a deadlock is found; the worker keeps scanning.  A
\* scan that is rolled back hands its lock to the update that waits for it before a
\* new scan gets there, so handlers are served; and no scan is forever interrupted
\* before its commit: handlers are few and the worker does not crash every time.
Fairness ==
  /\ WF_vars(Tick) /\ WF_vars(Victim)
  /\ \A t \in Tickets : SF_vars(HandlerCommits(t))
  /\ \A w \in Workers : WF_vars(WorkerScans(w)) /\ SF_vars(WorkerCommits(w))

FairSpec == Spec /\ Fairness

-----------------------------------------------------------------------------
(* Properties                                                              *)

\* The rows are records of instants; only the last cycle of a ticket is active.
TypeOK ==
  /\ ticket \in [Tickets -> [status: Statuses, priority: Priorities, firstResponse: Nat]
                              \cup {NoTicket}]
  /\ \A t \in Tickets : \A i \in DOMAIN cycles[t] :
       /\ cycles[t][i].priority \in Priorities
       /\ \A col \in DOMAIN cycles[t][i] \ {"priority", "active"} : cycles[t][i][col] \in Nat
       /\ cycles[t][i].active <=> cycles[t][i].completed = 0
       /\ i < Len(cycles[t]) => ~cycles[t][i].active
  /\ clock \in 1..MaxClock /\ begun \in 0..MaxRequests

\* The cycles that a handler has read without a lock are still what is stored when
\* it writes them: a scan cannot commit marks of a ticket that a handler holds
\* (sla.py:138-147 reads without FOR UPDATE; the foreign key of the audit row and the
\* ticket's row lock keep record_breaches out).
ReadsStayCurrent == \A t \in Tickets : handler[t] # Idle => handler[t].seen = cycles[t]

\* The history h of a ticket, independent of the bookkeeping of the cycle: what the
\* ticket was at instant k, and for how long it waited for its customer.
InForce(h, k) ==
  LET upTo == {i \in DOMAIN h : h[i].at <= k}
  IN  h[CHOOSE i \in upTo : \A j \in upTo : j <= i]
Waited(h, from, to) ==
  Cardinality({k \in from..(to - 1) : InForce(h, k).status = "WAITING_FOR_CUSTOMER"})
WaitingAt(h, i) == h[i].status = "WAITING_FOR_CUSTOMER"

\* A waiting ticket got another priority and went on waiting (see WaitingNeverCounts).
RepricedWaiting(h, c) ==
  \E i \in DOMAIN h \ {1} :
    /\ h[i].at >= c.started
    /\ h[i].priority # h[i - 1].priority
    /\ WaitingAt(h, i) /\ WaitingAt(h, i - 1)

\* Every pause that ended may have lost a part of a second.
Slack(h, c) ==
  (Second - 1) * Cardinality({i \in DOMAIN h \ {1} :
    h[i].at >= c.started /\ WaitingAt(h, i - 1) /\ ~WaitingAt(h, i)})

\* now grants a target's worth of time that is not spent waiting for the customer.
Grants(h, c, now) ==
  LET granted == EffectiveDue(c, now)
      fair    == c.started + ResolutionTarget[c.priority] + Waited(h, c.started, now)
  IN  granted <= fair /\ fair <= granted + Slack(h, c)

\* However a ticket was moved, re-priced and answered, the deadline of its running
\* cycle grants the target of its present priority, counted from the start of the cycle
\* and without the time that the customer took, up to the rounding of each pause; the
\* first response is due its target after the start (sla.py:7-11, 162-207).
DeadlineHonoursTarget ==
  \A t \in Tickets :
    LET i == ActiveCycle(cycles[t])
        c == cycles[t][i]
    IN  i # 0 => /\ RepricedWaiting(past[t], c) \/ Grants(past[t], c, clock)
                 /\ c.firstAt = 0 => c.firstDue = c.started + FirstTarget[c.priority]

\* The same without the exception: what sla.py:9-11 says of every priority change.
WaitingNeverCounts ==
  \A t \in Tickets :
    LET i == ActiveCycle(cycles[t])
    IN  i # 0 => Grants(past[t], cycles[t][i], clock)

\* The time from the start of a cycle to an instant, less the waiting.
Worked(h, c, at) == (at - c.started) - Waited(h, c.started, at)

\* A resolution is marked as breached, by a scan or by the handler that completes the
\* cycle, only when more than the target was worked by then, and a cycle that was
\* completed before never changes, so that a reopening leaves the result of the old
\* one alone (docs/decisions/0005:9-11; sla.py:184-193, 209-221, 276-282).
BreachIsEarned ==
  [][\A t \in Tickets : \A i \in DOMAIN cycles[t] :
       LET c == cycles'[t][i]
       IN  /\ cycles[t][i].completed # 0 => c = cycles[t][i]
           /\ c.breached # cycles[t][i].breached =>
                Worked(past[t], c, clock) + Slack(past[t], c) > ResolutionTarget[c.priority]]_vars

\* What is completed or answered too late is marked.
LateIsRecorded(h, c) ==
  /\ c.completed # 0 /\ Worked(h, c, c.completed) > ResolutionTarget[c.priority]
       => c.breached # 0 \/ RepricedWaiting(h, c)
  /\ c.firstAt > c.firstDue => c.firstBreached # 0

\* A mark lies before the answer or the completion that came too late.
BreachPrecedesStop(c) ==
  /\ c.firstAt # 0 /\ c.firstBreached # 0 => c.firstBreached < c.firstAt
  /\ c.completed # 0 /\ c.breached # 0 => c.breached < c.completed

\* What comes too late is recorded as a breach, once by the time that it stops, and what
\* is in time never is: no scan marks a timer that a handler has stopped by then,
\* whichever of them was first to read (sla.py:150-159, 184-193, 224-305).
BreachesAreExact ==
  \A t \in Tickets : \A i \in DOMAIN cycles[t] :
    LateIsRecorded(past[t], cycles[t][i]) /\ BreachPrecedesStop(cycles[t][i])

\* No timer of a cycle is announced twice, with any number of scans, crashes and new
\* deadlines (sla.py:227-230).
AnnouncedOnce ==
  \A t \in Tickets : \A i, j \in DOMAIN audit[t] :
    audit[t][i].cycle = audit[t][j].cycle /\ audit[t][i].timer = audit[t][j].timer => i = j

\* A timer that GET /tickets/{id}/sla has shown as overdue.
ShownOverdue(t, timer) ==
  LET i == ActiveCycle(cycles[t])
      c == cycles[t][i]
  IN  i # 0 /\ IF timer = "resolution" THEN ResolutionState(c, clock - 1) = "overdue"
                                       ELSE FirstResponseState(c, clock - 1) = "overdue"
Recorded(t, timer) ==
  \E i \in DOMAIN cycles[t] :
    IF timer = "resolution" THEN cycles[t][i].breached # 0 ELSE cycles[t][i].firstBreached # 0

\* What is overdue gets recorded, unless the ticket is answered, completed, paused or
\* re-priced first: the batch limit starves no ticket, and neither do deadlocks
\* with handlers (sla.py:232-255, outbox.py:90-93).
OverdueIsRecorded ==
  \A t \in Tickets : \A timer \in {"first_response", "resolution"} :
    ShownOverdue(t, timer) ~> (Recorded(t, timer) \/ ~ShownOverdue(t, timer))
=============================================================================
