---------------------------- MODULE SlaCycleProofs ----------------------------
(* The locks of handlers and breach scans, for every set of tickets, workers  *)
(* and requests, all targets and any granularity of the clock: what a handler *)
(* has read stays current, and no breach is announced twice. Then the books   *)
(* of the cycles: pauses and deadlines follow from the history of the ticket, *)
(* so the target is granted, and only a late cycle is reported.               *)
EXTENDS SlaCycle, FiniteSetTheorems, TLAPS

-----------------------------------------------------------------------------
(* The types of the rows, and what a step does to one cycle.               *)

Positive == Nat \ {0}
Flags == BOOLEAN
Timers == {"first_response", "resolution"}
CycleRows == [priority: Priorities, started: Positive, firstDue: Positive, firstAt: Nat,
              firstBreached: Nat, due: Positive, paused: Nat, pauseStart: Nat,
              completed: Nat, breached: Nat, active: Flags]
TicketRows == [status: Statuses, priority: Priorities, firstResponse: Nat]
Holders == [pc: {"holds"}, request: Requests, now: Positive, seen: Seq(CycleRows)]
BreachMarks == [ticket: Tickets, cycle: Nat, timer: Timers, at: Nat, due: Positive]

\* The column that tells of a breach.
Column(c, timer) == IF timer = "resolution" THEN c.breached ELSE c.firstBreached

\* d is a cycle, has the marks that c has, and does not pause in the future.
Follows(c, d, now) ==
  /\ d \in CycleRows
  /\ \A timer \in Timers : Column(c, timer) # 0 => Column(d, timer) # 0
  /\ d.pauseStart <= now

\* Every cycle of cs is followed, and ds has more cycles at most.
Grows(cs, ds, now) ==
  /\ ds \in Seq(CycleRows) /\ Len(cs) <= Len(ds)
  /\ \A i \in 1..Len(ds) : ds[i].pauseStart <= now
  /\ \A i \in 1..Len(cs) : Follows(cs[i], ds[i], now)

LEMMA PausesAreCounted ==
  ASSUME NEW n \in Nat
  PROVE  n \div Second \in Nat
  BY TargetAssumption

LEMMA EligibleIsBounded ==
  ASSUME NEW c \in CycleRows, NEW now \in Positive, c.pauseStart <= now
  PROVE  /\ Eligible(c, now) \in Nat
         /\ Eligible(c, now) <= now
  <1> DEFINE running == IF c.pauseStart = 0 THEN 0 ELSE now - c.pauseStart
  <1>1. now \in Nat /\ c.started \in Nat /\ c.paused \in Nat /\ c.pauseStart \in Nat
    BY DEF CycleRows, Positive
  <1>2. Second * c.paused \in Nat
    BY <1>1, TargetAssumption
  <1>3. running \in Nat
    BY <1>1
  <1>4. PICK paused \in Nat : paused = Second * c.paused + running
    BY <1>2, <1>3
  <1>5. Eligible(c, now) = IF now - c.started > paused THEN (now - c.started) - paused ELSE 0
    BY <1>4 DEF Eligible
  <1> QED
    BY <1>1, <1>4, <1>5

LEMMA AnsweredFollows ==
  ASSUME NEW c \in CycleRows, NEW now \in Positive, c.pauseStart <= now
  PROVE  Follows(c, Answered(c, now), now)
  BY DEF Follows, Answered, Column, CycleRows, Positive, Timers

LEMMA RepricedFollows ==
  ASSUME NEW c \in CycleRows, NEW now \in Positive, NEW priority \in Priorities,
         c.pauseStart <= now
  PROVE  Follows(c, Repriced(c, priority, now), now)
  <1>1. /\ ResolutionTarget[priority] \in Positive /\ FirstTarget[priority] \in Positive
        /\ Eligible(c, now) \in Nat /\ Eligible(c, now) <= now
    BY EligibleIsBounded, TargetAssumption DEF Positive
  <1>2. (now + ResolutionTarget[priority]) - Eligible(c, now) \in Positive
    BY <1>1 DEF Positive
  <1>3. c.started + FirstTarget[priority] \in Positive
    BY <1>1 DEF Positive, CycleRows
  <1> QED
    BY <1>2, <1>3 DEF Follows, Repriced, Column, CycleRows, Timers

LEMMA Truths == TRUE \in Flags /\ FALSE \in Flags
  BY DEF Flags

LEMMA CompletedFollows ==
  ASSUME NEW c \in CycleRows, NEW now \in Positive, c.pauseStart <= now
  PROVE  Follows(c, CompletedCycle(c, now), now)
  <1>1. EffectiveDue(c, now) \in Positive
    BY DEF EffectiveDue, CycleRows, Positive
  <1>2. PICK due \in Positive : due = EffectiveDue(c, now)
    BY <1>1
  <1>3. PICK mark \in Nat : /\ mark = IF now > due THEN due ELSE c.breached
                            /\ (c.breached # 0 => mark # 0)
    BY DEF CycleRows, Positive
  <1>4. now \in Nat /\ due \in Nat /\ c.breached \in Nat /\ c.firstBreached \in Nat
    BY DEF Positive, CycleRows
  <1> DEFINE d == [c EXCEPT !.completed = now, !.active = FALSE, !.pauseStart = 0,
                            !.breached = mark]
  <1>5. CompletedCycle(c, now) = d
    <2>1. CASE now > due
      BY <1>2, <1>3, <1>4, <2>1 DEF CompletedCycle
    <2>2. CASE ~(now > due)
      BY <1>2, <1>3, <1>4, <2>2 DEF CompletedCycle
    <2> QED
      BY <2>1, <2>2
  <1>6. d \in CycleRows
    BY <1>4, Truths DEF CycleRows
  <1>7. d.breached = mark /\ d.pauseStart = 0 /\ d.firstBreached = c.firstBreached
    BY DEF CycleRows
  <1>8. Follows(c, d, now)
    <2> HIDE DEF d
    <2>1. \A timer \in Timers : Column(c, timer) # 0 => Column(d, timer) # 0
      BY <1>3, <1>4, <1>7 DEF Column
    <2>2. d.pauseStart <= now
      BY <1>4, <1>7
    <2> QED
      BY <1>6, <2>1, <2>2 DEF Follows
  <1> QED
    BY <1>5, <1>8

LEMMA PausedFollows ==
  ASSUME NEW c \in CycleRows, NEW now \in Positive, c.pauseStart <= now
  PROVE  Follows(c, Paused(c, now), now)
  BY DEF Follows, Paused, Column, CycleRows, Positive, Timers

LEMMA ResumedFollows ==
  ASSUME NEW c \in CycleRows, NEW now \in Positive, c.pauseStart <= now
  PROVE  Follows(c, Resumed(c, now), now)
  <1>1. /\ now - c.pauseStart \in Nat /\ c.paused \in Nat /\ c.due + (now - c.pauseStart) \in Positive
    BY DEF CycleRows, Positive
  <1>2. c.paused + ((now - c.pauseStart) \div Second) \in Nat
    BY <1>1, PausesAreCounted
  <1>3. PICK paused \in Nat : paused = c.paused + ((now - c.pauseStart) \div Second)
    BY <1>2
  <1>4. PICK due \in Positive : due = c.due + (now - c.pauseStart)
    BY <1>1
  <1>5. Resumed(c, now) = IF c.pauseStart = 0 THEN c
                          ELSE [c EXCEPT !.paused = paused, !.due = due, !.pauseStart = 0]
    BY <1>3, <1>4 DEF Resumed
  <1> DEFINE d == [c EXCEPT !.paused = paused, !.due = due, !.pauseStart = 0]
  <1>6. d \in CycleRows
    BY DEF CycleRows
  <1>7. d.pauseStart = 0 /\ d.breached = c.breached /\ d.firstBreached = c.firstBreached
    BY DEF CycleRows
  <1>8. now \in Nat
    BY DEF Positive
  <1>9. Follows(c, d, now) /\ Follows(c, c, now)
    <2> HIDE DEF d
    <2> QED
      BY <1>6, <1>7, <1>8 DEF Follows, Column
  <1> QED
    BY <1>5, <1>9

LEMMA NewCycleIsRow ==
  ASSUME NEW now \in Positive, NEW priority \in Priorities
  PROVE  NewCycle(priority, now) \in CycleRows /\ NewCycle(priority, now).pauseStart = 0
  <1>1. now + ResolutionTarget[priority] \in Positive /\ now + FirstTarget[priority] \in Positive
    BY TargetAssumption DEF Positive
  <1> QED
    BY <1>1, Truths DEF NewCycle, CycleRows, Positive

LEMMA ReopenedIsRow ==
  ASSUME NEW now \in Positive, NEW row \in TicketRows
  PROVE  ReopenedCycle(row, now) \in CycleRows /\ ReopenedCycle(row, now).pauseStart = 0
  <1>1. row.priority \in Priorities /\ row.firstResponse \in Nat
    BY DEF TicketRows
  <1>2. NewCycle(row.priority, now) \in CycleRows /\ NewCycle(row.priority, now).pauseStart = 0
    BY <1>1, NewCycleIsRow
  <1> QED
    BY <1>1, <1>2 DEF ReopenedCycle, CycleRows, Positive

-----------------------------------------------------------------------------
(* What a handler does to the cycles it has read.                          *)

\* A change of the active cycle that it follows makes the cycles grow.
LEMMA ActiveChangeGrows ==
  ASSUME NEW cs \in Seq(CycleRows), NEW now \in Positive, NEW ds,
         \A i \in 1..Len(cs) : cs[i].pauseStart <= now,
         ds = [i \in DOMAIN cs |-> ds[i]],
         \A i \in 1..Len(cs) : ds[i] = cs[i] \/ Follows(cs[i], ds[i], now)
  PROVE  Grows(cs, ds, now) /\ Len(ds) = Len(cs)
  <1>1. ASSUME NEW i \in 1..Len(cs) PROVE Follows(cs[i], ds[i], now)
    <2>1. cs[i] \in CycleRows /\ cs[i].pauseStart <= now
      OBVIOUS
    <2>2. Follows(cs[i], cs[i], now)
      BY <2>1 DEF Follows
    <2> QED
      BY <2>2
  <1>2. \A i \in 1..Len(cs) : ds[i] \in CycleRows /\ ds[i].pauseStart <= now
    BY <1>1 DEF Follows
  <1>3. DOMAIN cs = 1..Len(cs) /\ Len(cs) \in Nat
    OBVIOUS
  <1>4. ds \in Seq(CycleRows) /\ Len(ds) = Len(cs)
    BY <1>2, <1>3
  <1> QED
    BY <1>1, <1>2, <1>3, <1>4 DEF Grows

LEMMA GrowsTransitively ==
  ASSUME NEW cs \in Seq(CycleRows), NEW ds, NEW es, NEW now \in Positive,
         Grows(cs, ds, now), Grows(ds, es, now)
  PROVE  Grows(cs, es, now)
  <1>1. Len(cs) \in Nat /\ Len(ds) \in Nat /\ Len(es) \in Nat
    BY DEF Grows
  <1>2. ASSUME NEW i \in 1..Len(cs) PROVE Follows(cs[i], es[i], now)
    <2>1. i \in 1..Len(ds)
      BY <1>1 DEF Grows
    <2> QED
      BY <2>1 DEF Grows, Follows
  <1> QED
    BY <1>1, <1>2 DEF Grows

LEMMA StatusChangeGrows ==
  ASSUME NEW cs \in Seq(CycleRows), NEW now \in Positive, NEW row \in TicketRows, NEW new,
         \A i \in 1..Len(cs) : cs[i].pauseStart <= now
  PROVE  Grows(cs, ApplyStatusChange(cs, row, new, now), now)
  <1> DEFINE ds == ApplyStatusChange(cs, row, new, now)
  <1> SUFFICES Grows(cs, ds, now)
    OBVIOUS
  <1>0. \A i \in 1..Len(cs) : cs[i] \in CycleRows
    OBVIOUS
  <1>1. CASE new = row.status
    <2>1. ds = cs
      BY <1>1 DEF ApplyStatusChange
    <2>2. cs = [i \in DOMAIN cs |-> cs[i]]
      OBVIOUS
    <2> HIDE DEF ds
    <2> QED
      BY <2>1, <2>2, ActiveChangeGrows
  <1>2. CASE new # row.status /\ new \in Completed
    <2> DEFINE es == [i \in DOMAIN cs |-> IF i = ActiveCycle(cs) THEN CompletedCycle(cs[i], now)
                                                                ELSE cs[i]]
    <2>1. ds = es
      BY <1>2 DEF ApplyStatusChange, OnActive, Completed
    <2>2. \A i \in 1..Len(cs) : es[i] = cs[i] \/ Follows(cs[i], es[i], now)
      BY <1>0, CompletedFollows
    <2>3. es = [i \in DOMAIN cs |-> es[i]]
      OBVIOUS
    <2> HIDE DEF es, ds
    <2> QED
      BY <2>1, <2>2, <2>3, ActiveChangeGrows
  <1>3. CASE new # row.status /\ new = "WAITING_FOR_CUSTOMER"
    <2> DEFINE es == [i \in DOMAIN cs |-> IF i = ActiveCycle(cs) THEN Paused(cs[i], now)
                                                                ELSE cs[i]]
    <2>1. ds = es
      BY <1>3 DEF ApplyStatusChange, OnActive, Completed
    <2>2. \A i \in 1..Len(cs) : es[i] = cs[i] \/ Follows(cs[i], es[i], now)
      BY <1>0, PausedFollows
    <2>3. es = [i \in DOMAIN cs |-> es[i]]
      OBVIOUS
    <2> HIDE DEF es, ds
    <2> QED
      BY <2>1, <2>2, <2>3, ActiveChangeGrows
  <1>4. CASE new # row.status /\ new \notin Completed \cup {"WAITING_FOR_CUSTOMER"}
    <2> DEFINE es == [i \in DOMAIN cs |-> IF i = ActiveCycle(cs) THEN Resumed(cs[i], now)
                                                                ELSE cs[i]]
               more == IF row.status \in Completed THEN <<ReopenedCycle(row, now)>> ELSE << >>
    <2>1. ds = es \o more
      BY <1>4 DEF ApplyStatusChange, OnActive
    <2>2. \A i \in 1..Len(cs) : es[i] = cs[i] \/ Follows(cs[i], es[i], now)
      BY <1>0, ResumedFollows
    <2>3. es = [i \in DOMAIN cs |-> es[i]]
      OBVIOUS
    <2>4. Grows(cs, es, now) /\ Len(es) = Len(cs)
      <3> HIDE DEF es
      <3> QED
        BY <2>2, <2>3, ActiveChangeGrows
    <2>5. /\ more \in Seq(CycleRows)
          /\ \A i \in 1..Len(more) : more[i].pauseStart = 0
      BY ReopenedIsRow
    <2> HIDE DEF es, more, ds
    <2>6. Grows(cs, es \o more, now)
      <3>1. es \in Seq(CycleRows) /\ es \o more \in Seq(CycleRows)
        BY <2>4, <2>5 DEF Grows
      <3>2. Len(es \o more) = Len(es) + Len(more)
        BY <2>5, <3>1
      <3>3. \A i \in 1..Len(es) : (es \o more)[i] = es[i]
        BY <2>5, <3>1
      <3>4. ASSUME NEW i \in 1..Len(es \o more) PROVE (es \o more)[i].pauseStart <= now
        <4>1. CASE i \in 1..Len(es)
          BY <2>4, <3>3, <4>1 DEF Grows
        <4>2. CASE i \notin 1..Len(es)
          <5>1. (es \o more)[i] = more[i - Len(es)] /\ i - Len(es) \in 1..Len(more)
            BY <2>5, <3>1, <3>2, <4>2
          <5> QED
            BY <2>5, <5>1 DEF Positive
        <4> QED
          BY <4>1, <4>2
      <3>5. Len(cs) <= Len(es \o more) /\ Len(cs) \in Nat /\ Len(es) \in Nat
        BY <2>4, <2>5, <3>1, <3>2
      <3>6. \A i \in 1..Len(cs) : Follows(cs[i], (es \o more)[i], now)
        BY <2>4, <3>3 DEF Grows
      <3> QED
        BY <3>1, <3>4, <3>5, <3>6 DEF Grows
    <2> QED
      BY <2>1, <2>6
  <1> HIDE DEF ds
  <1> QED
    BY <1>1, <1>2, <1>3, <1>4

LEMMA PriorityIsKnown ==
  ASSUME NEW row \in TicketRows, NEW r \in Requests
  PROVE  PriorityAfter(row, r) \in Priorities
  <1>1. r \in PatchRequests \cup ReplyRequests
    BY RequestAssumption
  <1>2. CASE r \in PatchRequests
    BY <1>2 DEF PriorityAfter, OrKeep, PatchRequests, TicketRows
  <1>3. CASE r \in ReplyRequests
    BY <1>3 DEF PriorityAfter, ReplyRequests, TicketRows
  <1> QED
    BY <1>1, <1>2, <1>3

LEMMA CyclesGrow ==
  ASSUME NEW cs \in Seq(CycleRows), NEW now \in Positive, NEW row \in TicketRows,
         NEW r \in Requests, \A i \in 1..Len(cs) : cs[i].pauseStart <= now
  PROVE  Grows(cs, CyclesAfter(cs, row, r, now), now)
  <1> DEFINE ds == CyclesAfter(cs, row, r, now)
             moved == ApplyStatusChange(cs, row, StatusAfter(row, r), now)
             priority == PriorityAfter(row, r)
  <1> SUFFICES Grows(cs, ds, now)
    OBVIOUS
  <1>0. \A i \in 1..Len(cs) : cs[i] \in CycleRows
    OBVIOUS
  <1>1. Grows(cs, moved, now)
    BY StatusChangeGrows
  <1>2. CASE r.kind = "staff_reply"
    <2> DEFINE es == [i \in DOMAIN cs |-> IF i = ActiveCycle(cs) THEN Answered(cs[i], now)
                                                                ELSE cs[i]]
    <2>1. ds = es
      BY <1>2 DEF CyclesAfter, OnActive
    <2>2. \A i \in 1..Len(cs) : es[i] = cs[i] \/ Follows(cs[i], es[i], now)
      BY <1>0, AnsweredFollows
    <2>3. es = [i \in DOMAIN cs |-> es[i]]
      OBVIOUS
    <2> HIDE DEF es, ds
    <2> QED
      BY <2>1, <2>2, <2>3, ActiveChangeGrows
  <1>3. CASE r.kind # "staff_reply" /\ priority = row.priority
    BY <1>1, <1>3 DEF CyclesAfter
  <1>4. CASE r.kind # "staff_reply" /\ priority # row.priority
    <2> DEFINE es == [i \in DOMAIN moved |-> IF i = ActiveCycle(moved)
                                             THEN Repriced(moved[i], priority, now)
                                             ELSE moved[i]]
    <2>1. ds = es
      BY <1>4 DEF CyclesAfter, OnActive
    <2>2. priority \in Priorities
      BY PriorityIsKnown
    <2>3. es = [i \in DOMAIN moved |-> es[i]]
      OBVIOUS
    <2> HIDE DEF moved, priority
    <2>4. /\ moved \in Seq(CycleRows)
          /\ \A i \in 1..Len(moved) : moved[i] \in CycleRows /\ moved[i].pauseStart <= now
      BY <1>1 DEF Grows
    <2>5. \A i \in 1..Len(moved) : es[i] = moved[i] \/ Follows(moved[i], es[i], now)
      BY <2>2, <2>4, RepricedFollows
    <2> HIDE DEF es, ds
    <2>6. Grows(moved, es, now)
      BY <2>3, <2>4, <2>5, ActiveChangeGrows
    <2> QED
      BY <1>1, <2>1, <2>6, GrowsTransitively
  <1> HIDE DEF ds
  <1> QED
    BY <1>2, <1>3, <1>4

LEMMA RowIsKept ==
  ASSUME NEW row \in TicketRows, NEW r \in Requests, NEW now \in Positive
  PROVE  TicketAfter(row, r, now) \in TicketRows
  <1>1. r \in PatchRequests \cup ReplyRequests
    BY RequestAssumption
  <1>2. StatusAfter(row, r) \in Statuses
    <2>1. CASE r \in PatchRequests
      BY <2>1 DEF StatusAfter, OrKeep, PatchRequests, TicketRows
    <2>2. CASE r \in ReplyRequests
      <3>1. "IN_PROGRESS" \in Statuses
        BY DEF Statuses
      <3>2. r.kind = "customer_reply" \/ r.kind = "staff_reply"
        BY <2>2 DEF ReplyRequests
      <3> QED
        BY <3>1, <3>2 DEF StatusAfter, TicketRows
    <2> QED
      BY <1>1, <2>1, <2>2
  <1>3. PriorityAfter(row, r) \in Priorities
    BY PriorityIsKnown
  <1> QED
    BY <1>2, <1>3 DEF TicketAfter, TicketRows, Positive

-----------------------------------------------------------------------------
(* The invariant.                                                          *)

Typed ==
  /\ ticket \in [Tickets -> TicketRows \cup {NoTicket}]
  /\ cycles \in [Tickets -> Seq(CycleRows)]
  /\ audit \in [Tickets -> Seq(BreachMarks)]
  /\ handler \in [Tickets -> Holders \cup {Idle}]
  /\ scan \in [Workers -> SUBSET BreachMarks]
  /\ clock \in Positive

\* Nothing that is stored or held comes from the future.
InTime ==
  \A t \in Tickets :
    /\ \A i \in 1..Len(cycles[t]) : cycles[t][i].pauseStart <= clock
    /\ handler[t] # Idle =>
         /\ Exists(t) /\ handler[t].now <= clock
         /\ \A i \in 1..Len(cycles[t]) : cycles[t][i].pauseStart <= handler[t].now

\* What a scan is about to mark is not marked, and no other scan has the cycle.
ScansHoldTheirRows ==
  /\ \A w \in Workers : \A m \in scan[w] :
       /\ m.cycle \in 1..Len(cycles[m.ticket])
       /\ Column(cycles[m.ticket][m.cycle], m.timer) = 0
  /\ \A v, w \in Workers : \A m \in scan[v], n \in scan[w] :
       m.ticket = n.ticket /\ m.cycle = n.cycle => v = w

\* What has been announced is marked.
AuditIsMarked ==
  \A t \in Tickets : \A i \in 1..Len(audit[t]) :
    LET row == audit[t][i]
    IN  /\ row.cycle \in 1..Len(cycles[t])
        /\ Column(cycles[t][row.cycle], row.timer) # 0

\* A ticket that has not been opened has no cycles.
UnopenedIsEmpty == \A t \in Tickets : ~Exists(t) => cycles[t] = << >>

IInv ==
  /\ Typed /\ InTime /\ UnopenedIsEmpty
  /\ ReadsStayCurrent /\ ScansHoldTheirRows
  /\ AuditIsMarked /\ AnnouncedOnce

LEMMA InitEstablishes == Init => IInv
  <1> SUFFICES ASSUME Init PROVE IInv
    OBVIOUS
  <1>1. Typed
    BY DEF Init, Typed, Positive
  <1>2. InTime /\ ReadsStayCurrent
    BY DEF Init, InTime, ReadsStayCurrent
  <1>3. ScansHoldTheirRows /\ AuditIsMarked /\ AnnouncedOnce
    BY DEF Init, ScansHoldTheirRows, AuditIsMarked, AnnouncedOnce
  <1>4. UnopenedIsEmpty
    BY DEF Init, UnopenedIsEmpty
  <1> QED
    BY <1>1, <1>2, <1>3, <1>4 DEF IInv

LEMMA NullIsNoStatus == "null" \notin Statuses
  BY DEF Statuses

\* What a ticket is depends on its row alone.
LEMMA OpenedRow ==
  ASSUME Typed, NEW t \in Tickets, Exists(t)
  PROVE  ticket[t] \in TicketRows
  BY DEF Typed, Exists, NoTicket

LEMMA TickPreserves ==
  ASSUME IInv, Tick
  PROVE  IInv'
  <1> USE DEF IInv, Tick
  <1>1. clock \in Nat /\ clock' = clock + 1 /\ clock' \in Positive
    BY DEF Typed, Positive
  <1>2. Typed'
    BY <1>1 DEF Typed
  <1>3. InTime'
    <2> SUFFICES ASSUME NEW t \in Tickets
                 PROVE  /\ \A i \in 1..Len(cycles[t]) : cycles[t][i].pauseStart <= clock'
                        /\ handler[t] # Idle =>
                             /\ Exists(t) /\ handler[t].now <= clock'
                             /\ \A i \in 1..Len(cycles[t]) : cycles[t][i].pauseStart <= handler[t].now
      BY DEF InTime, Exists
    <2>1. \A i \in 1..Len(cycles[t]) : cycles[t][i] \in CycleRows
      BY DEF Typed
    <2>2. handler[t] # Idle => handler[t].now \in Nat
      BY DEF Typed, Holders, Positive
    <2>3. \A i \in 1..Len(cycles[t]) : cycles[t][i].pauseStart \in Nat
      BY <2>1 DEF CycleRows
    <2> QED
      BY <1>1, <2>2, <2>3 DEF InTime
  <1>4. (ReadsStayCurrent /\ ScansHoldTheirRows /\ AuditIsMarked /\ AnnouncedOnce /\ UnopenedIsEmpty)'
    BY DEF ReadsStayCurrent, ScansHoldTheirRows, AuditIsMarked, AnnouncedOnce, UnopenedIsEmpty, Exists
  <1> QED
    BY <1>2, <1>3, <1>4

LEMMA CreatePreserves ==
  ASSUME IInv, NEW t \in Tickets, Create(t)
  PROVE  IInv'
  <1> USE DEF IInv
  <1>1. PICK p \in OpenedAs :
          /\ ticket' = [ticket EXCEPT ![t] = [status |-> "OPEN", priority |-> p, firstResponse |-> 0]]
          /\ cycles' = [cycles EXCEPT ![t] = <<NewCycle(p, clock)>>]
    BY DEF Create
  <1>2. p \in Priorities /\ clock \in Positive
    BY RequestAssumption DEF Typed
  <1>3. PICK c \in CycleRows : c = NewCycle(p, clock) /\ c.pauseStart = 0
    BY <1>2, NewCycleIsRow
  <1>4. /\ ~Exists(t) /\ UNCHANGED <<audit, handler, scan, clock>>
        /\ cycles[t] = << >> /\ cycles' = [cycles EXCEPT ![t] = <<c>>]
    BY <1>1, <1>3 DEF Create, UnopenedIsEmpty
  <1>5. handler[t] = Idle
    BY <1>4 DEF InTime
  <1>6. 1..Len(audit[t]) = {} /\ \A w \in Workers : \A m \in scan[w] : m.ticket # t
    <2>1. 1..Len(cycles[t]) = {}
      BY <1>4
    <2>3. 1..Len(audit[t]) = {}
      BY <2>1 DEF AuditIsMarked
    <2>2. \A w \in Workers : \A m \in scan[w] : m.ticket # t
      BY <2>1 DEF ScansHoldTheirRows
    <2> QED
      BY <2>2, <2>3
  <1>7. \A u \in Tickets : u # t => cycles'[u] = cycles[u] /\ ticket'[u] = ticket[u]
    BY <1>1, <1>4 DEF Typed
  <1>8. cycles'[t] = <<c>> /\ ticket'[t].status = "OPEN"
    BY <1>1, <1>4 DEF Typed
  <1>9. Typed'
    <2>1. "OPEN" \in Statuses
      BY DEF Statuses
    <2>2. [status |-> "OPEN", priority |-> p, firstResponse |-> 0] \in TicketRows
      BY <1>2, <2>1 DEF TicketRows
    <2>3. <<c>> \in Seq(CycleRows)
      OBVIOUS
    <2> QED
      BY <1>1, <1>4, <2>2, <2>3 DEF Typed
  <1>10. InTime'
    <2> SUFFICES ASSUME NEW u \in Tickets
                 PROVE  /\ \A i \in 1..Len(cycles'[u]) : cycles'[u][i].pauseStart <= clock'
                        /\ handler'[u] # Idle =>
                             /\ Exists(u)' /\ handler'[u].now <= clock'
                             /\ \A i \in 1..Len(cycles'[u]) : cycles'[u][i].pauseStart <= handler'[u].now
      BY DEF InTime
    <2>1. CASE u = t
      BY <1>2, <1>3, <1>4, <1>5, <1>8, <2>1 DEF Positive
    <2>2. CASE u # t
      BY <1>4, <1>7, <2>2 DEF InTime, Exists
    <2> QED
      BY <2>1, <2>2
  <1>11. ReadsStayCurrent' /\ AnnouncedOnce'
    BY <1>4, <1>5, <1>7 DEF ReadsStayCurrent, AnnouncedOnce
  <1>12. ScansHoldTheirRows'
    <2>1. \A w \in Workers : \A m \in scan[w] : m.ticket \in Tickets
      BY DEF Typed, BreachMarks
    <2>2. \A w \in Workers : \A m \in scan[w] : cycles'[m.ticket] = cycles[m.ticket]
      BY <1>6, <1>7, <2>1
    <2> QED
      BY <1>4, <2>2 DEF ScansHoldTheirRows
  <1>13. AuditIsMarked'
    <2> SUFFICES ASSUME NEW u \in Tickets, NEW i \in 1..Len(audit[u])
                 PROVE  /\ audit[u][i].cycle \in 1..Len(cycles'[u])
                        /\ Column(cycles'[u][audit[u][i].cycle], audit[u][i].timer) # 0
      BY <1>4 DEF AuditIsMarked
    <2>1. u # t
      BY <1>6
    <2> QED
      BY <1>7, <2>1 DEF AuditIsMarked
  <1>14. UnopenedIsEmpty'
    BY <1>7, <1>8 DEF UnopenedIsEmpty, Exists
  <1> QED
    BY <1>9, <1>10, <1>11, <1>12, <1>13, <1>14

LEMMA LocksPreserve ==
  ASSUME IInv, NEW t \in Tickets, NEW r \in Requests, HandlerLocks(t, r)
  PROVE  IInv'
  <1> USE DEF IInv
  <1>1. /\ Exists(t)
        /\ handler' = [handler EXCEPT ![t] =
             [pc |-> "holds", request |-> r, now |-> clock, seen |-> cycles[t]]]
        /\ UNCHANGED <<ticket, cycles, audit, scan, clock>>
    BY DEF HandlerLocks
  <1> DEFINE h == [pc |-> "holds", request |-> r, now |-> clock, seen |-> cycles[t]]
  <1>2. h \in Holders
    BY DEF Holders, Typed
  <1>3. h.seen = cycles[t] /\ h.now = clock
    OBVIOUS
  <1> HIDE DEF h
  <1>4. handler'[t] = h /\ \A u \in Tickets : u # t => handler'[u] = handler[u]
    BY <1>1 DEF Typed, h
  <1>5. Typed'
    BY <1>1, <1>2 DEF Typed, h
  <1>6. InTime'
    <2> SUFFICES ASSUME NEW u \in Tickets
                 PROVE  /\ \A i \in 1..Len(cycles[u]) : cycles[u][i].pauseStart <= clock
                        /\ handler'[u] # Idle =>
                             /\ Exists(u) /\ handler'[u].now <= clock
                             /\ \A i \in 1..Len(cycles[u]) : cycles[u][i].pauseStart <= handler'[u].now
      BY <1>1 DEF InTime, Exists
    <2>1. clock <= clock
      BY DEF Typed, Positive
    <2> QED
      BY <1>1, <1>3, <1>4, <2>1 DEF InTime
  <1>7. ReadsStayCurrent'
    BY <1>1, <1>3, <1>4 DEF ReadsStayCurrent
  <1>8. (ScansHoldTheirRows /\ AuditIsMarked /\ AnnouncedOnce /\ UnopenedIsEmpty)'
    BY <1>1 DEF ScansHoldTheirRows, AuditIsMarked, AnnouncedOnce, UnopenedIsEmpty, Exists
  <1> QED
    BY <1>5, <1>6, <1>7, <1>8

LEMMA HandlerRollbackPreserves ==
  ASSUME IInv, NEW t \in Tickets, HandlerRollsBack(t)
  PROVE  IInv'
  <1> USE DEF IInv
  <1>1. handler' = [handler EXCEPT ![t] = Idle] /\ UNCHANGED <<ticket, cycles, audit, scan, clock>>
    BY DEF HandlerRollsBack
  <1>2. handler'[t] = Idle /\ \A u \in Tickets : u # t => handler'[u] = handler[u]
    BY <1>1 DEF Typed
  <1>3. Typed'
    BY <1>1 DEF Typed
  <1>4. InTime' /\ ReadsStayCurrent'
    BY <1>1, <1>2 DEF InTime, ReadsStayCurrent, Exists
  <1>5. (ScansHoldTheirRows /\ AuditIsMarked /\ AnnouncedOnce /\ UnopenedIsEmpty)'
    BY <1>1 DEF ScansHoldTheirRows, AuditIsMarked, AnnouncedOnce, UnopenedIsEmpty, Exists
  <1> QED
    BY <1>3, <1>4, <1>5

\* The update of a handler makes the cycles of its ticket grow, and changes none that a
\* scan is about to mark.
LEMMA CommitPreserves ==
  ASSUME IInv, NEW t \in Tickets, HandlerCommits(t)
  PROVE  IInv'
  <1> USE DEF IInv
  <1> DEFINE h == handler[t]
             new == TicketAfter(ticket[t], h.request, h.now)
             ds == Outcome(t)
  <1>1. /\ h # Idle /\ \A w \in Workers : ~Blocks(w, t)
        /\ ticket' = [ticket EXCEPT ![t] = new] /\ cycles' = [cycles EXCEPT ![t] = ds]
        /\ handler' = [handler EXCEPT ![t] = Idle] /\ UNCHANGED <<audit, scan, clock>>
    BY DEF HandlerCommits
  <1>2. h \in Holders /\ h.now \in Positive /\ h.request \in Requests
    BY <1>1 DEF Typed, Holders
  <1>3. h.seen = cycles[t] /\ Exists(t) /\ h.now <= clock
    BY <1>1 DEF ReadsStayCurrent, InTime
  <1>4. ticket[t] \in TicketRows /\ cycles[t] \in Seq(CycleRows)
    BY <1>3, OpenedRow DEF Typed
  <1>5. new \in TicketRows
    BY <1>2, <1>4, RowIsKept
  <1>6. Grows(cycles[t], ds, h.now)
    <2>1. \A i \in 1..Len(cycles[t]) : cycles[t][i].pauseStart <= h.now
      BY <1>1 DEF InTime
    <2> QED
      BY <1>2, <1>3, <1>4, <2>1, CyclesGrow DEF Outcome
  <1>7. \A w \in Workers : \A m \in scan[w] : m.ticket = t => ds[m.cycle] = cycles[t][m.cycle]
    BY <1>1, <1>3 DEF Blocks
  <1> HIDE DEF h, new, ds
  <1>8. /\ ticket'[t] = new /\ cycles'[t] = ds /\ handler'[t] = Idle
        /\ \A u \in Tickets : u # t =>
             ticket'[u] = ticket[u] /\ cycles'[u] = cycles[u] /\ handler'[u] = handler[u]
    BY <1>1 DEF Typed
  <1>9. Typed'
    <2>1. ds \in Seq(CycleRows)
      BY <1>6 DEF Grows
    <2> QED
      BY <1>1, <1>5, <2>1 DEF Typed
  <1>10. InTime'
    <2> SUFFICES ASSUME NEW u \in Tickets
                 PROVE  /\ \A i \in 1..Len(cycles'[u]) : cycles'[u][i].pauseStart <= clock
                        /\ handler'[u] # Idle =>
                             /\ Exists(u)' /\ handler'[u].now <= clock
                             /\ \A i \in 1..Len(cycles'[u]) : cycles'[u][i].pauseStart <= handler'[u].now
      BY <1>1 DEF InTime
    <2>1. CASE u = t
      <3>1. \A i \in 1..Len(ds) : ds[i].pauseStart <= h.now /\ ds[i] \in CycleRows
        BY <1>6 DEF Grows
      <3>2. \A i \in 1..Len(ds) : ds[i].pauseStart \in Nat
        BY <3>1 DEF CycleRows
      <3>3. h.now \in Nat /\ clock \in Nat
        BY <1>2 DEF Typed, Positive
      <3> QED
        BY <1>3, <1>8, <2>1, <3>1, <3>2, <3>3
    <2>2. CASE u # t
      BY <1>8, <2>2 DEF InTime, Exists
    <2> QED
      BY <2>1, <2>2
  <1>11. ReadsStayCurrent' /\ AnnouncedOnce'
    BY <1>1, <1>8 DEF ReadsStayCurrent, AnnouncedOnce
  <1>12. ScansHoldTheirRows'
    <2>1. ASSUME NEW w \in Workers, NEW m \in scan[w]
          PROVE  /\ m.cycle \in 1..Len(cycles'[m.ticket])
                 /\ Column(cycles'[m.ticket][m.cycle], m.timer) = 0
      <3>1. m.ticket \in Tickets /\ m.cycle \in Nat
        BY DEF Typed, BreachMarks
      <3>2. CASE m.ticket = t
        <4>1. Len(cycles[t]) <= Len(ds) /\ Len(cycles[t]) \in Nat /\ Len(ds) \in Nat
          BY <1>4, <1>6 DEF Grows
        <4> QED
          BY <1>7, <1>8, <3>1, <3>2, <4>1 DEF ScansHoldTheirRows
      <3>3. CASE m.ticket # t
        BY <1>8, <3>1, <3>3 DEF ScansHoldTheirRows
      <3> QED
        BY <3>2, <3>3
    <2> QED
      BY <1>1, <2>1 DEF ScansHoldTheirRows
  <1>13. AuditIsMarked'
    <2> SUFFICES ASSUME NEW u \in Tickets, NEW i \in 1..Len(audit[u])
                 PROVE  /\ audit[u][i].cycle \in 1..Len(cycles'[u])
                        /\ Column(cycles'[u][audit[u][i].cycle], audit[u][i].timer) # 0
      BY <1>1 DEF AuditIsMarked
    <2>1. CASE u = t
      <3>0. audit[u] \in Seq(BreachMarks)
        BY DEF Typed
      <3>1. audit[u][i].timer \in Timers /\ audit[u][i].cycle \in Nat
        <4>1. audit[u][i] \in BreachMarks
          BY <3>0
        <4> HIDE DEF IInv
        <4> QED
          BY <4>1 DEF BreachMarks
      <3>2. Len(cycles[t]) <= Len(ds) /\ Len(cycles[t]) \in Nat /\ Len(ds) \in Nat
        BY <1>4, <1>6 DEF Grows
      <3>3. /\ audit[u][i].cycle \in 1..Len(cycles[t])
            /\ Column(cycles[t][audit[u][i].cycle], audit[u][i].timer) # 0
        BY <2>1 DEF AuditIsMarked
      <3>4. Follows(cycles[t][audit[u][i].cycle], ds[audit[u][i].cycle], h.now)
        BY <1>6, <3>3 DEF Grows
      <3>5. Column(ds[audit[u][i].cycle], audit[u][i].timer) # 0
        BY <3>1, <3>3, <3>4 DEF Follows
      <3>6. audit[u][i].cycle \in 1..Len(ds)
        BY <3>1, <3>2, <3>3
      <3> QED
        BY <1>8, <2>1, <3>5, <3>6
    <2>2. CASE u # t
      BY <1>8, <2>2 DEF AuditIsMarked
    <2> QED
      BY <2>1, <2>2
  <1>14. UnopenedIsEmpty'
    <2>1. ticket'[t].status # "null"
      BY <1>5, <1>8, NullIsNoStatus DEF TicketRows
    <2> QED
      BY <1>8, <2>1 DEF UnopenedIsEmpty, Exists
  <1> QED
    BY <1>9, <1>10, <1>11, <1>12, <1>13, <1>14

LEMMA ScanPreserves ==
  ASSUME IInv, NEW w \in Workers, WorkerScans(w)
  PROVE  IInv'
  <1> USE DEF IInv
  <1>1. PICK S \in Batches \ {{}} : scan' = [scan EXCEPT ![w] = UNION {Marks(k) : k \in S}]
    BY DEF WorkerScans
  <1>2. UNCHANGED <<ticket, cycles, audit, handler, clock>>
    BY DEF WorkerScans
  <1> DEFINE taken == UNION {Marks(k) : k \in S}
  <1>3. scan'[w] = taken /\ \A v \in Workers : v # w => scan'[v] = scan[v]
    BY <1>1 DEF Typed
  <1>4. ASSUME NEW m \in taken
        PROVE  /\ m \in BreachMarks /\ m.cycle \in 1..Len(cycles[m.ticket])
               /\ Column(cycles[m.ticket][m.cycle], m.timer) = 0
               /\ ~Locked(m.ticket, m.cycle)
    <2>1. PICK k \in S : m \in Marks(k)
      OBVIOUS
    <2>2. S \subseteq Candidates
      BY DEF Batches
    <2>3. k \in Rows /\ ~Locked(k[1], k[2])
      BY <2>1, <2>2 DEF Candidates
    <2>4. PICK t \in Tickets : k \in {t} \X DOMAIN cycles[t]
      BY <2>3 DEF Rows
    <2>5. /\ k[1] = t /\ k[2] \in 1..Len(cycles[t])
          /\ cycles[t][k[2]] \in CycleRows
      BY <2>4 DEF Typed
    <2>6. PICK f \in Misses(cycles[t][k[2]], clock) :
            m = [ticket |-> t, cycle |-> k[2], timer |-> f, at |-> clock,
                 due |-> IF f = "resolution" THEN cycles[t][k[2]].due ELSE cycles[t][k[2]].firstDue]
      BY <2>1, <2>5 DEF Marks, Due
    <2>7. f \in Timers /\ Column(cycles[t][k[2]], f) = 0
      BY DEF Misses, Timers, Column
    <2>8. /\ (IF f = "resolution" THEN cycles[t][k[2]].due ELSE cycles[t][k[2]].firstDue) \in Positive
          /\ k[2] \in Nat /\ clock \in Nat
      <3>1. cycles[t][k[2]].due \in Positive /\ cycles[t][k[2]].firstDue \in Positive
        BY <2>5 DEF CycleRows
      <3>2. k[2] \in Nat /\ clock \in Nat
        BY <2>5 DEF Typed, Positive
      <3> QED
        BY <3>1, <3>2
    <2>9. m \in BreachMarks
      BY <2>6, <2>7, <2>8 DEF BreachMarks
    <2>10. m.ticket = t /\ m.cycle = k[2] /\ m.timer = f
      BY <2>6
    <2> QED
      BY <2>3, <2>5, <2>7, <2>9, <2>10
  <1> HIDE DEF taken
  <1>5. Typed'
    <2>1. taken \in SUBSET BreachMarks
      BY <1>4
    <2> QED
      BY <1>1, <1>2, <2>1 DEF Typed, taken
  <1>6. (InTime /\ ReadsStayCurrent /\ AuditIsMarked /\ AnnouncedOnce /\ UnopenedIsEmpty)'
    BY <1>2 DEF InTime, ReadsStayCurrent, AuditIsMarked, AnnouncedOnce, UnopenedIsEmpty, Exists
  <1>7. ScansHoldTheirRows'
    <2>1. ASSUME NEW v \in Workers, NEW m \in scan'[v]
          PROVE  /\ m.cycle \in 1..Len(cycles[m.ticket])
                 /\ Column(cycles[m.ticket][m.cycle], m.timer) = 0
      BY <1>3, <1>4 DEF ScansHoldTheirRows
    <2>2. \A u, v \in Workers : \A m \in scan'[u], n \in scan'[v] :
            m.ticket = n.ticket /\ m.cycle = n.cycle => u = v
      <3>1. ASSUME NEW v \in Workers, NEW m \in taken, NEW n \in scan[v]
            PROVE  ~(m.ticket = n.ticket /\ m.cycle = n.cycle)
        BY <1>4 DEF Locked
      <3>2. \A u, v \in Workers : \A m \in scan[u], n \in scan[v] :
              m.ticket = n.ticket /\ m.cycle = n.cycle => u = v
        BY DEF ScansHoldTheirRows
      <3> SUFFICES ASSUME NEW u \in Workers, NEW v \in Workers,
                          NEW m \in scan'[u], NEW n \in scan'[v],
                          m.ticket = n.ticket, m.cycle = n.cycle
                   PROVE  u = v
        OBVIOUS
      <3>3. CASE u # w /\ v # w
        BY <1>3, <3>2, <3>3
      <3>4. CASE u = w /\ v # w
        BY <1>3, <3>1, <3>4
      <3>5. CASE u # w /\ v = w
        BY <1>3, <3>1, <3>5
      <3> QED
        BY <3>3, <3>4, <3>5
    <2> QED
      BY <1>2, <2>1, <2>2 DEF ScansHoldTheirRows
  <1> QED
    BY <1>5, <1>6, <1>7

LEMMA ScanRollbackPreserves ==
  ASSUME IInv, NEW w \in Workers, WorkerRollsBack(w)
  PROVE  IInv'
  <1> USE DEF IInv
  <1>1. scan' = [scan EXCEPT ![w] = {}] /\ UNCHANGED <<ticket, cycles, audit, handler, clock>>
    BY DEF WorkerRollsBack
  <1>2. scan'[w] = {} /\ \A v \in Workers : v # w => scan'[v] = scan[v]
    BY <1>1 DEF Typed
  <1>3. Typed'
    BY <1>1 DEF Typed
  <1>4. (InTime /\ ReadsStayCurrent /\ AuditIsMarked /\ AnnouncedOnce /\ UnopenedIsEmpty)'
    BY <1>1 DEF InTime, ReadsStayCurrent, AuditIsMarked, AnnouncedOnce, UnopenedIsEmpty, Exists
  <1>5. ScansHoldTheirRows'
    BY <1>1, <1>2 DEF ScansHoldTheirRows
  <1> QED
    BY <1>3, <1>4, <1>5

LEMMA NothingMarked ==
  ASSUME NEW c \in CycleRows
  PROVE  Marked(c, {}) = c
  BY DEF Marked, CycleRows

\* The columns of the timers that are marked are set, the others are left alone.
LEMMA MarkedIsRow ==
  ASSUME NEW c \in CycleRows, NEW ms \in SUBSET BreachMarks
  PROVE  /\ Marked(c, ms) \in CycleRows /\ Marked(c, ms).pauseStart = c.pauseStart
         /\ \A timer \in Timers :
              /\ Column(c, timer) # 0 => Column(Marked(c, ms), timer) # 0
              /\ (\E m \in ms : m.timer = timer) => Column(Marked(c, ms), timer) # 0
  <1> DEFINE due(timer, kept) == IF \E m \in ms : m.timer = timer
                                 THEN (CHOOSE m \in ms : m.timer = timer).due ELSE kept
  <1>1. ASSUME NEW timer, NEW kept \in Nat
        PROVE  /\ due(timer, kept) \in Nat
               /\ kept # 0 => due(timer, kept) # 0
               /\ (\E m \in ms : m.timer = timer) => due(timer, kept) # 0
    <2>1. CASE \E m \in ms : m.timer = timer
      <3>1. (CHOOSE m \in ms : m.timer = timer) \in ms
        BY <2>1
      <3>2. (CHOOSE m \in ms : m.timer = timer).due \in Positive
        BY <3>1 DEF BreachMarks
      <3> QED
        BY <2>1, <3>2 DEF Positive
    <2>2. CASE ~\E m \in ms : m.timer = timer
      BY <2>2
    <2> QED
      BY <2>1, <2>2
  <1>2. c.firstBreached \in Nat /\ c.breached \in Nat
    BY DEF CycleRows
  <1>3. PICK first \in Nat : first = due("first_response", c.firstBreached)
    BY <1>1, <1>2
  <1>4. PICK resolution \in Nat : resolution = due("resolution", c.breached)
    BY <1>1, <1>2
  <1>5. /\ c.firstBreached # 0 => first # 0
        /\ (\E m \in ms : m.timer = "first_response") => first # 0
    BY <1>1, <1>2, <1>3
  <1>6. /\ c.breached # 0 => resolution # 0
        /\ (\E m \in ms : m.timer = "resolution") => resolution # 0
    BY <1>1, <1>2, <1>4
  <1> DEFINE d == [c EXCEPT !.firstBreached = first, !.breached = resolution]
  <1>7. Marked(c, ms) = d
    BY <1>3, <1>4 DEF Marked, CycleRows
  <1> HIDE DEF due
  <1>8. /\ d \in CycleRows /\ d.pauseStart = c.pauseStart
        /\ d.firstBreached = first /\ d.breached = resolution
    BY DEF CycleRows
  <1> HIDE DEF d
  <1>9. \A timer \in Timers :
          /\ Column(c, timer) # 0 => Column(d, timer) # 0
          /\ (\E m \in ms : m.timer = timer) => Column(d, timer) # 0
    BY <1>5, <1>6, <1>8 DEF Column, Timers
  <1> QED
    BY <1>7, <1>8, <1>9

\* At most one row of a timer of a cycle.
Once(rows) ==
  \A i, j \in 1..Len(rows) : rows[i].cycle = rows[j].cycle /\ rows[i].timer = rows[j].timer => i = j

\* Every row of a sequence and a mark, or none, is new: so is what results.
LEMMA FreshRow ==
  ASSUME NEW rows \in Seq(BreachMarks), Once(rows), NEW ms \in SUBSET BreachMarks,
         \A m \in ms : \A i \in 1..Len(rows) :
           rows[i].cycle # m.cycle \/ rows[i].timer # m.timer
  PROVE  /\ rows \o AuditRows(ms) \in Seq(BreachMarks) /\ Once(rows \o AuditRows(ms))
         /\ \A i \in 1..Len(rows \o AuditRows(ms)) :
              \/ i \in 1..Len(rows) /\ (rows \o AuditRows(ms))[i] = rows[i]
              \/ (rows \o AuditRows(ms))[i] \in ms
  <1>1. CASE ms = {}
    <2>1. rows \o AuditRows(ms) = rows
      BY <1>1 DEF AuditRows
    <2> QED
      BY <2>1
  <1>2. CASE ms # {}
    <2>1. PICK m \in ms : AuditRows(ms) = <<m>>
      BY <1>2 DEF AuditRows
    <2>2. PICK all \in Seq(BreachMarks) :
            /\ all = rows \o AuditRows(ms) /\ Len(all) = Len(rows) + 1
            /\ \A i \in 1..Len(rows) : all[i] = rows[i]
            /\ all[Len(rows) + 1] = m
      <3>1. rows \o <<m>> \in Seq(BreachMarks) /\ Len(rows \o <<m>>) = Len(rows) + 1
        OBVIOUS
      <3>2. \A i \in 1..Len(rows) : (rows \o <<m>>)[i] = rows[i]
        OBVIOUS
      <3>3. (rows \o <<m>>)[Len(rows) + 1] = m
        OBVIOUS
      <3> DEFINE longer == rows \o <<m>>
      <3> HIDE DEF longer
      <3>4. /\ longer = rows \o AuditRows(ms) /\ Len(longer) = Len(rows) + 1
            /\ longer \in Seq(BreachMarks)
            /\ \A i \in 1..Len(rows) : longer[i] = rows[i]
            /\ longer[Len(rows) + 1] = m
        BY <2>1, <3>1, <3>2, <3>3 DEF longer
      <3> QED
        BY <3>4
    <2>3. Len(rows) \in Nat
      OBVIOUS
    <2>4. \A i \in 1..Len(all) : \/ i \in 1..Len(rows) /\ all[i] = rows[i]
                                 \/ i = Len(rows) + 1 /\ all[i] = m
      BY <2>2, <2>3
    <2>5. Once(all)
      <3> SUFFICES ASSUME NEW i \in 1..Len(all), NEW j \in 1..Len(all),
                          all[i].cycle = all[j].cycle, all[i].timer = all[j].timer
                   PROVE  i = j
        BY DEF Once
      <3>1. \A k \in 1..Len(rows) : rows[k].cycle # m.cycle \/ rows[k].timer # m.timer
        OBVIOUS
      <3>2. CASE i \in 1..Len(rows) /\ j \in 1..Len(rows)
        <4>1. rows[i].cycle = rows[j].cycle /\ rows[i].timer = rows[j].timer
          BY <2>2, <3>2
        <4> QED
          BY <3>2, <4>1 DEF Once
      <3>3. CASE i \notin 1..Len(rows)
        <4>1. i = Len(rows) + 1 /\ all[i] = m
          BY <2>4, <3>3
        <4>2. j \notin 1..Len(rows)
          BY <2>2, <3>1, <4>1
        <4> QED
          BY <2>4, <4>1, <4>2
      <3>4. CASE j \notin 1..Len(rows)
        <4>1. j = Len(rows) + 1 /\ all[j] = m
          BY <2>4, <3>4
        <4>2. i \notin 1..Len(rows)
          BY <2>2, <3>1, <4>1
        <4> QED
          BY <2>4, <4>1, <4>2
      <3> QED
        BY <3>2, <3>3, <3>4
    <2> QED
      BY <2>1, <2>2, <2>4, <2>5
  <1> QED
    BY <1>1, <1>2

\* A scan marks the cycles that it holds, of tickets that no handler holds.
LEMMA MarkingPreserves ==
  ASSUME IInv, NEW w \in Workers, WorkerCommits(w)
  PROVE  IInv'
  <1> USE DEF IInv
  <1> DEFINE Mine(t, i) == {m \in scan[w] : m.ticket = t /\ m.cycle = i}
  <1>1. /\ TicketIsFree(w) /\ scan' = [scan EXCEPT ![w] = {}]
        /\ cycles' = [t \in Tickets |-> [i \in DOMAIN cycles[t] |-> Marked(cycles[t][i], Mine(t, i))]]
        /\ audit' = [t \in Tickets |-> audit[t] \o AuditRows(MarkOf(w, t, "first_response"))
                                                \o AuditRows(MarkOf(w, t, "resolution"))]
        /\ UNCHANGED <<ticket, handler, clock>>
    BY DEF WorkerCommits
  <1>2. scan[w] \in SUBSET BreachMarks /\ \A t \in Tickets, i \in Nat : Mine(t, i) \in SUBSET BreachMarks
    BY DEF Typed
  <1>3. scan'[w] = {} /\ \A v \in Workers : v # w => scan'[v] = scan[v]
    BY <1>1 DEF Typed
  <1>4. ASSUME NEW t \in Tickets
        PROVE  /\ cycles[t] \in Seq(CycleRows) /\ cycles'[t] \in Seq(CycleRows)
               /\ Len(cycles'[t]) = Len(cycles[t])
               /\ \A i \in 1..Len(cycles[t]) :
                    /\ cycles[t][i] \in CycleRows
                    /\ cycles'[t][i] = Marked(cycles[t][i], Mine(t, i))
                    /\ cycles'[t][i].pauseStart = cycles[t][i].pauseStart
                    /\ \A timer \in Timers :
                         /\ Column(cycles[t][i], timer) # 0 => Column(cycles'[t][i], timer) # 0
                         /\ (\E m \in Mine(t, i) : m.timer = timer) => Column(cycles'[t][i], timer) # 0
    <2>1. cycles[t] \in Seq(CycleRows)
      BY DEF Typed
    <2>2. /\ DOMAIN cycles[t] = 1..Len(cycles[t]) /\ Len(cycles[t]) \in Nat
          /\ \A i \in 1..Len(cycles[t]) : cycles[t][i] \in CycleRows /\ i \in Nat
      BY <2>1
    <2> DEFINE ds == [i \in 1..Len(cycles[t]) |-> Marked(cycles[t][i], Mine(t, i))]
    <2>3. cycles'[t] = ds
      BY <1>1, <2>2
    <2>4. ASSUME NEW i \in 1..Len(cycles[t])
          PROVE  /\ ds[i] \in CycleRows /\ ds[i].pauseStart = cycles[t][i].pauseStart
                 /\ ds[i] = Marked(cycles[t][i], Mine(t, i))
                 /\ \A timer \in Timers :
                      /\ Column(cycles[t][i], timer) # 0 => Column(ds[i], timer) # 0
                      /\ (\E m \in Mine(t, i) : m.timer = timer) => Column(ds[i], timer) # 0
      <3>1. Mine(t, i) \in SUBSET BreachMarks /\ cycles[t][i] \in CycleRows
        BY <1>2, <2>2
      <3>2. ds[i] = Marked(cycles[t][i], Mine(t, i))
        OBVIOUS
      <3> HIDE DEF ds, Mine
      <3> QED
        BY <3>1, <3>2, MarkedIsRow
    <2>5. ds \in Seq(CycleRows) /\ Len(ds) = Len(cycles[t])
      <3>1. \A i \in 1..Len(cycles[t]) : ds[i] \in CycleRows
        BY <2>4
      <3>2. ds = [i \in 1..Len(cycles[t]) |-> ds[i]]
        OBVIOUS
      <3> HIDE DEF ds
      <3> QED
        BY <2>2, <3>1, <3>2
    <2> HIDE DEF ds
    <2> QED
      BY <2>1, <2>2, <2>3, <2>4, <2>5
  <1>5. ASSUME NEW t \in Tickets
        PROVE  /\ audit'[t] \in Seq(BreachMarks) /\ Once(audit'[t])
               /\ \A i \in 1..Len(audit'[t]) :
                    \/ i \in 1..Len(audit[t]) /\ audit'[t][i] = audit[t][i]
                    \/ audit'[t][i] \in scan[w] /\ audit'[t][i].ticket = t
    <2> DEFINE first == MarkOf(w, t, "first_response")
               resolution == MarkOf(w, t, "resolution")
               rows == audit[t] \o AuditRows(first)
    <2>1. audit[t] \in Seq(BreachMarks) /\ Once(audit[t])
      BY DEF Typed, AnnouncedOnce, Once
    <2>2. \A m \in scan[w] : m.ticket = t => \A i \in 1..Len(audit[t]) :
            audit[t][i].cycle # m.cycle \/ audit[t][i].timer # m.timer
      BY DEF ScansHoldTheirRows, AuditIsMarked
    <2>3. /\ first \in SUBSET BreachMarks /\ resolution \in SUBSET BreachMarks
          /\ \A m \in first : m \in scan[w] /\ m.ticket = t /\ m.timer = "first_response"
          /\ \A m \in resolution : m \in scan[w] /\ m.ticket = t /\ m.timer = "resolution"
      BY <1>2 DEF MarkOf
    <2>4. audit'[t] = rows \o AuditRows(resolution)
      BY <1>1
    <2> HIDE DEF first, resolution
    <2>5. /\ rows \in Seq(BreachMarks) /\ Once(rows)
          /\ \A i \in 1..Len(rows) : \/ i \in 1..Len(audit[t]) /\ rows[i] = audit[t][i]
                                     \/ rows[i] \in first
      BY <2>1, <2>2, <2>3, FreshRow
    <2> HIDE DEF rows
    <2>6. \A m \in resolution : \A i \in 1..Len(rows) :
            rows[i].cycle # m.cycle \/ rows[i].timer # m.timer
      BY <2>2, <2>3, <2>5
    <2>7. /\ audit'[t] \in Seq(BreachMarks) /\ Once(audit'[t])
          /\ \A i \in 1..Len(audit'[t]) : \/ i \in 1..Len(rows) /\ audit'[t][i] = rows[i]
                                          \/ audit'[t][i] \in resolution
      BY <2>3, <2>4, <2>5, <2>6, FreshRow
    <2> QED
      BY <2>3, <2>5, <2>7
  <1>6. Typed'
    <2>1. cycles' \in [Tickets -> Seq(CycleRows)]
      <3>1. cycles' = [t \in Tickets |-> cycles'[t]]
        BY <1>1
      <3> QED
        BY <1>4, <3>1
    <2>2. audit' \in [Tickets -> Seq(BreachMarks)]
      <3>1. audit' = [t \in Tickets |-> audit'[t]]
        BY <1>1
      <3> QED
        BY <1>5, <3>1
    <2>3. scan' \in [Workers -> SUBSET BreachMarks]
      BY <1>1 DEF Typed
    <2> QED
      BY <1>1, <2>1, <2>2, <2>3 DEF Typed
  <1> HIDE DEF Mine
  <1>7. InTime'
    <2> SUFFICES ASSUME NEW t \in Tickets
                 PROVE  /\ \A i \in 1..Len(cycles'[t]) : cycles'[t][i].pauseStart <= clock
                        /\ handler[t] # Idle =>
                             /\ Exists(t) /\ handler[t].now <= clock
                             /\ \A i \in 1..Len(cycles'[t]) : cycles'[t][i].pauseStart <= handler[t].now
      BY <1>1 DEF InTime, Exists
    <2> QED
      BY <1>4 DEF InTime
  <1>8. ReadsStayCurrent'
    <2> SUFFICES ASSUME NEW t \in Tickets, handler[t] # Idle
                 PROVE  cycles'[t] = cycles[t]
      BY <1>1 DEF ReadsStayCurrent
    <2>1. \A i \in 1..Len(cycles[t]) : Mine(t, i) = {}
      BY <1>1 DEF TicketIsFree, Mine
    <2>2. ASSUME NEW i \in 1..Len(cycles[t]) PROVE cycles'[t][i] = cycles[t][i]
      <3>1. cycles[t][i] \in CycleRows /\ cycles'[t][i] = Marked(cycles[t][i], Mine(t, i))
        BY <1>4
      <3> QED
        BY <2>1, <3>1, NothingMarked
    <2> QED
      BY <1>4, <2>2
  <1>9. ScansHoldTheirRows'
    <2>1. ASSUME NEW v \in Workers, NEW m \in scan'[v]
          PROVE  /\ m.cycle \in 1..Len(cycles'[m.ticket])
                 /\ Column(cycles'[m.ticket][m.cycle], m.timer) = 0
      <3>1. v # w /\ m \in scan[v]
        BY <1>3
      <3>2. m.ticket \in Tickets
        BY <3>1 DEF Typed, BreachMarks
      <3>3. Mine(m.ticket, m.cycle) = {}
        BY <3>1 DEF ScansHoldTheirRows, Mine
      <3>4. m.cycle \in 1..Len(cycles[m.ticket]) /\ Column(cycles[m.ticket][m.cycle], m.timer) = 0
        BY <3>1 DEF ScansHoldTheirRows
      <3>5. cycles'[m.ticket][m.cycle] = cycles[m.ticket][m.cycle]
        <4>1. /\ cycles[m.ticket][m.cycle] \in CycleRows
              /\ cycles'[m.ticket][m.cycle] = Marked(cycles[m.ticket][m.cycle], Mine(m.ticket, m.cycle))
          BY <1>4, <3>2, <3>4
        <4> QED
          BY <3>3, <4>1, NothingMarked
      <3> QED
        BY <1>4, <3>2, <3>4, <3>5
    <2>2. \A v \in Workers : \A m \in scan'[v] : m \in scan[v]
      BY <1>3
    <2> QED
      BY <2>1, <2>2 DEF ScansHoldTheirRows
  <1>10. AuditIsMarked'
    <2> SUFFICES ASSUME NEW t \in Tickets, NEW i \in 1..Len(audit'[t])
                 PROVE  /\ audit'[t][i].cycle \in 1..Len(cycles'[t])
                        /\ Column(cycles'[t][audit'[t][i].cycle], audit'[t][i].timer) # 0
      BY DEF AuditIsMarked
    <2>1. PICK row \in BreachMarks : row = audit'[t][i]
      <3>1. audit'[t] \in Seq(BreachMarks)
        BY <1>5
      <3> QED
        BY <3>1
    <2>2. row.timer \in Timers
      BY DEF BreachMarks
    <2>3. CASE i \in 1..Len(audit[t]) /\ row = audit[t][i]
      <3>1. row.cycle \in 1..Len(cycles[t]) /\ Column(cycles[t][row.cycle], row.timer) # 0
        BY <2>3 DEF AuditIsMarked
      <3> QED
        BY <1>4, <2>1, <2>2, <3>1
    <2>4. CASE row \in scan[w] /\ row.ticket = t
      <3>1. row.cycle \in 1..Len(cycles[t]) /\ row \in Mine(t, row.cycle)
        BY <2>4 DEF ScansHoldTheirRows, Mine
      <3> QED
        BY <1>4, <2>1, <2>2, <3>1
    <2> QED
      BY <1>5, <2>1, <2>3, <2>4
  <1>11. AnnouncedOnce'
    <2>1. \A t \in Tickets : audit'[t] \in Seq(BreachMarks) /\ Once(audit'[t])
      BY <1>5
    <2> QED
      BY <2>1 DEF AnnouncedOnce, Once
  <1>12. UnopenedIsEmpty'
    <2> SUFFICES ASSUME NEW t \in Tickets, ~Exists(t)
                 PROVE  cycles'[t] = << >>
      BY <1>1 DEF UnopenedIsEmpty, Exists
    <2>1. cycles[t] = << >>
      BY DEF UnopenedIsEmpty
    <2> QED
      BY <1>4, <2>1
  <1> QED
    BY <1>6, <1>7, <1>8, <1>9, <1>10, <1>11, <1>12

-----------------------------------------------------------------------------
LEMMA StepPreserves == IInv /\ [Next]_vars => IInv'
  <1> SUFFICES ASSUME IInv, [Next]_vars PROVE IInv'
    OBVIOUS
  <1>1. CASE Tick
    BY <1>1, TickPreserves
  <1>2. ASSUME NEW t \in Tickets, Handle(t) PROVE IInv'
    BY <1>2, CreatePreserves, LocksPreserve, CommitPreserves, HandlerRollbackPreserves DEF Handle
  <1>3. ASSUME NEW w \in Workers, Scan(w) PROVE IInv'
    BY <1>3, ScanPreserves, MarkingPreserves, ScanRollbackPreserves DEF Scan
  <1>4. CASE UNCHANGED vars
    BY <1>4 DEF vars, IInv, Typed, InTime, UnopenedIsEmpty, Exists, ReadsStayCurrent,
                ScansHoldTheirRows, AuditIsMarked, AnnouncedOnce
  <1> QED
    BY <1>1, <1>2, <1>3, <1>4 DEF Next

LEMMA InvariantHolds == Spec => []IInv
  BY InitEstablishes, StepPreserves, PTL DEF Spec

\* A handler reads its cycles without a lock, and still writes over what it has read:
\* the foreign key of the audit row holds the breach scan back while the ticket row is
\* locked (sla.py:138-147, 224-305).
THEOREM HandlersReadCurrent == Spec => []ReadsStayCurrent
  <1>1. IInv => ReadsStayCurrent
    BY DEF IInv
  <1> QED
    BY <1>1, InvariantHolds, PTL

\* No timer of a cycle is announced twice, for any number of workers that scan, crash
\* and start again, and whatever the handlers do to the deadlines (sla.py:224-305).
THEOREM BreachesAreAnnouncedOnce == Spec => []AnnouncedOnce
  <1>1. IInv => AnnouncedOnce
    BY DEF IInv
  <1> QED
    BY <1>1, InvariantHolds, PTL

-----------------------------------------------------------------------------
(* The books of one cycle.                                                 *)

\* The pause that is running, in ticks.
Running(c, now) == IF c.pauseStart = 0 THEN 0 ELSE now - c.pauseStart

\* At now the pauses of the cycle are the time w that its ticket has waited, less s ticks
\* of rounding at most, and the deadline grants that time: exactly, if nothing excuses it.
Balance(c, w, s, excused, now) ==
  /\ c.pauseStart <= now /\ c.started <= now /\ w <= now - c.started
  /\ Second * c.paused + Running(c, now) <= w
  /\ w <= Second * c.paused + Running(c, now) + s
  /\ excused \/ EffectiveDue(c, now) <= c.started + ResolutionTarget[c.priority] + w
  /\ c.started + ResolutionTarget[c.priority] + w <= EffectiveDue(c, now) + s
  /\ c.firstAt = 0 => c.firstDue = c.started + FirstTarget[c.priority]

LEMMA TargetsAreTimes ==
  ASSUME NEW p \in Priorities
  PROVE  ResolutionTarget[p] \in Nat /\ FirstTarget[p] \in Nat
  BY TargetAssumption

\* Whole seconds of a stretch of ticks.
LEMMA WholeSeconds ==
  ASSUME NEW n \in Nat
  PROVE  /\ n \div Second \in Nat
         /\ Second * (n \div Second) <= n
         /\ n <= Second * (n \div Second) + (Second - 1)
  BY TargetAssumption

LEMMA PausesAdd ==
  ASSUME NEW m \in Nat, NEW n \in Nat
  PROVE  Second * (m + n) = Second * m + Second * n /\ Second * m \in Nat
  BY TargetAssumption

\* The columns of a cycle that are counted with.
LEMMA CycleNumbers ==
  ASSUME NEW c \in CycleRows
  PROVE  /\ c.started \in Nat /\ c.due \in Nat /\ c.paused \in Nat /\ c.pauseStart \in Nat
         /\ c.completed \in Nat /\ c.breached \in Nat /\ c.firstBreached \in Nat
         /\ c.firstAt \in Nat /\ c.firstDue \in Nat /\ c.due # 0 /\ c.firstDue # 0
         /\ Second * c.paused \in Nat /\ c.priority \in Priorities
         /\ ResolutionTarget[c.priority] \in Nat /\ FirstTarget[c.priority] \in Nat
  <1>1. /\ c.started \in Nat /\ c.due \in Nat /\ c.paused \in Nat /\ c.pauseStart \in Nat
        /\ c.completed \in Nat /\ c.breached \in Nat /\ c.firstBreached \in Nat
        /\ c.firstAt \in Nat /\ c.firstDue \in Nat /\ c.due # 0 /\ c.firstDue # 0
        /\ c.priority \in Priorities
    BY DEF CycleRows, Positive
  <1>2. Second * c.paused \in Nat
    BY <1>1, PausesAdd
  <1> QED
    BY <1>1, <1>2, TargetsAreTimes

\* Time goes on: a running pause and the waiting grow alike.
LEMMA BalanceLater ==
  ASSUME NEW c \in CycleRows, NEW w \in Nat, NEW s \in Nat, NEW x, NEW e \in Nat, NEW now \in Nat,
         e <= now, Balance(c, w, s, x, e),
         NEW v \in Nat, v = w + (IF c.pauseStart = 0 THEN 0 ELSE now - e)
  PROVE  Balance(c, v, s, x, now)
  <1>1. PICK p \in Nat, t \in Nat, b \in Nat, d \in Nat, ps \in Nat :
          /\ p = Second * c.paused /\ t = ResolutionTarget[c.priority] /\ b = c.started
          /\ d = c.due /\ ps = c.pauseStart
    BY CycleNumbers
  <1>2. CASE ps = 0
    BY <1>1, <1>2 DEF Balance, Running, EffectiveDue
  <1>3. CASE ps # 0
    BY <1>1, <1>3 DEF Balance, Running, EffectiveDue
  <1> QED
    BY <1>2, <1>3

\* More rounding, and an excuse, do no harm.
LEMMA BalanceWeakens ==
  ASSUME NEW c \in CycleRows, NEW w \in Nat, NEW s \in Nat, NEW x, NEW now \in Nat,
         Balance(c, w, s, x, now), NEW r \in Nat, s <= r, NEW y, x => y
  PROVE  Balance(c, w, r, y, now)
  <1>1. PICK p \in Nat, t \in Nat, b \in Nat, d \in Nat, ps \in Nat :
          /\ p = Second * c.paused /\ t = ResolutionTarget[c.priority] /\ b = c.started
          /\ d = c.due /\ ps = c.pauseStart
    BY CycleNumbers
  <1>2. c.pauseStart <= now
    BY DEF Balance
  <1>3. Running(c, now) \in Nat /\ EffectiveDue(c, now) \in Nat
    BY <1>1, <1>2 DEF Running, EffectiveDue
  <1>4. PICK run \in Nat, due \in Nat : run = Running(c, now) /\ due = EffectiveDue(c, now)
    BY <1>3
  <1> QED
    BY <1>1, <1>4 DEF Balance

\* A pause that begins.
LEMMA BalancePaused ==
  ASSUME NEW c \in CycleRows, NEW w \in Nat, NEW s \in Nat, NEW x, NEW now \in Positive,
         Balance(c, w, s, x, now)
  PROVE  Balance(Paused(c, now), w, s, x, now)
  <1>1. CASE c.pauseStart # 0
    BY <1>1 DEF Paused
  <1>2. CASE c.pauseStart = 0
    <2> DEFINE d == [c EXCEPT !.pauseStart = now]
    <2>1. /\ d.paused = c.paused /\ d.due = c.due /\ d.started = c.started /\ d.firstAt = c.firstAt
          /\ d.priority = c.priority /\ d.firstDue = c.firstDue /\ d.pauseStart = now
      BY DEF CycleRows
    <2>2. Paused(c, now) = d
      BY <1>2 DEF Paused
    <2> HIDE DEF d
    <2>3. now - now = 0 /\ now # 0 /\ now <= now /\ now \in Nat
      BY DEF Positive
    <2>4. Running(d, now) = Running(c, now)
      BY <1>2, <2>1, <2>3 DEF Running
    <2>5. EffectiveDue(d, now) = EffectiveDue(c, now)
      <3>1. c.due + 0 = c.due
        BY DEF CycleRows, Positive
      <3> QED
        BY <1>2, <2>1, <2>3, <3>1 DEF EffectiveDue
    <2> QED
      BY <2>1, <2>2, <2>3, <2>4, <2>5 DEF Balance
  <1> QED
    BY <1>1, <1>2

\* A pause that ends is counted in whole seconds, and granted in ticks.
LEMMA BalanceResumed ==
  ASSUME NEW c \in CycleRows, NEW w \in Nat, NEW s \in Nat, NEW x, NEW now \in Positive,
         Balance(c, w, s, x, now), NEW r \in Nat,
         s <= r, c.pauseStart # 0 => s + (Second - 1) <= r
  PROVE  Balance(Resumed(c, now), w, r, x, now)
  <1>0. now \in Nat /\ Second \in Nat \ {0}
    BY TargetAssumption DEF Positive
  <1>1. CASE c.pauseStart = 0
    BY <1>0, <1>1, BalanceWeakens DEF Resumed
  <1>2. CASE c.pauseStart # 0
    <2>1. PICK p \in Nat, t \in Nat, b \in Nat, due \in Nat, ps \in Nat, paused \in Nat :
            /\ p = Second * c.paused /\ t = ResolutionTarget[c.priority] /\ b = c.started
            /\ due = c.due /\ ps = c.pauseStart /\ paused = c.paused
      BY CycleNumbers
    <2>2. PICK run \in Nat : run = now - ps
      BY <1>0, <2>1 DEF Balance
    <2>3. PICK q \in Nat : q = run \div Second /\ Second * q <= run /\ run <= Second * q + (Second - 1)
      BY WholeSeconds
    <2>4. PICK p2 \in Nat : p2 = Second * (paused + q) /\ p2 = p + Second * q
      <3>1. Second * (paused + q) = Second * paused + Second * q /\ Second * q \in Nat
        BY PausesAdd
      <3>2. p + Second * q \in Nat
        BY <3>1
      <3> QED
        BY <2>1, <3>1, <3>2
    <2>5. PICK sq \in Nat : sq = Second * q
      BY PausesAdd
    <2> DEFINE d == [c EXCEPT !.paused = paused + q, !.due = due + run, !.pauseStart = 0]
    <2>6. /\ d.paused = paused + q /\ d.due = due + run /\ d.started = c.started
          /\ d.firstAt = c.firstAt /\ d.priority = c.priority /\ d.firstDue = c.firstDue
          /\ d.pauseStart = 0
      BY DEF CycleRows
    <2>7. Resumed(c, now) = d
      BY <1>2, <2>1, <2>2, <2>3 DEF Resumed
    <2> HIDE DEF d
    <2>8. /\ Running(d, now) = 0 /\ EffectiveDue(d, now) = due + run
          /\ Running(c, now) = run /\ EffectiveDue(c, now) = due + run
          /\ Second * d.paused = p2
      BY <1>2, <2>1, <2>2, <2>4, <2>6 DEF Running, EffectiveDue
    <2>9. /\ p2 <= w /\ w <= p2 + r
          /\ b + t + w <= due + run + r
      <3>1. p + run <= w /\ w <= p + run + s /\ b + t + w <= due + run + s
        BY <2>1, <2>8 DEF Balance
      <3> QED
        BY <1>0, <1>2, <2>3, <2>4, <2>5, <3>1
    <2>10. b <= now /\ w <= now - b /\ 0 <= now /\ (x \/ due + run <= b + t + w)
      BY <1>0, <2>1, <2>8 DEF Balance
    <2>11. c.firstAt = 0 => c.firstDue = c.started + FirstTarget[c.priority]
      BY DEF Balance
    <2> QED
      BY <2>1, <2>6, <2>7, <2>8, <2>9, <2>10, <2>11 DEF Balance
  <1> QED
    BY <1>1, <1>2


LEMMA BalanceAnswered ==
  ASSUME NEW c \in CycleRows, NEW w, NEW s, NEW x, NEW now \in Positive, Balance(c, w, s, x, now)
  PROVE  Balance(Answered(c, now), w, s, x, now)
  <1> DEFINE d == Answered(c, now)
  <1>1. /\ d.started = c.started /\ d.due = c.due /\ d.paused = c.paused
        /\ d.priority = c.priority /\ d.pauseStart = c.pauseStart /\ d.firstAt # 0
    BY DEF Answered, CycleRows, Positive
  <1> HIDE DEF d
  <1> QED
    <2>1. Balance(d, w, s, x, now)
      BY <1>1 DEF Balance, Running, EffectiveDue
    <2> QED
      BY <2>1 DEF d

\* A new priority: the time that has counted so far counts against the new target, and a
\* pause that is running is granted twice from now on.
LEMMA BalanceRepriced ==
  ASSUME NEW c \in CycleRows, NEW w \in Nat, NEW s \in Nat, NEW x, NEW now \in Positive,
         Balance(c, w, s, x, now), NEW priority \in Priorities,
         NEW y, x => y, y \/ Running(c, now) = 0
  PROVE  Balance(Repriced(c, priority, now), w, s, y, now)
  <1>1. PICK p \in Nat, t \in Nat, b \in Nat, ps \in Nat :
          /\ p = Second * c.paused /\ t = ResolutionTarget[priority] /\ b = c.started
          /\ ps = c.pauseStart
    BY CycleNumbers, TargetsAreTimes
  <1>2. now \in Nat
    BY DEF Positive
  <1>3. PICK run \in Nat : run = Running(c, now)
    BY <1>1, <1>2 DEF Balance, Running
  <1>4. b <= now /\ ps <= now /\ w <= now - b /\ p + run <= w /\ w <= p + run + s
    BY <1>1, <1>3 DEF Balance
  <1>5. Eligible(c, now) = (now - b) - (p + run)
    <2>1. Eligible(c, now) = IF now - b > p + run THEN (now - b) - (p + run) ELSE 0
      BY <1>1, <1>3 DEF Eligible, Running
    <2> QED
      BY <1>2, <1>3, <1>4, <2>1
  <1> DEFINE due == (now + t) - Eligible(c, now)
             d == Repriced(c, priority, now)
  <1>6. due \in Nat /\ due = b + t + p + run
    BY <1>2, <1>4, <1>5
  <1>7. /\ d.due = due /\ d.started = c.started /\ d.paused = c.paused
        /\ d.pauseStart = c.pauseStart /\ d.priority = priority /\ d.firstAt = c.firstAt
        /\ d.firstAt = 0 => d.firstDue = c.started + FirstTarget[priority]
    BY <1>1 DEF Repriced, CycleRows
  <1> HIDE DEF d, due
  <1>8. Running(d, now) = run
    BY <1>3, <1>7 DEF Running
  <1>9. EffectiveDue(d, now) = due + run
    BY <1>3, <1>6, <1>7 DEF EffectiveDue, Running
  <1>10. /\ y \/ due + run <= b + t + w
         /\ b + t + w <= (due + run) + s
    BY <1>3, <1>4, <1>6
  <1> QED
    <2>1. Balance(d, w, s, y, now)
      BY <1>1, <1>4, <1>7, <1>8, <1>9, <1>10 DEF Balance
    <2> QED
      BY <2>1 DEF d

\* A cycle begins with its whole target.
LEMMA BalanceNew ==
  ASSUME NEW c \in CycleRows, NEW now \in Positive, NEW priority \in Priorities, NEW s \in Nat,
         c.started = now, c.priority = priority, c.due = now + ResolutionTarget[priority],
         c.paused = 0, c.pauseStart = 0,
         c.firstAt # 0 \/ c.firstDue = now + FirstTarget[priority], NEW x
  PROVE  Balance(c, 0, s, x, now)
  <1>1. now \in Nat /\ now - now = 0 /\ now <= now /\ 0 <= now
    BY DEF Positive
  <1>2. PICK t \in Nat : t = ResolutionTarget[priority]
    BY TargetsAreTimes
  <1>3. Second * c.paused = 0
    BY TargetAssumption
  <1>4. Running(c, now) = 0 /\ EffectiveDue(c, now) = now + t
    BY <1>2 DEF Running, EffectiveDue
  <1>5. now + t <= now + t + 0 /\ now + t + 0 <= (now + t) + s /\ 0 <= s /\ 0 + 0 <= 0 /\ 0 <= 0 + 0 + s
    BY <1>1, <1>2
  <1> QED
    BY <1>1, <1>2, <1>3, <1>4, <1>5 DEF Balance

\* A completion after the deadline is marked, with the deadline.
LEMMA LateCompletion ==
  ASSUME NEW c \in CycleRows, NEW w \in Nat, NEW s \in Nat, NEW x, NEW now \in Positive,
         Balance(c, w, s, x, now), ~x, (now - c.started) - w > ResolutionTarget[c.priority]
  PROVE  EffectiveDue(c, now) < now
  <1>1. PICK t \in Nat, b \in Nat : t = ResolutionTarget[c.priority] /\ b = c.started
    BY CycleNumbers
  <1>2. PICK due \in Nat : due = EffectiveDue(c, now)
    BY CycleNumbers DEF EffectiveDue, Balance, Positive
  <1>3. now \in Nat /\ due <= b + t + w /\ (now - b) - w > t
    BY <1>1, <1>2 DEF Balance, Positive
  <1> QED
    BY <1>1, <1>2, <1>3

\* After the deadline more than the target has been worked, but for the rounding.
LEMMA LateIsWorked ==
  ASSUME NEW c \in CycleRows, NEW w \in Nat, NEW s \in Nat, NEW x, NEW now \in Positive,
         Balance(c, w, s, x, now), EffectiveDue(c, now) < now
  PROVE  ((now - c.started) - w) + s > ResolutionTarget[c.priority]
  <1>1. PICK t \in Nat, b \in Nat : t = ResolutionTarget[c.priority] /\ b = c.started
    BY CycleNumbers
  <1>2. PICK due \in Nat : due = EffectiveDue(c, now)
    BY CycleNumbers DEF EffectiveDue, Balance, Positive
  <1>3. now \in Nat /\ due < now /\ b + t + w <= due + s
    BY <1>1, <1>2 DEF Balance, Positive
  <1> QED
    BY <1>1, <1>2, <1>3

-----------------------------------------------------------------------------
(* The history of a ticket.                                                *)

Entries == [status: Statuses, priority: Priorities, at: Positive]
Waits(row) == row.status = "WAITING_FOR_CUSTOMER"

\* What a ticket became, in order.
Chronicle(h) ==
  /\ h \in Seq(Entries) /\ Len(h) # 0
  /\ \A i, j \in 1..Len(h) : i <= j => h[i].at <= h[j].at

LEMMA EntryNumbers ==
  ASSUME NEW h, Chronicle(h)
  PROVE  /\ Len(h) \in Nat /\ 1 \in 1..Len(h) /\ Len(h) \in 1..Len(h) /\ DOMAIN h = 1..Len(h)
         /\ \A i \in 1..Len(h) : h[i] \in Entries /\ h[i].at \in Nat /\ h[i].at # 0
  <1>1. /\ Len(h) \in Nat /\ Len(h) # 0 /\ DOMAIN h = 1..Len(h)
        /\ \A i \in 1..Len(h) : h[i] \in Entries
    BY DEF Chronicle
  <1> QED
    BY <1>1 DEF Entries, Positive

\* A set of positions that is not empty has a last one.
LEMMA LastPosition ==
  ASSUME NEW n \in Nat, NEW U \in SUBSET (1..n), U # {}
  PROVE  \E m \in U : \A j \in U : j <= m
  <1> DEFINE T == {n - i : i \in U}
  <1>1. T \subseteq Nat /\ T # {}
    <2>1. \A i \in U : n - i \in Nat
      OBVIOUS
    <2>2. \E i \in U : n - i \in T
      OBVIOUS
    <2> QED
      BY <2>1, <2>2
  <1>2. \E x \in T : \A y \in T : ~ (<<y, x>> \in OpToRel(<, Nat))
    <2> HIDE DEF T
    <2> QED
      BY <1>1, NatLessThanWellFounded, WFMin
  <1>3. PICK x \in T : \A y \in T : ~ (<<y, x>> \in OpToRel(<, Nat))
    BY <1>2
  <1>4. PICK m \in U : x = n - m
    OBVIOUS
  <1>5. ASSUME NEW j \in U PROVE j <= m
    <2>1. n - j \in T /\ n - j \in Nat /\ x \in Nat
      BY <1>1
    <2>2. ~(n - j < x)
      BY <1>3, <2>1 DEF OpToRel
    <2> QED
      BY <1>4, <2>2
  <1> QED
    BY <1>5

\* An entry in force is the last one that is not later.
LEMMA InForceIsEntry ==
  ASSUME NEW h, Chronicle(h), NEW k \in Nat, h[1].at <= k
  PROVE  \E m \in 1..Len(h) :
           /\ h[m].at <= k /\ InForce(h, k) = h[m]
           /\ \A j \in 1..Len(h) : h[j].at <= k => j <= m
  <1> DEFINE U == {i \in DOMAIN h : h[i].at <= k}
             m == CHOOSE i \in U : \A j \in U : j <= i
  <1>1. U \in SUBSET (1..Len(h)) /\ U # {} /\ Len(h) \in Nat
    BY EntryNumbers
  <1>2. \E i \in U : \A j \in U : j <= i
    <2> HIDE DEF U
    <2> QED
      BY <1>1, LastPosition
  <1>3. m \in U /\ \A j \in U : j <= m
    <2> HIDE DEF U
    <2> QED
      BY <1>2
  <1>4. InForce(h, k) = h[m]
    BY DEF InForce
  <1>5. m \in 1..Len(h) /\ h[m].at <= k
    BY <1>1, <1>3
  <1>6. \A j \in 1..Len(h) : h[j].at <= k => j <= m
    BY <1>3, EntryNumbers
  <1> HIDE DEF m, U
  <1> QED
    BY <1>4, <1>5, <1>6

LEMMA InForceLast ==
  ASSUME NEW h, Chronicle(h), NEW k \in Nat, h[Len(h)].at <= k
  PROVE  InForce(h, k) = h[Len(h)]
  <1>1. h[1].at <= k
    BY EntryNumbers DEF Chronicle
  <1>2. PICK m \in 1..Len(h) : /\ h[m].at <= k /\ InForce(h, k) = h[m]
                               /\ \A j \in 1..Len(h) : h[j].at <= k => j <= m
    BY <1>1, InForceIsEntry
  <1> QED
    BY <1>2, EntryNumbers

\* A history that goes on.
LEMMA ChronicleGoesOn ==
  ASSUME NEW h, Chronicle(h), NEW e \in Entries, h[Len(h)].at <= e.at
  PROVE  /\ Chronicle(Append(h, e)) /\ Len(Append(h, e)) = Len(h) + 1
         /\ Append(h, e)[Len(h) + 1] = e
         /\ \A i \in 1..Len(h) : Append(h, e)[i] = h[i]
  <1> DEFINE g == Append(h, e)
  <1>1. /\ g \in Seq(Entries) /\ Len(g) = Len(h) + 1 /\ g[Len(h) + 1] = e /\ Len(h) \in Nat
        /\ \A i \in 1..Len(h) : g[i] = h[i]
    BY DEF Chronicle
  <1> HIDE DEF g
  <1>2. ASSUME NEW i \in 1..Len(g), NEW j \in 1..Len(g), i <= j PROVE g[i].at <= g[j].at
    <2>1. e.at \in Nat
      BY DEF Entries, Positive
    <2>2. CASE j \in 1..Len(h)
      BY <1>1, <1>2, <2>2 DEF Chronicle
    <2>3. CASE j \notin 1..Len(h) /\ i \in 1..Len(h)
      <3>1. h[i].at <= h[Len(h)].at /\ h[i].at \in Nat /\ h[Len(h)].at \in Nat
        BY <2>3, EntryNumbers DEF Chronicle
      <3>2. g[j] = e /\ g[i] = h[i]
        BY <1>1, <2>3
      <3> QED
        BY <2>1, <3>1, <3>2
    <2>4. CASE j \notin 1..Len(h) /\ i \notin 1..Len(h)
      BY <1>1, <1>2, <2>1, <2>4
    <2> QED
      BY <2>2, <2>3, <2>4
  <1>3. Chronicle(g)
    BY <1>1, <1>2 DEF Chronicle
  <1> QED
    BY <1>1, <1>3 DEF g

LEMMA InForceKept ==
  ASSUME NEW h, Chronicle(h), NEW e \in Entries, h[Len(h)].at <= e.at,
         NEW k \in Nat, h[1].at <= k, k < e.at
  PROVE  InForce(Append(h, e), k) = InForce(h, k)
  <1> DEFINE g == Append(h, e)
  <1>1. /\ Chronicle(g) /\ Len(g) = Len(h) + 1 /\ g[Len(h) + 1] = e
        /\ \A i \in 1..Len(h) : g[i] = h[i]
    BY ChronicleGoesOn
  <1> HIDE DEF g
  <1>2. Len(h) \in Nat /\ 1 \in 1..Len(h) /\ e.at \in Nat
    BY EntryNumbers DEF Entries, Positive
  <1>3. PICK m \in 1..Len(h) : /\ h[m].at <= k /\ InForce(h, k) = h[m]
                               /\ \A j \in 1..Len(h) : h[j].at <= k => j <= m
    BY InForceIsEntry
  <1>4. PICK n \in 1..Len(g) : /\ g[n].at <= k /\ InForce(g, k) = g[n]
                               /\ \A j \in 1..Len(g) : g[j].at <= k => j <= n
    BY <1>1, <1>2, InForceIsEntry
  <1>5. n \in 1..Len(h)
    BY <1>1, <1>2, <1>4
  <1>6. n = m
    BY <1>1, <1>2, <1>3, <1>4, <1>5
  <1>7. InForce(g, k) = InForce(h, k)
    BY <1>1, <1>3, <1>4, <1>6
  <1> QED
    BY <1>7 DEF g

\* The instants at which the ticket waited.
WaitingTicks(h, from, to) == {k \in from..(to - 1) : Waits(InForce(h, k))}

LEMMA WaitedCounts ==
  ASSUME NEW h, NEW from \in Nat, NEW to \in Nat, from <= to
  PROVE  /\ IsFiniteSet(WaitingTicks(h, from, to))
         /\ Waited(h, from, to) = Cardinality(WaitingTicks(h, from, to))
         /\ Waited(h, from, to) \in Nat /\ Waited(h, from, to) <= to - from
  <1> DEFINE all == from..(to - 1)
  <1>1. WaitingTicks(h, from, to) \in SUBSET all
    BY DEF WaitingTicks
  <1>2. IsFiniteSet(all) /\ Cardinality(all) = to - from
    <2>1. from \in Int /\ to - 1 \in Int
      OBVIOUS
    <2>2. IsFiniteSet(all) /\ Cardinality(all) = IF from > to - 1 THEN 0 ELSE (to - 1) - from + 1
      BY <2>1, FS_Interval
    <2> QED
      BY <2>2
  <1>3. Waited(h, from, to) = Cardinality(WaitingTicks(h, from, to))
    BY DEF Waited, WaitingTicks, Waits
  <1> HIDE DEF all
  <1>4. /\ IsFiniteSet(WaitingTicks(h, from, to))
        /\ Cardinality(WaitingTicks(h, from, to)) <= Cardinality(all)
        /\ Cardinality(WaitingTicks(h, from, to)) \in Nat
    BY <1>1, <1>2, FS_Subset, FS_CardinalityType
  <1> QED
    BY <1>2, <1>3, <1>4

\* From the last entry on, all of the time is waiting, or none.
LEMMA WaitedOn ==
  ASSUME NEW h, Chronicle(h), NEW from \in Nat, NEW a \in Nat, NEW b \in Nat,
         from <= a, a <= b, h[Len(h)].at <= a
  PROVE  Waited(h, from, b) = Waited(h, from, a) + (IF Waits(h[Len(h)]) THEN b - a ELSE 0)
  <1> DEFINE late == a..(b - 1)
  <1>1. ASSUME NEW k \in late PROVE InForce(h, k) = h[Len(h)]
    <2>1. k \in Nat /\ a <= k
      OBVIOUS
    <2>2. h[Len(h)].at \in Nat
      BY EntryNumbers
    <2>3. h[Len(h)].at <= k
      BY <2>1, <2>2
    <2> QED
      BY <2>1, <2>3, InForceLast
  <1>2. /\ IsFiniteSet(WaitingTicks(h, from, a)) /\ Waited(h, from, a) \in Nat
        /\ Waited(h, from, a) = Cardinality(WaitingTicks(h, from, a))
        /\ Waited(h, from, b) = Cardinality(WaitingTicks(h, from, b))
    <2>1. from <= b
      OBVIOUS
    <2> QED
      BY <2>1, WaitedCounts
  <1>3. CASE Waits(h[Len(h)])
    <2>1. WaitingTicks(h, from, b) = WaitingTicks(h, from, a) \cup late
      BY <1>1, <1>3 DEF WaitingTicks
    <2>2. WaitingTicks(h, from, a) \cap late = {}
      BY DEF WaitingTicks
    <2>3. IsFiniteSet(late) /\ Cardinality(late) = b - a
      <3>1. a \in Int /\ b - 1 \in Int
        OBVIOUS
      <3>2. IsFiniteSet(late) /\ Cardinality(late) = IF a > b - 1 THEN 0 ELSE (b - 1) - a + 1
        BY <3>1, FS_Interval
      <3> QED
        BY <3>2
    <2> HIDE DEF late
    <2>4. Cardinality(WaitingTicks(h, from, a) \cup late) =
            Cardinality(WaitingTicks(h, from, a)) + Cardinality(late)
              - Cardinality(WaitingTicks(h, from, a) \cap late)
      BY <1>2, <2>3, FS_Union
    <2>5. Cardinality(WaitingTicks(h, from, a) \cap late) = 0
      BY <2>2, FS_EmptySet
    <2> QED
      BY <1>2, <1>3, <2>1, <2>3, <2>4, <2>5
  <1>4. CASE ~Waits(h[Len(h)])
    <2>1. WaitingTicks(h, from, b) = WaitingTicks(h, from, a)
      BY <1>1, <1>4 DEF WaitingTicks
    <2> QED
      BY <1>2, <1>4, <2>1
  <1> QED
    BY <1>3, <1>4

\* What comes later does not change how long a ticket has waited.
LEMMA WaitedKept ==
  ASSUME NEW h, Chronicle(h), NEW e \in Entries, h[Len(h)].at <= e.at,
         NEW from \in Nat, NEW to \in Nat, h[1].at <= from, to <= e.at
  PROVE  Waited(Append(h, e), from, to) = Waited(h, from, to)
  <1>1. ASSUME NEW k \in from..(to - 1) PROVE InForce(Append(h, e), k) = InForce(h, k)
    <2>1. h[1].at \in Nat /\ e.at \in Nat
      BY EntryNumbers DEF Entries, Positive
    <2>2. k \in Nat /\ h[1].at <= k /\ k < e.at
      BY <2>1
    <2> QED
      BY <2>2, InForceKept
  <1> HIDE DEF InForce
  <1> QED
    BY <1>1 DEF Waited

\* The ends of the pauses since an instant.
PauseEnds(h, from) ==
  {i \in DOMAIN h \ {1} : h[i].at >= from /\ Waits(h[i - 1]) /\ ~Waits(h[i])}

LEMMA SlackCounts ==
  ASSUME NEW h, Chronicle(h), NEW c
  PROVE  /\ IsFiniteSet(PauseEnds(h, c.started)) /\ Cardinality(PauseEnds(h, c.started)) \in Nat
         /\ Slack(h, c) = (Second - 1) * Cardinality(PauseEnds(h, c.started))
         /\ Slack(h, c) \in Nat
  <1>1. PauseEnds(h, c.started) \in SUBSET (1..Len(h))
    BY EntryNumbers DEF PauseEnds
  <1>2. IsFiniteSet(1..Len(h))
    <2>1. 1 \in Int /\ Len(h) \in Int
      BY EntryNumbers
    <2> QED
      BY <2>1, FS_Interval
  <1>3. IsFiniteSet(PauseEnds(h, c.started)) /\ Cardinality(PauseEnds(h, c.started)) \in Nat
    BY <1>1, <1>2, FS_Subset, FS_CardinalityType
  <1>4. Slack(h, c) = (Second - 1) * Cardinality(PauseEnds(h, c.started))
    BY DEF Slack, PauseEnds, Waits, WaitingAt
  <1>5. \A n \in Nat : (Second - 1) * n \in Nat
    BY TargetAssumption
  <1> QED
    BY <1>3, <1>4, <1>5

\* Each pause that ends adds to the rounding.
LEMMA SlackGrows ==
  ASSUME NEW h, Chronicle(h), NEW e \in Entries, h[Len(h)].at <= e.at,
         NEW c \in CycleRows, c.started <= e.at
  PROVE  /\ Slack(Append(h, e), c) \in Nat
         /\ Slack(h, c) + (IF Waits(h[Len(h)]) /\ ~Waits(e) THEN Second - 1 ELSE 0)
              <= Slack(Append(h, e), c)
  <1> DEFINE g == Append(h, e)
             P == PauseEnds(h, c.started)
             Q == PauseEnds(g, c.started)
  <1>1. /\ Chronicle(g) /\ Len(g) = Len(h) + 1 /\ g[Len(h) + 1] = e
        /\ \A i \in 1..Len(h) : g[i] = h[i]
    BY ChronicleGoesOn
  <1> HIDE DEF g
  <1>2. /\ IsFiniteSet(P) /\ Cardinality(P) \in Nat /\ IsFiniteSet(Q) /\ Cardinality(Q) \in Nat
        /\ Slack(h, c) = (Second - 1) * Cardinality(P) /\ Slack(h, c) \in Nat
        /\ Slack(g, c) = (Second - 1) * Cardinality(Q) /\ Slack(g, c) \in Nat
    BY <1>1, SlackCounts
  <1>3. /\ Len(h) \in Nat /\ Len(h) \in 1..Len(h) /\ DOMAIN h = 1..Len(h)
        /\ DOMAIN g = 1..(Len(h) + 1)
    BY <1>1, EntryNumbers
  <1>4. ASSUME NEW i \in P PROVE i \in Q
    <2>1. i \in 1..Len(h) /\ i # 1 /\ i - 1 \in 1..Len(h)
      BY <1>3 DEF PauseEnds
    <2>2. g[i] = h[i] /\ g[i - 1] = h[i - 1] /\ i \in DOMAIN g
      BY <1>1, <1>3, <2>1
    <2> QED
      BY <2>1, <2>2 DEF PauseEnds
  <1>5. \A m, n \in Nat : m <= n => (Second - 1) * m <= (Second - 1) * n
    BY TargetAssumption
  <1>6. \A n \in Nat : (Second - 1) * (n + 1) = (Second - 1) * n + (Second - 1)
    BY TargetAssumption
  <1>7. CASE Waits(h[Len(h)]) /\ ~Waits(e)
    <2>1. Len(h) + 1 \in Q
      <3>1. Len(h) + 1 \in DOMAIN g \ {1} /\ g[Len(h) + 1] = e /\ g[(Len(h) + 1) - 1] = h[Len(h)]
        BY <1>1, <1>3
      <3>2. g[Len(h) + 1].at >= c.started
        BY <1>1
      <3> QED
        BY <1>7, <3>1, <3>2 DEF PauseEnds
    <2>2. Len(h) + 1 \notin P
      BY <1>3 DEF PauseEnds
    <2>3. P \cup {Len(h) + 1} \in SUBSET Q
      BY <1>4, <2>1
    <2>4. Cardinality(P \cup {Len(h) + 1}) = Cardinality(P) + 1
      BY <1>2, <2>2, FS_AddElement
    <2>5. Cardinality(P) + 1 <= Cardinality(Q)
      BY <1>2, <2>3, <2>4, FS_Subset
    <2>6. (Second - 1) * (Cardinality(P) + 1) <= (Second - 1) * Cardinality(Q)
      BY <1>2, <1>5, <2>5
    <2>7. Slack(h, c) + (Second - 1) <= Slack(g, c)
      BY <1>2, <1>6, <2>6
    <2> QED
      BY <1>2, <1>7, <2>7 DEF g
  <1>8. CASE ~(Waits(h[Len(h)]) /\ ~Waits(e))
    <2>1. P \in SUBSET Q
      BY <1>4
    <2>2. Cardinality(P) <= Cardinality(Q)
      BY <1>2, <2>1, FS_Subset
    <2>3. Slack(h, c) <= Slack(g, c)
      BY <1>2, <1>5, <2>2
    <2>4. Slack(h, c) + 0 <= Slack(g, c)
      BY <1>2, <2>3
    <2> QED
      BY <1>2, <1>8, <2>4 DEF g
  <1> QED
    BY <1>7, <1>8

\* A new priority in a pause stays in the history.
LEMMA RepricedWaitingStays ==
  ASSUME NEW h, Chronicle(h), NEW e \in Entries, h[Len(h)].at <= e.at,
         NEW c \in CycleRows, c.started <= e.at
  PROVE  /\ RepricedWaiting(h, c) => RepricedWaiting(Append(h, e), c)
         /\ Waits(h[Len(h)]) /\ Waits(e) /\ e.priority # h[Len(h)].priority
              => RepricedWaiting(Append(h, e), c)
  <1> DEFINE g == Append(h, e)
  <1>1. /\ Chronicle(g) /\ Len(g) = Len(h) + 1 /\ g[Len(h) + 1] = e
        /\ \A i \in 1..Len(h) : g[i] = h[i]
    BY ChronicleGoesOn
  <1> HIDE DEF g
  <1>2. /\ Len(h) \in Nat /\ Len(h) \in 1..Len(h) /\ DOMAIN h = 1..Len(h)
        /\ DOMAIN g = 1..(Len(h) + 1)
    BY <1>1, EntryNumbers
  <1>3. ASSUME RepricedWaiting(h, c) PROVE RepricedWaiting(g, c)
    <2>1. PICK i \in DOMAIN h \ {1} : /\ h[i].at >= c.started /\ h[i].priority # h[i - 1].priority
                                      /\ WaitingAt(h, i) /\ WaitingAt(h, i - 1)
      BY <1>3 DEF RepricedWaiting
    <2>2. i \in 1..Len(h) /\ i - 1 \in 1..Len(h) /\ i \in DOMAIN g \ {1}
      BY <1>2
    <2>3. g[i] = h[i] /\ g[i - 1] = h[i - 1]
      BY <1>1, <2>2
    <2> QED
      BY <2>1, <2>2, <2>3 DEF RepricedWaiting, WaitingAt
  <1>4. ASSUME Waits(h[Len(h)]), Waits(e), e.priority # h[Len(h)].priority
        PROVE  RepricedWaiting(g, c)
    <2>1. Len(h) + 1 \in DOMAIN g \ {1} /\ g[Len(h) + 1] = e /\ g[(Len(h) + 1) - 1] = h[Len(h)]
      BY <1>1, <1>2
    <2>2. g[Len(h) + 1].at >= c.started
      BY <1>1
    <2> QED
      BY <1>4, <2>1, <2>2 DEF RepricedWaiting, WaitingAt, Waits
  <1> QED
    BY <1>3, <1>4 DEF g

-----------------------------------------------------------------------------
(* A cycle against the history of its ticket.                              *)

\* The first response is marked if it was late, and only with what lies before it.
AnswerIsMarked(c) ==
  /\ c.firstAt > c.firstDue => c.firstBreached # 0
  /\ c.firstAt # 0 /\ c.firstBreached # 0 => c.firstBreached < c.firstAt

\* A cycle lies within the history, and its marks are those of what was late.
Sound(c, h) ==
  /\ c.active <=> c.completed = 0
  /\ h[1].at <= c.started /\ c.started <= h[Len(h)].at /\ c.completed <= h[Len(h)].at
  /\ LateIsRecorded(h, c) /\ BreachPrecedesStop(c)

\* The running cycle has the priority of its ticket, pauses while the ticket waits, and
\* its books balance since the last entry.
Books(c, h) ==
  LET e == h[Len(h)]
  IN  /\ c.pauseStart # 0 <=> Waits(e)
      /\ c.priority = e.priority
      /\ Balance(c, Waited(h, c.started, e.at), Slack(h, c), RepricedWaiting(h, c), e.at)

LEMMA SoundLater ==
  ASSUME NEW h, Chronicle(h), NEW e \in Entries, h[Len(h)].at <= e.at,
         NEW c \in CycleRows, Sound(c, h)
  PROVE  Sound(c, Append(h, e))
  <1> DEFINE g == Append(h, e)
  <1>1. /\ Chronicle(g) /\ Len(g) = Len(h) + 1 /\ g[Len(g)] = e /\ g[1] = h[1]
    BY ChronicleGoesOn, EntryNumbers
  <1>2. h[Len(h)].at \in Nat /\ h[1].at \in Nat /\ e.at \in Nat
    BY EntryNumbers DEF Entries, Positive
  <1>3. Waited(g, c.started, c.completed) = Waited(h, c.started, c.completed)
    <2>1. c.started \in Nat /\ c.completed \in Nat /\ h[1].at <= c.started /\ c.completed <= e.at
      BY <1>2, CycleNumbers DEF Sound
    <2> QED
      BY <2>1, WaitedKept
  <1>4. RepricedWaiting(h, c) => RepricedWaiting(g, c)
    <2>1. c.started <= e.at
      BY <1>2, CycleNumbers DEF Sound
    <2> QED
      BY <2>1, RepricedWaitingStays
  <1> HIDE DEF g
  <1>5. LateIsRecorded(g, c)
    BY <1>3, <1>4 DEF Sound, LateIsRecorded, Worked
  <1>6. c.started <= e.at /\ c.completed <= e.at
    BY <1>2, CycleNumbers DEF Sound
  <1>7. Sound(c, g)
    BY <1>1, <1>5, <1>6 DEF Sound
  <1> QED
    BY <1>7 DEF g

\* The books at an instant after the last entry.
LEMMA BooksLater ==
  ASSUME NEW h, Chronicle(h), NEW c \in CycleRows, Sound(c, h), Books(c, h),
         NEW now \in Nat, h[Len(h)].at <= now
  PROVE  /\ Waited(h, c.started, now) \in Nat /\ Slack(h, c) \in Nat
         /\ Balance(c, Waited(h, c.started, now), Slack(h, c), RepricedWaiting(h, c), now)
  <1> DEFINE e == h[Len(h)]
             w == Waited(h, c.started, e.at)
             v == Waited(h, c.started, now)
  <1>1. e.at \in Nat /\ c.started \in Nat /\ c.started <= e.at /\ c.started <= now
    BY EntryNumbers, CycleNumbers DEF Sound
  <1>2. w \in Nat /\ v \in Nat
    BY <1>1, WaitedCounts
  <1>3. v = w + (IF Waits(e) THEN now - e.at ELSE 0)
    BY <1>1, WaitedOn
  <1>4. Slack(h, c) \in Nat
    BY SlackCounts
  <1>5. /\ c.pauseStart # 0 <=> Waits(e)
        /\ Balance(c, w, Slack(h, c), RepricedWaiting(h, c), e.at)
    BY DEF Books
  <1> HIDE DEF w, v, e
  <1>6. v = w + (IF c.pauseStart = 0 THEN 0 ELSE now - e.at)
    BY <1>3, <1>5
  <1>7. e.at <= now
    BY DEF e
  <1>8. Balance(c, v, Slack(h, c), RepricedWaiting(h, c), now)
    BY <1>1, <1>2, <1>4, <1>5, <1>6, <1>7, BalanceLater
  <1> QED
    BY <1>2, <1>4, <1>8 DEF v

\* What a handler does to the running cycle of a ticket.
Moved(c, row, new, now) ==
  CASE new = row.status -> c
    [] new # row.status /\ new \in Completed -> CompletedCycle(c, now)
    [] new # row.status /\ new = "WAITING_FOR_CUSTOMER" -> Paused(c, now)
    [] new # row.status /\ new \notin Completed \cup {"WAITING_FOR_CUSTOMER"} -> Resumed(c, now)

Priced(c, row, r, now) ==
  IF c.active /\ PriorityAfter(row, r) # row.priority
  THEN Repriced(c, PriorityAfter(row, r), now) ELSE c

RunningAfter(c, row, r, now) ==
  IF r.kind = "staff_reply" THEN Answered(c, now)
  ELSE Priced(Moved(c, row, StatusAfter(row, r), now), row, r, now)

\* The columns that only an answer or a completion writes.
Untouched(c, d) ==
  /\ d.started = c.started /\ d.active = c.active /\ d.completed = c.completed
  /\ d.breached = c.breached /\ d.firstBreached = c.firstBreached /\ d.firstAt = c.firstAt

LEMMA MovedRunning ==
  ASSUME NEW c \in CycleRows, NEW row \in TicketRows, NEW new, NEW now \in Positive,
         new \notin Completed, c.pauseStart <= now, c.pauseStart # 0 <=> Waits(row),
         NEW w \in Nat, NEW s \in Nat, NEW x, Balance(c, w, s, x, now), NEW r \in Nat,
         s + (IF Waits(row) /\ new # "WAITING_FOR_CUSTOMER" THEN Second - 1 ELSE 0) <= r
  PROVE  LET d == Moved(c, row, new, now)
         IN  /\ d \in CycleRows /\ Untouched(c, d) /\ d.priority = c.priority
             /\ d.firstDue = c.firstDue /\ d.pauseStart <= now
             /\ d.pauseStart # 0 <=> new = "WAITING_FOR_CUSTOMER"
             /\ ~Waits(row) => Running(d, now) = 0
             /\ Balance(d, w, r, x, now)
  <1> DEFINE d == Moved(c, row, new, now)
  <1>0. now \in Nat /\ now # 0 /\ Second \in Nat \ {0} /\ c.pauseStart \in Nat /\ s <= r
    BY CycleNumbers, TargetAssumption DEF Positive
  <1>1. CASE new = row.status
    <2>1. d = c
      BY <1>1 DEF Moved
    <2>2. Balance(c, w, r, x, now)
      BY <1>0, BalanceWeakens
    <2> HIDE DEF d
    <2> QED
      BY <1>1, <2>1, <2>2 DEF Untouched, Waits, Running, d
  <1>2. CASE new # row.status /\ new = "WAITING_FOR_CUSTOMER"
    <2>1. d = Paused(c, now)
      BY <1>2 DEF Moved, Completed
    <2>2. Balance(Paused(c, now), w, s, x, now) /\ Paused(c, now) \in CycleRows
      BY BalancePaused, PausedFollows DEF Follows
    <2>3. c.pauseStart = 0
      BY <1>2 DEF Waits
    <2>4. d.pauseStart = now /\ Untouched(c, d) /\ d.priority = c.priority /\ d.firstDue = c.firstDue
      BY <2>1, <2>3 DEF Paused, Untouched, CycleRows
    <2> HIDE DEF d
    <2>5. Balance(d, w, r, x, now)
      BY <1>0, <2>1, <2>2, BalanceWeakens
    <2>6. Running(d, now) = 0
      BY <1>0, <2>4 DEF Running
    <2> QED
      BY <1>0, <1>2, <2>1, <2>2, <2>4, <2>5, <2>6 DEF d
  <1>3. CASE new # row.status /\ new # "WAITING_FOR_CUSTOMER"
    <2>1. d = Resumed(c, now)
      BY <1>3 DEF Moved
    <2>2. c.pauseStart # 0 => s + (Second - 1) <= r
      BY <1>3
    <2>3. Balance(Resumed(c, now), w, r, x, now) /\ Resumed(c, now) \in CycleRows
      BY <1>0, <2>2, BalanceResumed, ResumedFollows DEF Follows
    <2>4. d.pauseStart = 0 /\ Untouched(c, d) /\ d.priority = c.priority /\ d.firstDue = c.firstDue
      BY <2>1 DEF Resumed, Untouched, CycleRows
    <2> HIDE DEF d
    <2>5. Running(d, now) = 0
      BY <2>4 DEF Running
    <2> QED
      BY <1>0, <1>3, <2>1, <2>3, <2>4, <2>5 DEF d
  <1> QED
    BY <1>1, <1>2, <1>3

LEMMA PricedRunning ==
  ASSUME NEW c \in CycleRows, NEW row \in TicketRows, NEW r \in Requests, NEW now \in Positive,
         c.active, c.pauseStart <= now, c.priority = row.priority,
         NEW w \in Nat, NEW s \in Nat, NEW x, Balance(c, w, s, x, now),
         NEW y, x => y,
         PriorityAfter(row, r) = row.priority \/ y \/ Running(c, now) = 0
  PROVE  LET d == Priced(c, row, r, now)
         IN  /\ d \in CycleRows /\ Untouched(c, d) /\ d.priority = PriorityAfter(row, r)
             /\ d.firstAt # 0 => d.firstDue = c.firstDue
             /\ d.pauseStart = c.pauseStart
             /\ Balance(d, w, s, y, now)
  <1> DEFINE d == Priced(c, row, r, now)
             p == PriorityAfter(row, r)
  <1>0. p \in Priorities
    BY PriorityIsKnown
  <1> HIDE DEF p
  <1>1. CASE p = row.priority
    <2>1. d = c
      BY <1>1 DEF Priced, p
    <2>2. Balance(c, w, s, y, now)
      BY BalanceWeakens DEF Positive
    <2> HIDE DEF d
    <2> QED
      BY <1>1, <2>1, <2>2 DEF Untouched, d, p
  <1>2. CASE p # row.priority
    <2>1. d = Repriced(c, p, now)
      BY <1>2 DEF Priced, p
    <2>2. y \/ Running(c, now) = 0
      BY <1>2 DEF p
    <2>3. Balance(Repriced(c, p, now), w, s, y, now) /\ Repriced(c, p, now) \in CycleRows
      BY <1>0, <2>2, BalanceRepriced, RepricedFollows DEF Follows
    <2>4. /\ Untouched(c, d) /\ d.priority = p /\ d.pauseStart = c.pauseStart
          /\ d.firstAt # 0 => d.firstDue = c.firstDue
      BY <2>1 DEF Repriced, Untouched, CycleRows
    <2> HIDE DEF d
    <2> QED
      BY <2>1, <2>3, <2>4 DEF d, p
  <1> QED
    BY <1>1, <1>2

\* A cycle that goes on is sound if its answer is marked.
LEMMA RunningIsSound ==
  ASSUME NEW g, Chronicle(g), NEW c \in CycleRows, NEW d \in CycleRows, Sound(c, g), c.active,
         d.started = c.started, d.active = c.active, d.completed = c.completed, AnswerIsMarked(d)
  PROVE  Sound(d, g)
  <1>1. c.completed = 0
    BY DEF Sound
  <1> QED
    BY <1>1 DEF Sound, LateIsRecorded, BreachPrecedesStop, AnswerIsMarked

LEMMA AnsweredIsMarked ==
  ASSUME NEW c \in CycleRows, NEW now \in Positive, AnswerIsMarked(c), c.firstBreached < now
  PROVE  LET d == Answered(c, now)
         IN  /\ d \in CycleRows /\ AnswerIsMarked(d) /\ d.started = c.started /\ d.active = c.active
             /\ d.completed = c.completed /\ d.breached = c.breached /\ d.priority = c.priority
             /\ d.pauseStart = c.pauseStart /\ d.firstBreached < now
  <1> DEFINE d == Answered(c, now)
  <1>0. now \in Nat /\ now # 0
    BY DEF Positive
  <1>1. CASE c.firstAt # 0
    BY <1>1 DEF Answered
  <1>2. CASE c.firstAt = 0
    <2>1. PICK mark \in Nat : mark = IF now > c.firstDue THEN c.firstDue ELSE c.firstBreached
      BY CycleNumbers
    <2>2. d = [c EXCEPT !.firstAt = now, !.firstBreached = mark]
      <3>1. CASE now > c.firstDue
        BY <1>2, <2>1, <3>1 DEF Answered
      <3>2. CASE ~(now > c.firstDue)
        BY <1>2, <2>1, <3>2 DEF Answered
      <3> QED
        BY <3>1, <3>2
    <2> HIDE DEF d
    <2>3. d \in CycleRows
      BY <1>0, <2>2 DEF CycleRows
    <2>4. /\ d.firstAt = now /\ d.firstBreached = mark /\ d.firstDue = c.firstDue
          /\ d.started = c.started /\ d.active = c.active /\ d.priority = c.priority
          /\ d.completed = c.completed /\ d.breached = c.breached /\ d.pauseStart = c.pauseStart
      BY <2>2 DEF CycleRows
    <2>5. /\ now > c.firstDue => mark # 0
          /\ mark < now
      BY <1>0, <2>1, CycleNumbers
    <2>6. AnswerIsMarked(d)
      BY <1>0, <2>4, <2>5 DEF AnswerIsMarked
    <2> QED
      BY <2>3, <2>4, <2>5, <2>6 DEF d
  <1> QED
    BY <1>1, <1>2

LEMMA DueIsTime ==
  ASSUME NEW c \in CycleRows, NEW now \in Nat, c.pauseStart <= now
  PROVE  EffectiveDue(c, now) \in Nat /\ EffectiveDue(c, now) # 0
  <1>1. PICK ps \in Nat, was \in Nat : ps = c.pauseStart /\ was = c.due /\ was # 0
    BY CycleNumbers
  <1>2. EffectiveDue(c, now) = IF ps = 0 THEN was ELSE was + (now - ps)
    BY <1>1 DEF EffectiveDue
  <1> QED
    BY <1>1, <1>2

\* A completion that comes too late is marked, and one in time is not.
LEMMA CompletedIsSound ==
  ASSUME NEW g, Chronicle(g), NEW c \in CycleRows, NEW now \in Positive, g[Len(g)].at = now,
         Sound(c, g), c.active, c.pauseStart <= now, c.breached < now,
         NEW s \in Nat, Balance(c, Waited(g, c.started, now), s, RepricedWaiting(g, c), now)
  PROVE  LET d == CompletedCycle(c, now)
         IN  /\ d \in CycleRows /\ ~d.active /\ Sound(d, g)
             /\ d.started = c.started /\ d.priority = c.priority /\ d.pauseStart <= now
             /\ d.breached # c.breached => EffectiveDue(c, now) < now
             /\ d.breached < now /\ d.firstBreached = c.firstBreached
  <1> DEFINE d == CompletedCycle(c, now)
  <1>0. now \in Nat /\ now # 0
    BY DEF Positive
  <1>1. PICK due \in Nat : due = EffectiveDue(c, now) /\ due # 0
    BY <1>0, DueIsTime
  <1>2. d \in CycleRows
    BY CompletedFollows DEF Follows
  <1>3. /\ d.completed = now /\ ~d.active /\ d.pauseStart = 0 /\ d.started = c.started
        /\ d.priority = c.priority /\ d.firstAt = c.firstAt /\ d.firstDue = c.firstDue
        /\ d.firstBreached = c.firstBreached
        /\ d.breached = IF now > due THEN due ELSE c.breached
    BY <1>1 DEF CompletedCycle, CycleRows
  <1> HIDE DEF d
  <1>4. RepricedWaiting(g, d) <=> RepricedWaiting(g, c)
    BY <1>3 DEF RepricedWaiting
  <1>5. Worked(g, d, now) = (now - c.started) - Waited(g, c.started, now)
    BY <1>3 DEF Worked
  <1>6. ASSUME Worked(g, d, now) > ResolutionTarget[d.priority], ~RepricedWaiting(g, d)
        PROVE  d.breached # 0
    <2>1. c.started <= now /\ c.started \in Nat
      BY CycleNumbers DEF Balance
    <2>2. Waited(g, c.started, now) \in Nat
      BY <1>0, <2>1, WaitedCounts
    <2>3. (now - c.started) - Waited(g, c.started, now) > ResolutionTarget[c.priority]
          /\ ~RepricedWaiting(g, c)
      BY <1>3, <1>4, <1>5, <1>6
    <2>4. EffectiveDue(c, now) < now
      BY <2>2, <2>3, LateCompletion
    <2> QED
      BY <1>0, <1>1, <1>3, <2>4
  <1>7. LateIsRecorded(g, d)
    <2>1. d.firstAt > d.firstDue => d.firstBreached # 0
      BY <1>3 DEF Sound, LateIsRecorded
    <2> QED
      BY <1>3, <1>6, <2>1 DEF LateIsRecorded
  <1>8. BreachPrecedesStop(d)
    <2>1. d.firstAt # 0 /\ d.firstBreached # 0 => d.firstBreached < d.firstAt
      BY <1>3 DEF Sound, BreachPrecedesStop
    <2>2. d.breached < now
      BY <1>0, <1>1, <1>3
    <2> QED
      BY <1>3, <2>1, <2>2 DEF BreachPrecedesStop
  <1>9. Sound(d, g)
    <2>1. g[1].at <= d.started /\ d.started <= g[Len(g)].at /\ d.completed <= g[Len(g)].at
      BY <1>0, <1>3 DEF Sound
    <2> QED
      BY <1>0, <1>3, <1>7, <1>8, <2>1 DEF Sound
  <1>10. d.breached # c.breached => EffectiveDue(c, now) < now
    BY <1>0, <1>1, <1>3
  <1>11. d.pauseStart <= now /\ d.breached < now
    BY <1>0, <1>1, <1>3
  <1> QED
    BY <1>2, <1>3, <1>9, <1>10, <1>11 DEF d

\* The entry that a request leaves in the history.
EntryAfter(row, r, now) == Entry(TicketAfter(row, r, now), now)

LEMMA EntryAfterIsEntry ==
  ASSUME NEW row \in TicketRows, NEW r \in Requests, NEW now \in Positive
  PROVE  LET e == EntryAfter(row, r, now)
         IN  /\ e \in Entries /\ e.at = now
             /\ e.status = StatusAfter(row, r) /\ e.priority = PriorityAfter(row, r)
  BY RowIsKept DEF EntryAfter, Entry, Entries, TicketAfter, TicketRows

\* A handler leaves the running cycle of its ticket sound, with books that balance, or
\* completed; it marks a completion only after the deadline.
LEMMA RunningStep ==
  ASSUME NEW h, Chronicle(h), NEW row \in TicketRows, NEW r \in Requests, NEW now \in Positive,
         h[Len(h)].status = row.status, h[Len(h)].priority = row.priority, h[Len(h)].at <= now,
         row.status \notin Completed, NEW c \in CycleRows, c.active, Sound(c, h), Books(c, h),
         c.pauseStart <= now, c.breached < now, c.firstBreached < now
  PROVE  LET d == RunningAfter(c, row, r, now)
             g == Append(h, EntryAfter(row, r, now))
         IN  /\ d \in CycleRows /\ d.started = c.started /\ Sound(d, g)
             /\ d.active <=> StatusAfter(row, r) \notin Completed
             /\ d.active => Books(d, g)
             /\ d.breached # c.breached => d.priority = c.priority /\ EffectiveDue(c, now) < now
             /\ d.breached < now /\ d.firstBreached < now
  <1> DEFINE d == RunningAfter(c, row, r, now)
             e == EntryAfter(row, r, now)
             g == Append(h, e)
             new == StatusAfter(row, r)
             w == Waited(h, c.started, now)
  <1>0. now \in Nat /\ now # 0 /\ c.started \in Nat
    BY CycleNumbers DEF Positive
  <1>1. e \in Entries /\ e.at = now /\ e.status = new /\ e.priority = PriorityAfter(row, r)
    BY EntryAfterIsEntry
  <1> HIDE DEF e
  <1>2. Chronicle(g) /\ Len(g) = Len(h) + 1 /\ g[Len(g)] = e
    BY <1>1, ChronicleGoesOn, EntryNumbers
  <1>3. Sound(c, g)
    BY <1>1, SoundLater
  <1>4. c.started <= now
    BY <1>1, <1>2, <1>3 DEF Sound
  <1>5. w \in Nat /\ Balance(c, w, Slack(h, c), RepricedWaiting(h, c), now) /\ Slack(h, c) \in Nat
    BY <1>0, BooksLater
  <1>6. Waited(g, c.started, now) = w
    <2>1. h[1].at <= c.started /\ now <= e.at
      BY <1>0, <1>1 DEF Sound
    <2> QED
      BY <1>0, <1>1, <2>1, WaitedKept
  <1>7. /\ Slack(g, c) \in Nat
        /\ Slack(h, c) + (IF Waits(row) /\ ~Waits(e) THEN Second - 1 ELSE 0) <= Slack(g, c)
    BY <1>1, <1>4, SlackGrows DEF Waits
  <1>8. /\ RepricedWaiting(h, c) => RepricedWaiting(g, c)
        /\ Waits(row) /\ Waits(e) /\ e.priority # row.priority => RepricedWaiting(g, c)
    BY <1>1, <1>4, RepricedWaitingStays DEF Waits
  <1>9. (c.pauseStart # 0 <=> Waits(row)) /\ c.priority = row.priority
    BY DEF Books, Waits
  <1>10. AnswerIsMarked(c)
    BY DEF Sound, LateIsRecorded, BreachPrecedesStop, AnswerIsMarked
  <1> HIDE DEF g, w, new, d
  <1>11. ASSUME d \in CycleRows, d.started = c.started, d.active, d.completed = c.completed,
                AnswerIsMarked(d), d.pauseStart # 0 <=> Waits(e), d.priority = e.priority,
                Balance(d, w, Slack(g, c), RepricedWaiting(g, c), now)
         PROVE  Sound(d, g) /\ Books(d, g)
    <2>1. Sound(d, g)
      BY <1>2, <1>3, <1>11, RunningIsSound
    <2>2. Slack(g, d) = Slack(g, c) /\ (RepricedWaiting(g, d) <=> RepricedWaiting(g, c))
      BY <1>11 DEF Slack, RepricedWaiting
    <2>3. Waited(g, d.started, e.at) = w
      BY <1>1, <1>6, <1>11
    <2>4. Books(d, g)
      BY <1>1, <1>2, <1>11, <2>2, <2>3 DEF Books, Balance
    <2> QED
      BY <2>1, <2>4
  <1>12. CASE r.kind = "staff_reply"
    <2>1. d = Answered(c, now)
      BY <1>12 DEF d, RunningAfter
    <2>2. new = row.status /\ e.priority = row.priority
      BY <1>1, <1>12 DEF new, StatusAfter, PriorityAfter
    <2>3. /\ d \in CycleRows /\ AnswerIsMarked(d) /\ d.started = c.started /\ d.active = c.active
          /\ d.completed = c.completed /\ d.breached = c.breached /\ d.priority = c.priority
          /\ d.pauseStart = c.pauseStart /\ d.firstBreached < now
      BY <1>10, <2>1, AnsweredIsMarked
    <2>4. Balance(d, w, Slack(h, c), RepricedWaiting(h, c), now)
      BY <1>5, <2>1, BalanceAnswered
    <2>5. Slack(h, c) <= Slack(g, c)
      BY <1>5, <1>7, <1>1, <2>2 DEF Waits
    <2>6. Balance(d, w, Slack(g, c), RepricedWaiting(g, c), now)
      BY <1>0, <1>5, <1>7, <1>8, <2>3, <2>4, <2>5, BalanceWeakens
    <2>7. d.pauseStart # 0 <=> Waits(e)
      BY <1>1, <1>9, <2>2, <2>3 DEF Waits
    <2>8. Sound(d, g) /\ Books(d, g)
      BY <1>9, <1>11, <2>2, <2>3, <2>6, <2>7
    <2> QED
      BY <2>2, <2>3, <2>8 DEF d, g, new, e
  <1>13. CASE r.kind # "staff_reply" /\ new \notin Completed
    <2> DEFINE m == Moved(c, row, new, now)
    <2>1. d = Priced(m, row, r, now)
      BY <1>13 DEF d, RunningAfter, new
    <2>2. /\ m \in CycleRows /\ Untouched(c, m) /\ m.priority = c.priority
          /\ m.firstDue = c.firstDue /\ m.pauseStart <= now
          /\ m.pauseStart # 0 <=> new = "WAITING_FOR_CUSTOMER"
          /\ ~Waits(row) => Running(m, now) = 0
          /\ Balance(m, w, Slack(g, c), RepricedWaiting(h, c), now)
      <3>1. Slack(h, c) + (IF Waits(row) /\ new # "WAITING_FOR_CUSTOMER" THEN Second - 1 ELSE 0)
              <= Slack(g, c)
        BY <1>1, <1>7 DEF Waits
      <3>2. new \notin Completed
        BY <1>13
      <3> QED
        BY <1>5, <1>7, <1>9, <3>1, <3>2, MovedRunning
    <2> HIDE DEF m
    <2>3. PriorityAfter(row, r) = row.priority \/ RepricedWaiting(g, c) \/ Running(m, now) = 0
      <3>1. CASE ~Waits(row) \/ ~Waits(e)
        BY <1>1, <2>2, <3>1 DEF Waits, Running
      <3>2. CASE Waits(row) /\ Waits(e)
        BY <1>1, <1>8, <3>2
      <3> QED
        BY <3>1, <3>2
    <2>4. m.active /\ m.priority = row.priority
      BY <1>9, <2>2 DEF Untouched
    <2>5. /\ d \in CycleRows /\ Untouched(m, d) /\ d.priority = PriorityAfter(row, r)
          /\ d.firstAt # 0 => d.firstDue = m.firstDue
          /\ d.pauseStart = m.pauseStart
          /\ Balance(d, w, Slack(g, c), RepricedWaiting(g, c), now)
      BY <1>5, <1>7, <1>8, <2>1, <2>2, <2>3, <2>4, PricedRunning
    <2>6. /\ d.started = c.started /\ d.active /\ d.completed = c.completed
          /\ d.breached = c.breached /\ d.firstBreached = c.firstBreached
      BY <2>2, <2>5 DEF Untouched
    <2>7. AnswerIsMarked(d)
      <3>1. /\ d.firstAt = c.firstAt /\ d.firstBreached = c.firstBreached
            /\ d.firstAt # 0 => d.firstDue = c.firstDue
        BY <2>2, <2>5 DEF Untouched
      <3>2. d.firstAt \in Nat /\ d.firstDue \in Nat
        BY <2>5, CycleNumbers
      <3> QED
        BY <1>10, <3>1, <3>2 DEF AnswerIsMarked
    <2>8. d.pauseStart # 0 <=> Waits(e)
      BY <1>1, <2>2, <2>5 DEF Waits
    <2>9. Sound(d, g) /\ Books(d, g)
      BY <1>1, <1>11, <2>5, <2>6, <2>7, <2>8
    <2> QED
      BY <1>13, <2>5, <2>6, <2>9 DEF d, g, new, e
  <1>14. CASE r.kind # "staff_reply" /\ new \in Completed
    <2>1. Moved(c, row, new, now) = CompletedCycle(c, now)
      <3>1. new # row.status /\ new # "WAITING_FOR_CUSTOMER"
        BY <1>14 DEF Completed
      <3> QED
        BY <1>14, <3>1 DEF Moved
    <2> DEFINE k == CompletedCycle(c, now)
    <2>2. /\ k \in CycleRows /\ ~k.active /\ Sound(k, g)
          /\ k.started = c.started /\ k.priority = c.priority /\ k.pauseStart <= now
          /\ k.breached # c.breached => EffectiveDue(c, now) < now
          /\ k.breached < now /\ k.firstBreached = c.firstBreached
      <3>1. Balance(c, w, Slack(h, c), RepricedWaiting(g, c), now)
        BY <1>0, <1>5, <1>8, BalanceWeakens
      <3>2. PICK s \in Nat : Balance(c, Waited(g, c.started, now), s, RepricedWaiting(g, c), now)
        BY <1>5, <1>6, <3>1
      <3>3. g[Len(g)].at = now /\ Chronicle(g) /\ Sound(c, g)
        BY <1>1, <1>2, <1>3
      <3> HIDE DEF g, w
      <3> QED
        BY <3>2, <3>3, CompletedIsSound
    <2>3. d = k
      <3>1. d = Priced(k, row, r, now)
        BY <1>14, <2>1 DEF d, RunningAfter, new
      <3> QED
        BY <2>2, <3>1 DEF Priced
    <2> HIDE DEF k
    <2> QED
      BY <1>14, <2>2, <2>3 DEF d, g, new, e
  <1> QED
    BY <1>12, <1>13, <1>14

-----------------------------------------------------------------------------
(* What a handler does to all cycles of a ticket.                          *)

\* Only the last cycle may be active.
LastRuns(cs) == Len(cs) # 0 /\ \A i \in 1..Len(cs) : i < Len(cs) => ~cs[i].active

LEMMA ActiveIsLast ==
  ASSUME NEW cs \in Seq(CycleRows), LastRuns(cs)
  PROVE  ActiveCycle(cs) = IF cs[Len(cs)].active THEN Len(cs) ELSE 0
  <1> DEFINE n == Len(cs)
             A == {i \in DOMAIN cs : cs[i].active}
  <1>1. n \in Nat /\ n # 0 /\ DOMAIN cs = 1..n /\ \A i \in 1..n : i < n => ~cs[i].active
    BY DEF LastRuns
  <1>2. CASE cs[n].active
    <2>1. A = {n}
      BY <1>1, <1>2
    <2>2. ActiveCycle(cs) = CHOOSE i \in {n} : \A j \in {n} : j <= i
      BY <2>1 DEF ActiveCycle
    <2> HIDE DEF n
    <2>3. n <= n
      BY <1>1
    <2>4. \E i \in {n} : \A j \in {n} : j <= i
      BY <2>3
    <2> QED
      BY <1>2, <2>2, <2>4 DEF n
  <1>3. CASE ~cs[n].active
    <2>1. A = {}
      BY <1>1, <1>3
    <2> QED
      BY <1>3, <2>1 DEF ActiveCycle
  <1> QED
    BY <1>2, <1>3

\* The last cycle replaced.
WithLast(cs, d) == [cs EXCEPT ![Len(cs)] = d]

LEMMA WithLastIsSeq ==
  ASSUME NEW cs \in Seq(CycleRows), Len(cs) # 0, NEW d \in CycleRows
  PROVE  /\ WithLast(cs, d) \in Seq(CycleRows) /\ Len(WithLast(cs, d)) = Len(cs)
         /\ WithLast(cs, d)[Len(cs)] = d
         /\ \A i \in 1..Len(cs) : i # Len(cs) => WithLast(cs, d)[i] = cs[i]
         /\ LastRuns(cs) => LastRuns(WithLast(cs, d))
  BY DEF WithLast, LastRuns

\* A change of the active cycle is one of the last cycle, or none.
LEMMA LastIsChanged ==
  ASSUME NEW cs \in Seq(CycleRows), LastRuns(cs), NEW f, NEW ds,
         ds = [i \in DOMAIN cs |-> IF i = ActiveCycle(cs) THEN f[i] ELSE cs[i]]
  PROVE  ds = IF cs[Len(cs)].active THEN WithLast(cs, f[Len(cs)]) ELSE cs
  <1>1. Len(cs) \in Nat /\ Len(cs) # 0 /\ DOMAIN cs = 1..Len(cs)
    BY DEF LastRuns
  <1>2. CASE cs[Len(cs)].active
    <2>1. ActiveCycle(cs) = Len(cs)
      BY <1>2, ActiveIsLast
    <2>2. WithLast(cs, f[Len(cs)]) = [i \in DOMAIN cs |-> IF i = Len(cs) THEN f[Len(cs)] ELSE cs[i]]
      BY DEF WithLast
    <2> QED
      BY <1>2, <2>1, <2>2
  <1>3. CASE ~cs[Len(cs)].active
    <2>1. ActiveCycle(cs) = 0
      BY <1>3, ActiveIsLast
    <2>2. cs = [i \in DOMAIN cs |-> cs[i]]
      OBVIOUS
    <2>3. 0 \notin DOMAIN cs
      BY <1>1
    <2> QED
      BY <1>3, <2>1, <2>2, <2>3
  <1> QED
    BY <1>2, <1>3

LEMMA AnswerOutcome ==
  ASSUME NEW cs \in Seq(CycleRows), LastRuns(cs), NEW row, NEW r, NEW now, r.kind = "staff_reply"
  PROVE  CyclesAfter(cs, row, r, now) =
           IF cs[Len(cs)].active THEN WithLast(cs, Answered(cs[Len(cs)], now)) ELSE cs
  <1> DEFINE f == [i \in DOMAIN cs |-> Answered(cs[i], now)]
             ds == CyclesAfter(cs, row, r, now)
  <1>1. Len(cs) \in DOMAIN cs
    BY DEF LastRuns
  <1>2. ds = [i \in DOMAIN cs |-> IF i = ActiveCycle(cs) THEN f[i] ELSE cs[i]]
    BY DEF CyclesAfter, OnActive
  <1>3. f[Len(cs)] = Answered(cs[Len(cs)], now)
    BY <1>1
  <1> HIDE DEF f, ds
  <1>4. ds = IF cs[Len(cs)].active THEN WithLast(cs, f[Len(cs)]) ELSE cs
    BY <1>2, LastIsChanged
  <1> QED
    BY <1>3, <1>4 DEF ds

\* A move of a ticket that was and is not to be reopened.
LEMMA MoveOutcome ==
  ASSUME NEW cs \in Seq(CycleRows), LastRuns(cs), NEW row, NEW new, NEW now,
         row.status \notin Completed \/ new \in Completed,
         cs[Len(cs)].active => Moved(cs[Len(cs)], row, new, now) \in CycleRows
  PROVE  ApplyStatusChange(cs, row, new, now) =
           IF cs[Len(cs)].active THEN WithLast(cs, Moved(cs[Len(cs)], row, new, now)) ELSE cs
  <1> DEFINE ds == ApplyStatusChange(cs, row, new, now)
             n == Len(cs)
  <1>0. n \in Nat /\ n # 0 /\ DOMAIN cs = 1..n /\ n \in DOMAIN cs
    BY DEF LastRuns
  <1>1. CASE new = row.status
    <2>1. ds = cs
      BY <1>1 DEF ApplyStatusChange
    <2>2. Moved(cs[n], row, new, now) = cs[n]
      BY <1>1 DEF Moved
    <2>3. WithLast(cs, cs[n]) = cs
      BY <1>0 DEF WithLast
    <2> HIDE DEF ds
    <2> QED
      BY <2>1, <2>2, <2>3 DEF ds
  <1>2. CASE new # row.status /\ new \in Completed
    <2> DEFINE f == [i \in DOMAIN cs |-> CompletedCycle(cs[i], now)]
    <2>1. ds = [i \in DOMAIN cs |-> IF i = ActiveCycle(cs) THEN f[i] ELSE cs[i]]
      BY <1>2 DEF ApplyStatusChange, OnActive, Completed
    <2>2. f[n] = Moved(cs[n], row, new, now)
      BY <1>0, <1>2 DEF Moved, Completed
    <2> HIDE DEF f, ds
    <2>3. ds = IF cs[n].active THEN WithLast(cs, f[n]) ELSE cs
      BY <2>1, LastIsChanged
    <2> QED
      BY <2>2, <2>3 DEF ds
  <1>3. CASE new # row.status /\ new = "WAITING_FOR_CUSTOMER"
    <2> DEFINE f == [i \in DOMAIN cs |-> Paused(cs[i], now)]
    <2>1. ds = [i \in DOMAIN cs |-> IF i = ActiveCycle(cs) THEN f[i] ELSE cs[i]]
      BY <1>3 DEF ApplyStatusChange, OnActive, Completed
    <2>2. f[n] = Moved(cs[n], row, new, now)
      BY <1>0, <1>3 DEF Moved, Completed
    <2> HIDE DEF f, ds
    <2>3. ds = IF cs[n].active THEN WithLast(cs, f[n]) ELSE cs
      BY <2>1, LastIsChanged
    <2> QED
      BY <2>2, <2>3 DEF ds
  <1>4. CASE new # row.status /\ new \notin Completed \cup {"WAITING_FOR_CUSTOMER"}
    <2> DEFINE f == [i \in DOMAIN cs |-> Resumed(cs[i], now)]
               es == [i \in DOMAIN cs |-> IF i = ActiveCycle(cs) THEN f[i] ELSE cs[i]]
    <2>1. row.status \notin Completed
      BY <1>4
    <2>2. ds = es \o << >>
      BY <1>4, <2>1 DEF ApplyStatusChange, OnActive
    <2>3. f[n] = Moved(cs[n], row, new, now)
      BY <1>0, <1>4 DEF Moved
    <2> HIDE DEF f, ds
    <2>4. es = IF cs[n].active THEN WithLast(cs, f[n]) ELSE cs
      BY LastIsChanged
    <2> HIDE DEF es
    <2>5. es \in Seq(CycleRows)
      BY <1>0, <2>3, <2>4, WithLastIsSeq
    <2>6. ds = es
      BY <2>2, <2>5
    <2> QED
      BY <2>3, <2>4, <2>6 DEF ds
  <1> QED
    BY <1>1, <1>2, <1>3, <1>4

\* The second half of a change: the priority of the active cycle.
LEMMA PriceOutcome ==
  ASSUME NEW cs \in Seq(CycleRows), LastRuns(cs), NEW row, NEW r, NEW now, NEW new,
         NEW moved \in Seq(CycleRows), LastRuns(moved), new = StatusAfter(row, r),
         moved = ApplyStatusChange(cs, row, new, now), r.kind # "staff_reply"
  PROVE  CyclesAfter(cs, row, r, now) =
           IF moved[Len(moved)].active
           THEN WithLast(moved, Priced(moved[Len(moved)], row, r, now)) ELSE moved
  <1> DEFINE ds == CyclesAfter(cs, row, r, now)
             p == PriorityAfter(row, r)
             n == Len(moved)
             f == [i \in DOMAIN moved |-> Repriced(moved[i], p, now)]
  <1>0. n \in Nat /\ n # 0 /\ DOMAIN moved = 1..n /\ n \in DOMAIN moved
    BY DEF LastRuns
  <1>1. CASE p = row.priority
    <2>1. ds = moved
      BY <1>1 DEF CyclesAfter
    <2>2. Priced(moved[n], row, r, now) = moved[n]
      BY <1>1 DEF Priced
    <2>3. WithLast(moved, moved[n]) = moved
      BY <1>0 DEF WithLast
    <2> HIDE DEF ds
    <2> QED
      BY <2>1, <2>2, <2>3 DEF ds
  <1>2. CASE p # row.priority
    <2>1. ds = [i \in DOMAIN moved |-> IF i = ActiveCycle(moved) THEN f[i] ELSE moved[i]]
      BY <1>2 DEF CyclesAfter, OnActive
    <2>2. moved[n].active => f[n] = Priced(moved[n], row, r, now)
      BY <1>0, <1>2 DEF Priced
    <2> HIDE DEF f, ds
    <2>3. ds = IF moved[n].active THEN WithLast(moved, f[n]) ELSE moved
      BY <2>1, LastIsChanged
    <2> QED
      BY <2>2, <2>3 DEF ds
  <1> QED
    BY <1>1, <1>2

LEMMA MovedIsRow ==
  ASSUME NEW c \in CycleRows, NEW now \in Positive, c.pauseStart <= now, NEW row, NEW new
  PROVE  Moved(c, row, new, now) \in CycleRows
  <1>1. /\ CompletedCycle(c, now) \in CycleRows /\ Paused(c, now) \in CycleRows
        /\ Resumed(c, now) \in CycleRows
    BY CompletedFollows, PausedFollows, ResumedFollows DEF Follows
  <1>2. CASE new = row.status
    BY <1>2 DEF Moved
  <1>3. CASE new # row.status /\ new \in Completed
    BY <1>1, <1>3 DEF Moved, Completed
  <1>4. CASE new # row.status /\ new = "WAITING_FOR_CUSTOMER"
    BY <1>1, <1>4 DEF Moved, Completed
  <1>5. CASE new # row.status /\ new \notin Completed \cup {"WAITING_FOR_CUSTOMER"}
    BY <1>1, <1>5 DEF Moved
  <1> QED
    BY <1>2, <1>3, <1>4, <1>5

\* The three shapes of an outcome: the running cycle changes, nothing does, or a cycle
\* is added.
LEMMA RunningOutcome ==
  ASSUME NEW cs \in Seq(CycleRows), LastRuns(cs), cs[Len(cs)].active, NEW row, NEW r,
         NEW now \in Positive, cs[Len(cs)].pauseStart <= now, row.status \notin Completed,
         RunningAfter(cs[Len(cs)], row, r, now) \in CycleRows
  PROVE  CyclesAfter(cs, row, r, now) = WithLast(cs, RunningAfter(cs[Len(cs)], row, r, now))
  <1> DEFINE n == Len(cs)
             c == cs[n]
             new == StatusAfter(row, r)
             m == Moved(c, row, new, now)
             moved == ApplyStatusChange(cs, row, new, now)
             d == RunningAfter(c, row, r, now)
  <1>0. n \in 1..n /\ c \in CycleRows
    BY DEF LastRuns
  <1>1. CASE r.kind = "staff_reply"
    BY <1>1, AnswerOutcome DEF RunningAfter
  <1>2. CASE r.kind # "staff_reply"
    <2>1. m \in CycleRows
      BY <1>0, MovedIsRow
    <2>2. moved = WithLast(cs, m)
      <3> HIDE DEF moved, m, new
      <3>1. cs[Len(cs)].active => Moved(cs[Len(cs)], row, new, now) \in CycleRows
        BY <2>1 DEF m
      <3>2. ApplyStatusChange(cs, row, new, now) =
              IF cs[Len(cs)].active THEN WithLast(cs, Moved(cs[Len(cs)], row, new, now)) ELSE cs
        BY <3>1, MoveOutcome
      <3> QED
        BY <3>2 DEF moved, m
    <2>3. d = Priced(m, row, r, now)
      BY <1>2 DEF RunningAfter
    <2> HIDE DEF m, d
    <2>4. /\ moved \in Seq(CycleRows) /\ Len(moved) = n /\ moved[n] = m /\ LastRuns(moved)
      <3>1. Len(cs) # 0
        BY DEF LastRuns
      <3> HIDE DEF moved, n
      <3> QED
        BY <2>1, <2>2, <3>1, WithLastIsSeq DEF n
    <2>5. CyclesAfter(cs, row, r, now) = IF m.active THEN WithLast(moved, d) ELSE moved
      <3>1. CyclesAfter(cs, row, r, now) =
              IF moved[Len(moved)].active
              THEN WithLast(moved, Priced(moved[Len(moved)], row, r, now)) ELSE moved
        <4> HIDE DEF n
        <4> QED
          BY <1>2, <2>4, PriceOutcome
      <3> HIDE DEF moved
      <3> QED
        BY <2>3, <2>4, <3>1
    <2>6. CASE m.active
      <3>1. WithLast(moved, d) = WithLast(cs, d)
        <4> HIDE DEF moved
        <4> QED
          BY <1>0, <2>2, <2>4 DEF WithLast
      <3> QED
        BY <2>5, <2>6, <3>1 DEF d
    <2>7. CASE ~m.active
      <3>1. d = m
        BY <2>3, <2>7 DEF Priced
      <3> QED
        BY <2>2, <2>5, <2>7, <3>1 DEF d
    <2> QED
      BY <2>6, <2>7
  <1> QED
    BY <1>1, <1>2

LEMMA ClosedOutcome ==
  ASSUME NEW cs \in Seq(CycleRows), LastRuns(cs), ~cs[Len(cs)].active, NEW row, NEW r, NEW now,
         StatusAfter(row, r) \in Completed
  PROVE  CyclesAfter(cs, row, r, now) = cs
  <1> DEFINE new == StatusAfter(row, r)
             moved == ApplyStatusChange(cs, row, new, now)
  <1>1. CASE r.kind = "staff_reply"
    BY <1>1, AnswerOutcome
  <1>2. CASE r.kind # "staff_reply"
    <2>1. moved = cs
      <3> HIDE DEF new
      <3>1. new \in Completed
        BY DEF new
      <3> QED
        BY <3>1, MoveOutcome
    <2>2. CyclesAfter(cs, row, r, now) =
            IF moved[Len(moved)].active
            THEN WithLast(moved, Priced(moved[Len(moved)], row, r, now)) ELSE moved
      <3>1. moved \in Seq(CycleRows) /\ LastRuns(moved)
        <4> HIDE DEF moved
        <4> QED
          BY <2>1
      <3> QED
        BY <1>2, <3>1, PriceOutcome
    <2> HIDE DEF moved
    <2> QED
      BY <2>1, <2>2
  <1> QED
    BY <1>1, <1>2

LEMMA ReopenedOutcome ==
  ASSUME NEW cs \in Seq(CycleRows), LastRuns(cs), ~cs[Len(cs)].active, NEW row \in TicketRows,
         NEW r \in Requests, NEW now \in Positive, row.status \in Completed,
         StatusAfter(row, r) = "IN_PROGRESS",
         Priced(ReopenedCycle(row, now), row, r, now) \in CycleRows
  PROVE  CyclesAfter(cs, row, r, now) = Append(cs, Priced(ReopenedCycle(row, now), row, r, now))
  <1> DEFINE new == StatusAfter(row, r)
             moved == ApplyStatusChange(cs, row, new, now)
             a == ReopenedCycle(row, now)
             d == Priced(a, row, r, now)
             n == Len(cs)
  <1>0. n \in Nat /\ n # 0 /\ DOMAIN cs = 1..n /\ \A i \in 1..n : ~cs[i].active
    BY DEF LastRuns
  <1>1. a \in CycleRows /\ a.active
    <2>1. a.active
      BY DEF ReopenedCycle, NewCycle
    <2> QED
      BY <2>1, ReopenedIsRow
  <1>2. new = "IN_PROGRESS" /\ new # row.status /\ new \notin Completed \cup {"WAITING_FOR_CUSTOMER"}
    BY DEF Completed
  <1>3. r.kind # "staff_reply"
    BY <1>2 DEF StatusAfter
  <1>4. moved = cs \o <<a>>
    <2> DEFINE f == [i \in DOMAIN cs |-> Resumed(cs[i], now)]
               es == [i \in DOMAIN cs |-> IF i = ActiveCycle(cs) THEN f[i] ELSE cs[i]]
    <2> HIDE DEF a, new
    <2>1. moved = es \o <<a>>
      BY <1>2 DEF ApplyStatusChange, OnActive, a
    <2> HIDE DEF f, moved
    <2>2. es = IF cs[Len(cs)].active THEN WithLast(cs, f[Len(cs)]) ELSE cs
      BY LastIsChanged
    <2> HIDE DEF es
    <2> QED
      BY <2>1, <2>2
  <1> HIDE DEF a, new
  <1>5. /\ moved \in Seq(CycleRows) /\ Len(moved) = n + 1 /\ moved[n + 1] = a
        /\ \A i \in 1..n : moved[i] = cs[i]
    <2> HIDE DEF moved
    <2> QED
      BY <1>1, <1>4
  <1>6. LastRuns(moved)
    <2> HIDE DEF moved
    <2> QED
      BY <1>0, <1>5 DEF LastRuns
  <1>7. CyclesAfter(cs, row, r, now) = WithLast(moved, d)
    <2>1. CyclesAfter(cs, row, r, now) =
            IF moved[Len(moved)].active
            THEN WithLast(moved, Priced(moved[Len(moved)], row, r, now)) ELSE moved
      <3> HIDE DEF n
      <3> QED
        BY <1>3, <1>5, <1>6, PriceOutcome DEF new
    <2> HIDE DEF moved
    <2> QED
      BY <1>1, <1>5, <2>1
  <1>8. d \in CycleRows
    BY DEF a
  <1> HIDE DEF d, moved
  <1>9. WithLast(moved, d) = Append(cs, d)
    <2>1. /\ WithLast(moved, d) \in Seq(CycleRows) /\ Len(WithLast(moved, d)) = n + 1
          /\ WithLast(moved, d)[n + 1] = d
          /\ \A i \in 1..n : WithLast(moved, d)[i] = cs[i]
      BY <1>0, <1>5, <1>8 DEF WithLast
    <2>2. /\ Append(cs, d) \in Seq(CycleRows) /\ Len(Append(cs, d)) = n + 1
          /\ Append(cs, d)[n + 1] = d
          /\ \A i \in 1..n : Append(cs, d)[i] = cs[i]
      BY <1>8
    <2> DEFINE u == WithLast(moved, d)
               v == Append(cs, d)
    <2>3. \A i \in 1..(n + 1) : u[i] = v[i]
      <3> HIDE DEF u, v
      <3> SUFFICES ASSUME NEW i \in 1..(n + 1) PROVE u[i] = v[i]
        OBVIOUS
      <3>1. CASE i \in 1..n
        BY <2>1, <2>2, <3>1 DEF u, v
      <3>2. CASE i \notin 1..n
        <4>1. i = n + 1
          BY <1>0, <3>2
        <4> QED
          BY <2>1, <2>2, <4>1 DEF u, v
      <3> QED
        BY <3>1, <3>2
    <2> HIDE DEF u, v
    <2> QED
      BY <1>0, <2>1, <2>2, <2>3 DEF u, v
  <1> QED
    BY <1>7, <1>9 DEF d, a

-----------------------------------------------------------------------------
(* A ticket, its cycles and its history.                                   *)

\* The cycles of a ticket follow from its history: all are sound, and the last one runs,
\* with books that balance, unless the ticket is completed.
Fits(row, cs, h) ==
  /\ Chronicle(h) /\ h[Len(h)].status = row.status /\ h[Len(h)].priority = row.priority
  /\ LastRuns(cs) /\ \A i \in 1..Len(cs) : Sound(cs[i], h)
  /\ cs[Len(cs)].active <=> row.status \notin Completed
  /\ cs[Len(cs)].active => Books(cs[Len(cs)], h)

\* What lies behind a handler when it fixes its now.
Behind(cs, now) ==
  \A i \in 1..Len(cs) :
    cs[i].pauseStart <= now /\ cs[i].breached < now /\ cs[i].firstBreached < now

\* A handler changes no cycle but the one that runs, and marks that one only after the
\* deadline.
Earns(cs, ds, now) ==
  /\ ds \in Seq(CycleRows) /\ Len(cs) <= Len(ds)
  /\ \A i \in 1..Len(cs) :
       /\ ~cs[i].active => ds[i] = cs[i]
       /\ ds[i].breached # cs[i].breached =>
            /\ cs[i].active /\ ds[i].started = cs[i].started /\ ds[i].priority = cs[i].priority
            /\ EffectiveDue(cs[i], now) < now
  /\ \A i \in 1..Len(ds) : ds[i].breached < now /\ ds[i].firstBreached < now

LEMMA FromCompleted ==
  ASSUME NEW row \in TicketRows, NEW r \in Requests, ~Refused(row, r), row.status \in Completed
  PROVE  StatusAfter(row, r) \in Completed \cup {"IN_PROGRESS"}
  <1>1. r \in PatchRequests \cup ReplyRequests
    BY RequestAssumption
  <1>2. CASE r \in PatchRequests
    <2>1. r.kind = "patch"
      BY <1>2 DEF PatchRequests
    <2>2. ValidTransition(row.status, StatusAfter(row, r), TRUE)
      BY <2>1 DEF Refused
    <2>3. CASE row.status = StatusAfter(row, r)
      BY <2>3
    <2>4. CASE StatusAfter(row, r) \in ALLOWED_TRANSITIONS[row.status]
      BY <2>4 DEF ALLOWED_TRANSITIONS, Completed
    <2> QED
      BY <2>2, <2>3, <2>4 DEF ValidTransition
  <1>3. CASE r \in ReplyRequests
    BY <1>3 DEF ReplyRequests, StatusAfter, Completed
  <1> QED
    BY <1>1, <1>2, <1>3

\* The cycle of a reopening begins with its whole target.
LEMMA ReopenedStep ==
  ASSUME NEW h, Chronicle(h), NEW row \in TicketRows, NEW r \in Requests, NEW now \in Positive,
         h[Len(h)].at <= now, row.status \in Completed, StatusAfter(row, r) = "IN_PROGRESS"
  PROVE  LET d == Priced(ReopenedCycle(row, now), row, r, now)
             g == Append(h, EntryAfter(row, r, now))
         IN  /\ d \in CycleRows /\ d.active /\ Sound(d, g) /\ Books(d, g)
             /\ d.breached < now /\ d.firstBreached < now
  <1> DEFINE a == ReopenedCycle(row, now)
             d == Priced(a, row, r, now)
             e == EntryAfter(row, r, now)
             g == Append(h, e)
  <1>0. now \in Nat /\ now # 0 /\ row.priority \in Priorities /\ row.firstResponse \in Nat
    BY DEF Positive, TicketRows
  <1>1. e \in Entries /\ e.at = now /\ ~Waits(e) /\ e.priority = PriorityAfter(row, r)
    BY EntryAfterIsEntry DEF Waits
  <1> HIDE DEF e
  <1>2. Chronicle(g) /\ g[Len(g)] = e /\ g[1].at <= now
    <2>1. Chronicle(g) /\ Len(g) = Len(h) + 1 /\ g[Len(h) + 1] = e
      BY <1>1, ChronicleGoesOn
    <2> HIDE DEF g
    <2> QED
      BY <1>1, <2>1, EntryNumbers DEF Chronicle
  <1> HIDE DEF g
  <1>3. a \in CycleRows
    BY ReopenedIsRow
  <1>4. PICK first \in Nat : first # 0 /\ a.firstAt = first /\ a.firstDue = first
    <2>1. PICK first \in Nat : first = (IF row.firstResponse = 0 THEN now ELSE row.firstResponse)
      BY <1>0
    <2>2. a = [NewCycle(row.priority, now) EXCEPT !.firstAt = first, !.firstDue = first]
      BY <2>1 DEF ReopenedCycle
    <2>3. first # 0
      BY <1>0, <2>1
    <2> QED
      BY <2>2, <2>3 DEF NewCycle
  <1>5. /\ a.active /\ a.started = now /\ a.completed = 0 /\ a.breached = 0 /\ a.firstBreached = 0
        /\ a.priority = row.priority /\ a.paused = 0 /\ a.pauseStart = 0
        /\ a.due = now + ResolutionTarget[row.priority]
    BY DEF ReopenedCycle, NewCycle
  <1> HIDE DEF a, d
  <1>6. Slack(g, a) \in Nat
    BY <1>2, SlackCounts
  <1>7. Balance(a, 0, Slack(g, a), RepricedWaiting(g, a), now)
    BY <1>0, <1>3, <1>4, <1>5, <1>6, BalanceNew
  <1>8. /\ d \in CycleRows /\ Untouched(a, d) /\ d.priority = PriorityAfter(row, r)
        /\ d.firstAt # 0 => d.firstDue = a.firstDue
        /\ d.pauseStart = a.pauseStart
        /\ Balance(d, 0, Slack(g, a), RepricedWaiting(g, a), now)
    <2>1. a.pauseStart <= now /\ Running(a, now) = 0 /\ 0 \in Nat
      BY <1>0, <1>5 DEF Running
    <2> QED
      BY <1>3, <1>5, <1>6, <1>7, <2>1, PricedRunning DEF d
  <1>9. /\ d.started = now /\ d.active /\ d.completed = 0 /\ d.breached = 0 /\ d.firstBreached = 0
        /\ d.firstAt = first /\ d.firstDue = first
    BY <1>4, <1>5, <1>8 DEF Untouched
  <1>10. Sound(d, g)
    <2>1. LateIsRecorded(g, d) /\ BreachPrecedesStop(d)
      BY <1>4, <1>9 DEF LateIsRecorded, BreachPrecedesStop
    <2> QED
      BY <1>0, <1>1, <1>2, <1>9, <2>1 DEF Sound
  <1>11. Books(d, g)
    <2>1. Slack(g, d) = Slack(g, a) /\ (RepricedWaiting(g, d) <=> RepricedWaiting(g, a))
      BY <1>5, <1>9 DEF Slack, RepricedWaiting
    <2>2. Waited(g, now, now) = 0
      <3>1. Waited(g, now, now) \in Nat /\ Waited(g, now, now) <= now - now
        BY <1>0, WaitedCounts
      <3> QED
        BY <1>0, <3>1
    <2>3. Balance(d, Waited(g, d.started, e.at), Slack(g, d), RepricedWaiting(g, d), e.at)
      BY <1>1, <1>8, <1>9, <2>1, <2>2 DEF Balance
    <2> QED
      BY <1>1, <1>2, <1>5, <1>8, <2>3 DEF Books
  <1> QED
    BY <1>0, <1>8, <1>9, <1>10, <1>11 DEF d, a, g, e

\* Whatever a handler is asked to do, the cycles still follow from the history.
LEMMA HandlerFits ==
  ASSUME NEW row \in TicketRows, NEW cs \in Seq(CycleRows), NEW h, Fits(row, cs, h),
         NEW r \in Requests, ~Refused(row, r), NEW now \in Positive,
         h[Len(h)].at <= now, Behind(cs, now)
  PROVE  /\ Fits(TicketAfter(row, r, now), CyclesAfter(cs, row, r, now),
                 Append(h, EntryAfter(row, r, now)))
         /\ Earns(cs, CyclesAfter(cs, row, r, now), now)
  <1> DEFINE ds == CyclesAfter(cs, row, r, now)
             e == EntryAfter(row, r, now)
             g == Append(h, e)
             n == Len(cs)
             after == TicketAfter(row, r, now)
  <1>0. /\ n \in Nat /\ n # 0 /\ DOMAIN cs = 1..n /\ n \in 1..n
        /\ \A i \in 1..n : cs[i] \in CycleRows
        /\ \A i \in 1..n : i < n => ~cs[i].active
    BY DEF Fits, LastRuns
  <1>1. /\ e \in Entries /\ e.at = now /\ e.status = StatusAfter(row, r)
        /\ e.priority = PriorityAfter(row, r)
    BY EntryAfterIsEntry
  <1>2. after.status = e.status /\ after.priority = e.priority
    BY <1>1 DEF TicketAfter
  <1> HIDE DEF e, after
  <1>3. Chronicle(h)
    BY DEF Fits
  <1>4. Chronicle(g) /\ g[Len(g)] = e
    <2>1. Chronicle(g) /\ Len(g) = Len(h) + 1 /\ g[Len(h) + 1] = e
      BY <1>1, <1>3, ChronicleGoesOn
    <2> HIDE DEF g
    <2> QED
      BY <2>1
  <1>5. \A i \in 1..n : Sound(cs[i], g)
    BY <1>0, <1>1, <1>3, SoundLater DEF Fits
  <1> HIDE DEF g
  <1>6. CASE row.status \notin Completed
    <2> DEFINE c == cs[n]
               d == RunningAfter(c, row, r, now)
    <2>1. c.active /\ Books(c, h) /\ c \in CycleRows /\ Sound(c, h)
      BY <1>0, <1>6 DEF Fits
    <2>2. c.pauseStart <= now /\ c.breached < now /\ c.firstBreached < now
      BY <1>0 DEF Behind
    <2>3. h[Len(h)].status = row.status /\ h[Len(h)].priority = row.priority /\ LastRuns(cs)
      BY DEF Fits
    <2>4. /\ d \in CycleRows /\ d.started = c.started /\ Sound(d, g)
          /\ d.active <=> StatusAfter(row, r) \notin Completed
          /\ d.active => Books(d, g)
          /\ d.breached # c.breached => d.priority = c.priority /\ EffectiveDue(c, now) < now
          /\ d.breached < now /\ d.firstBreached < now
      <3> HIDE DEF c
      <3> QED
        BY <1>3, <1>6, <2>1, <2>2, <2>3, RunningStep DEF g, e
    <2>5. ds = WithLast(cs, d)
      BY <1>6, <2>1, <2>2, <2>3, <2>4, RunningOutcome
    <2> HIDE DEF d, ds
    <2>6. /\ ds \in Seq(CycleRows) /\ Len(ds) = n /\ ds[n] = d /\ LastRuns(ds)
          /\ \A i \in 1..n : i # n => ds[i] = cs[i]
      BY <1>0, <2>3, <2>4, <2>5, WithLastIsSeq
    <2>7. \A i \in 1..n : Sound(ds[i], g)
      BY <1>5, <2>4, <2>6
    <2>8. Fits(after, ds, g)
      BY <1>1, <1>2, <1>4, <2>4, <2>6, <2>7 DEF Fits
    <2>9. Earns(cs, ds, now)
      <3>1. \A i \in 1..n : ds[i].breached < now /\ ds[i].firstBreached < now
        BY <2>4, <2>6 DEF Behind
      <3>2. ASSUME NEW i \in 1..n
            PROVE  /\ ~cs[i].active => ds[i] = cs[i]
                   /\ ds[i].breached # cs[i].breached =>
                        /\ cs[i].active /\ ds[i].started = cs[i].started
                        /\ ds[i].priority = cs[i].priority /\ EffectiveDue(cs[i], now) < now
        <4>1. CASE i = n
          BY <2>1, <2>4, <2>6, <4>1
        <4>2. CASE i # n
          BY <2>6, <4>2
        <4> QED
          BY <4>1, <4>2
      <3>3. Len(cs) <= Len(ds)
        BY <1>0, <2>6
      <3> QED
        BY <2>6, <3>1, <3>2, <3>3 DEF Earns
    <2> QED
      BY <2>8, <2>9 DEF ds, g, e, after
  <1>7. CASE row.status \in Completed /\ StatusAfter(row, r) \in Completed
    <2>1. ~cs[n].active /\ LastRuns(cs)
      BY <1>7 DEF Fits
    <2>2. ds = cs
      BY <1>7, <2>1, ClosedOutcome
    <2> HIDE DEF ds
    <2>3. Fits(after, ds, g)
      BY <1>1, <1>2, <1>4, <1>5, <1>7, <2>1, <2>2 DEF Fits
    <2>4. Earns(cs, ds, now)
      BY <1>0, <2>2 DEF Earns, Behind
    <2> QED
      BY <2>3, <2>4 DEF ds, g, e, after
  <1>8. CASE row.status \in Completed /\ StatusAfter(row, r) = "IN_PROGRESS"
    <2> DEFINE d == Priced(ReopenedCycle(row, now), row, r, now)
    <2>1. ~cs[n].active /\ LastRuns(cs)
      BY <1>8 DEF Fits
    <2>2. /\ d \in CycleRows /\ d.active /\ Sound(d, g) /\ Books(d, g)
          /\ d.breached < now /\ d.firstBreached < now
      BY <1>3, <1>8, ReopenedStep DEF g, e
    <2>3. ds = Append(cs, d)
      BY <1>8, <2>1, <2>2, ReopenedOutcome
    <2> HIDE DEF d, ds
    <2>4. /\ ds \in Seq(CycleRows) /\ Len(ds) = n + 1 /\ ds[n + 1] = d
          /\ \A i \in 1..n : ds[i] = cs[i]
      BY <2>2, <2>3
    <2>5. \A i \in 1..(n + 1) : i \in 1..n \/ i = n + 1
      BY <1>0
    <2>6. \A i \in 1..(n + 1) : Sound(ds[i], g)
      BY <1>5, <2>2, <2>4, <2>5
    <2>7. LastRuns(ds)
      <3>1. \A i \in 1..n : ~cs[i].active
        BY <1>0, <2>1
      <3> QED
        BY <1>0, <2>4, <2>5, <3>1 DEF LastRuns
    <2>8. e.status \notin Completed
      BY <1>1, <1>8 DEF Completed
    <2>9. Fits(after, ds, g)
      BY <1>2, <1>4, <2>2, <2>4, <2>6, <2>7, <2>8 DEF Fits
    <2>10. Earns(cs, ds, now)
      <3>1. \A i \in 1..(n + 1) : ds[i].breached < now /\ ds[i].firstBreached < now
        BY <2>2, <2>4, <2>5 DEF Behind
      <3>2. Len(cs) <= Len(ds)
        BY <1>0, <2>4
      <3> QED
        BY <2>4, <3>1, <3>2 DEF Earns
    <2> QED
      BY <2>9, <2>10 DEF ds, g, e, after
  <1> QED
    BY <1>6, <1>7, <1>8, FromCompleted

\* The columns that a scan writes.
LEMMA MarkedColumns ==
  ASSUME NEW c \in CycleRows, NEW ms \in SUBSET BreachMarks
  PROVE  LET d == Marked(c, ms)
         IN  /\ d.priority = c.priority /\ d.started = c.started /\ d.firstDue = c.firstDue
             /\ d.firstAt = c.firstAt /\ d.due = c.due /\ d.paused = c.paused
             /\ d.pauseStart = c.pauseStart /\ d.completed = c.completed /\ d.active = c.active
             /\ \/ d.breached = c.breached
                \/ \E m \in ms : m.timer = "resolution" /\ d.breached = m.due
             /\ \/ d.firstBreached = c.firstBreached
                \/ \E m \in ms : m.timer = "first_response" /\ d.firstBreached = m.due
  <1> DEFINE due(timer, kept) == IF \E m \in ms : m.timer = timer
                                 THEN (CHOOSE m \in ms : m.timer = timer).due ELSE kept
             first == due("first_response", c.firstBreached)
             late == due("resolution", c.breached)
             d == [c EXCEPT !.firstBreached = first, !.breached = late]
  <1>1. \A timer, kept : due(timer, kept) = kept
                         \/ \E m \in ms : m.timer = timer /\ due(timer, kept) = m.due
    OBVIOUS
  <1>2. Marked(c, ms) = d
    BY DEF Marked, CycleRows
  <1>3. /\ late = c.breached \/ \E m \in ms : m.timer = "resolution" /\ late = m.due
        /\ first = c.firstBreached \/ \E m \in ms : m.timer = "first_response" /\ first = m.due
    BY <1>1
  <1> HIDE DEF first, late
  <1>4. /\ d.priority = c.priority /\ d.started = c.started /\ d.firstDue = c.firstDue
        /\ d.firstAt = c.firstAt /\ d.due = c.due /\ d.paused = c.paused
        /\ d.pauseStart = c.pauseStart /\ d.completed = c.completed /\ d.active = c.active
        /\ d.breached = late /\ d.firstBreached = first
    BY DEF CycleRows
  <1> HIDE DEF d
  <1> QED
    BY <1>2, <1>3, <1>4

\* What a scan is about to do to a cycle is still due.
Timely(m, c, now) ==
  /\ c.active /\ m.due < now
  /\ m.timer = "resolution" => c.completed = 0 /\ c.pauseStart = 0 /\ m.due = c.due
  /\ m.timer = "first_response" => c.firstAt = 0

LEMMA MarkedIsSound ==
  ASSUME NEW c \in CycleRows, NEW ms \in SUBSET BreachMarks, NEW now \in Positive,
         \A m \in ms : Timely(m, c, now), NEW h, Sound(c, h),
         c.breached < now, c.firstBreached < now
  PROVE  LET d == Marked(c, ms)
         IN  /\ Sound(d, h)
             /\ Books(c, h) => Books(d, h)
             /\ d.active = c.active /\ d.breached < now /\ d.firstBreached < now
             /\ c.completed # 0 => d = c
             /\ d.breached # c.breached =>
                  /\ c.active /\ d.started = c.started /\ d.priority = c.priority
                  /\ EffectiveDue(c, now) < now
  <1> DEFINE d == Marked(c, ms)
  <1>1. /\ d.priority = c.priority /\ d.started = c.started /\ d.firstDue = c.firstDue
        /\ d.firstAt = c.firstAt /\ d.due = c.due /\ d.paused = c.paused
        /\ d.pauseStart = c.pauseStart /\ d.completed = c.completed /\ d.active = c.active
        /\ \/ d.breached = c.breached
           \/ \E m \in ms : m.timer = "resolution" /\ d.breached = m.due
        /\ \/ d.firstBreached = c.firstBreached
           \/ \E m \in ms : m.timer = "first_response" /\ d.firstBreached = m.due
    BY MarkedColumns
  <1>2. c.completed # 0 => d = c
    <2>1. c.completed # 0 => ms = {}
      BY DEF Timely, Sound
    <2> QED
      BY <2>1, NothingMarked
  <1> HIDE DEF d
  <1>3. d.breached < now /\ d.firstBreached < now
    BY <1>1 DEF Timely
  <1>4. d.breached # c.breached =>
          /\ c.active /\ d.started = c.started /\ d.priority = c.priority
          /\ EffectiveDue(c, now) < now
    BY <1>1 DEF Timely, EffectiveDue
  <1>5. Sound(d, h)
    <2>1. CASE c.completed # 0
      BY <1>2, <2>1
    <2>2. CASE c.completed = 0
      <3>1. d.firstAt > d.firstDue => d.firstBreached # 0
        <4>1. c.firstAt > c.firstDue => c.firstBreached # 0
          BY DEF Sound, LateIsRecorded
        <4>2. \A m \in ms : m.due # 0
          BY DEF BreachMarks, Positive
        <4> QED
          BY <1>1, <4>1, <4>2
      <3>2. d.firstAt # 0 => d.firstBreached = c.firstBreached
        BY <1>1 DEF Timely
      <3>3. BreachPrecedesStop(d)
        BY <1>1, <2>2, <3>2 DEF Sound, BreachPrecedesStop
      <3> QED
        BY <1>1, <2>2, <3>1, <3>3 DEF Sound, LateIsRecorded
    <2> QED
      BY <2>1, <2>2
  <1>6. ASSUME Books(c, h) PROVE Books(d, h)
    <2> DEFINE e == h[Len(h)]
    <2>1. Slack(h, d) = Slack(h, c) /\ (RepricedWaiting(h, d) <=> RepricedWaiting(h, c))
      BY <1>1 DEF Slack, RepricedWaiting
    <2>2. Balance(d, Waited(h, c.started, e.at), Slack(h, c), RepricedWaiting(h, c), e.at)
      <3>1. Balance(c, Waited(h, c.started, e.at), Slack(h, c), RepricedWaiting(h, c), e.at)
        BY <1>6 DEF Books
      <3> QED
        BY <1>1, <3>1 DEF Balance, Running, EffectiveDue
    <2>3. Balance(d, Waited(h, d.started, e.at), Slack(h, d), RepricedWaiting(h, d), e.at)
      BY <1>1, <2>1, <2>2 DEF Balance
    <2>4. (c.pauseStart # 0 <=> Waits(e)) /\ c.priority = e.priority
      BY <1>6 DEF Books
    <2> QED
      BY <1>1, <2>3, <2>4 DEF Books
  <1> QED
    BY <1>1, <1>2, <1>3, <1>4, <1>5, <1>6 DEF d

\* A ticket that is opened.
LEMMA OpenedFits ==
  ASSUME NEW p \in Priorities, NEW now \in Positive, NEW row,
         row = [status |-> "OPEN", priority |-> p, firstResponse |-> 0]
  PROVE  /\ Fits(row, <<NewCycle(p, now)>>, <<Entry(row, now)>>)
         /\ Behind(<<NewCycle(p, now)>>, now)
         /\ <<Entry(row, now)>>[Len(<<Entry(row, now)>>)].at = now
         /\ <<Entry(row, now)>> \in Seq(Entries)
  <1> DEFINE e == Entry(row, now)
             h == <<e>>
             c == NewCycle(p, now)
             cs == <<c>>
  <1>0. now \in Nat /\ now # 0 /\ "OPEN" \in Statuses /\ "OPEN" \notin Completed
    BY DEF Positive, Statuses, Completed
  <1>1. e \in Entries /\ e.at = now /\ ~Waits(e) /\ e.priority = p /\ e.status = "OPEN"
    BY <1>0 DEF Entry, Entries, Waits
  <1> HIDE DEF e
  <1>2. h \in Seq(Entries) /\ Len(h) = 1 /\ h[1] = e
    BY <1>1
  <1> HIDE DEF h
  <1>3. Chronicle(h)
    BY <1>0, <1>1, <1>2 DEF Chronicle
  <1>4. c \in CycleRows
    BY NewCycleIsRow
  <1>5. /\ c.priority = p /\ c.started = now /\ c.firstDue = now + FirstTarget[p]
        /\ c.firstAt = 0 /\ c.firstBreached = 0 /\ c.due = now + ResolutionTarget[p]
        /\ c.paused = 0 /\ c.pauseStart = 0 /\ c.completed = 0 /\ c.breached = 0 /\ c.active
    BY DEF NewCycle
  <1> HIDE DEF c
  <1>6. cs \in Seq(CycleRows) /\ Len(cs) = 1 /\ cs[1] = c
    BY <1>4
  <1> HIDE DEF cs
  <1>7. Sound(c, h)
    <2>1. c.firstDue \in Nat
      BY <1>4, CycleNumbers
    <2>2. LateIsRecorded(h, c) /\ BreachPrecedesStop(c)
      BY <1>5, <2>1 DEF LateIsRecorded, BreachPrecedesStop
    <2> QED
      BY <1>0, <1>1, <1>2, <1>5, <2>2 DEF Sound
  <1>8. Books(c, h)
    <2>1. Slack(h, c) \in Nat
      BY <1>3, SlackCounts
    <2>2. Waited(h, now, now) = 0
      <3>1. Waited(h, now, now) \in Nat /\ Waited(h, now, now) <= now - now
        BY <1>0, WaitedCounts
      <3> QED
        BY <1>0, <3>1
    <2>3. Balance(c, 0, Slack(h, c), RepricedWaiting(h, c), now)
      BY <1>4, <1>5, <2>1, BalanceNew
    <2>4. Balance(c, Waited(h, c.started, e.at), Slack(h, c), RepricedWaiting(h, c), e.at)
      BY <1>1, <1>5, <2>2, <2>3 DEF Balance
    <2> QED
      BY <1>1, <1>2, <1>5, <2>4 DEF Books
  <1>9. Fits(row, cs, h)
    <2>1. row.status = "OPEN" /\ row.priority = p
      OBVIOUS
    <2>2. LastRuns(cs)
      BY <1>6 DEF LastRuns
    <2> QED
      BY <1>0, <1>1, <1>2, <1>3, <1>5, <1>6, <1>7, <1>8, <2>1, <2>2 DEF Fits
  <1>10. Behind(cs, now)
    BY <1>0, <1>5, <1>6 DEF Behind
  <1> QED
    BY <1>1, <1>2, <1>9, <1>10 DEF cs, h, c, e

-----------------------------------------------------------------------------
(* The invariant of the deadlines.                                         *)

Bounded == clock \in 1..MaxClock /\ begun \in 0..MaxRequests /\ past \in [Tickets -> Seq(Entries)]

\* The cycles of a ticket follow from its history up to now, and a handler that holds it
\* may do what it was asked.
TicketFits(t) ==
  Exists(t) =>
    /\ Fits(ticket[t], cycles[t], past[t]) /\ past[t][Len(past[t])].at <= clock
    /\ Behind(cycles[t], clock)
    /\ handler[t] # Idle =>
         /\ past[t][Len(past[t])].at <= handler[t].now /\ Behind(cycles[t], handler[t].now)
         /\ ~Refused(ticket[t], handler[t].request)

ScansAreTimely == \A w \in Workers : \A m \in scan[w] : Timely(m, cycles[m.ticket][m.cycle], clock)

DeadlineInv == IInv /\ Bounded /\ ScansAreTimely /\ \A t \in Tickets : TicketFits(t)

LEMMA BehindLater ==
  ASSUME NEW cs \in Seq(CycleRows), NEW a \in Nat, NEW b \in Nat, a <= b, Behind(cs, a)
  PROVE  Behind(cs, b)
  <1>1. \A i \in 1..Len(cs) : cs[i] \in CycleRows
    OBVIOUS
  <1>2. \A i \in 1..Len(cs) :
          cs[i].pauseStart \in Nat /\ cs[i].breached \in Nat /\ cs[i].firstBreached \in Nat
    BY <1>1 DEF CycleRows
  <1> QED
    BY <1>2 DEF Behind

\* A ticket that a step does not touch still fits, and so it does when time goes on.
LEMMA UntouchedFits ==
  ASSUME DeadlineInv, NEW t \in Tickets, ticket'[t] = ticket[t], cycles'[t] = cycles[t],
         past'[t] = past[t], handler'[t] = handler[t] \/ handler'[t] = Idle,
         clock' \in Nat, clock <= clock'
  PROVE  TicketFits(t)'
  <1>1. clock \in Nat /\ cycles[t] \in Seq(CycleRows) /\ TicketFits(t)
    BY DEF DeadlineInv, IInv, Typed, Positive
  <1> SUFFICES ASSUME Exists(t)
               PROVE  /\ Fits(ticket[t], cycles[t], past[t]) /\ past[t][Len(past[t])].at <= clock'
                      /\ Behind(cycles[t], clock')
                      /\ handler'[t] # Idle =>
                           /\ past[t][Len(past[t])].at <= handler'[t].now
                           /\ Behind(cycles[t], handler'[t].now)
                           /\ ~Refused(ticket[t], handler'[t].request)
    BY DEF TicketFits, Exists
  <1>2. /\ Fits(ticket[t], cycles[t], past[t]) /\ past[t][Len(past[t])].at <= clock
        /\ Behind(cycles[t], clock)
        /\ handler[t] # Idle =>
             /\ past[t][Len(past[t])].at <= handler[t].now /\ Behind(cycles[t], handler[t].now)
             /\ ~Refused(ticket[t], handler[t].request)
    BY <1>1 DEF TicketFits
  <1>3. past[t][Len(past[t])].at \in Nat
    BY <1>2, EntryNumbers DEF Fits
  <1>4. Behind(cycles[t], clock')
    BY <1>1, <1>2, BehindLater
  <1> QED
    BY <1>1, <1>2, <1>3, <1>4

LEMMA FirstDeadline == Init => DeadlineInv
  <1> SUFFICES ASSUME Init PROVE DeadlineInv
    OBVIOUS
  <1>1. IInv
    BY InitEstablishes
  <1>2. Bounded
    BY BoundAssumption DEF Init, Bounded
  <1>3. ScansAreTimely /\ \A t \in Tickets : TicketFits(t)
    BY DEF Init, ScansAreTimely, TicketFits, Exists, NoTicket
  <1> QED
    BY <1>1, <1>2, <1>3 DEF DeadlineInv

LEMMA TickFits ==
  ASSUME DeadlineInv, Tick
  PROVE  Bounded' /\ ScansAreTimely' /\ \A t \in Tickets : TicketFits(t)'
  <1> USE DEF DeadlineInv
  <1>1. /\ clock < MaxClock /\ clock' = clock + 1
        /\ UNCHANGED <<ticket, cycles, handler, scan, begun, past>>
    BY DEF Tick
  <1>2. clock \in Nat /\ MaxClock \in Nat /\ clock' \in Nat /\ clock <= clock'
    BY <1>1, BoundAssumption DEF Bounded
  <1>3. Bounded'
    BY <1>1, <1>2 DEF Bounded
  <1>4. ScansAreTimely'
    <2> SUFFICES ASSUME NEW w \in Workers, NEW m \in scan[w]
                 PROVE  Timely(m, cycles[m.ticket][m.cycle], clock')
      BY <1>1 DEF ScansAreTimely
    <2>1. m.due \in Nat
      BY DEF IInv, Typed, BreachMarks, Positive
    <2> QED
      BY <1>1, <1>2, <2>1 DEF ScansAreTimely, Timely
  <1>5. ASSUME NEW t \in Tickets PROVE TicketFits(t)'
    BY <1>1, <1>2, UntouchedFits
  <1> QED
    BY <1>3, <1>4, <1>5

LEMMA CreateFits ==
  ASSUME DeadlineInv, NEW t \in Tickets, Create(t)
  PROVE  Bounded' /\ ScansAreTimely' /\ \A u \in Tickets : TicketFits(u)'
  <1> USE DEF DeadlineInv
  <1>1. PICK p \in OpenedAs :
          LET row == [status |-> "OPEN", priority |-> p, firstResponse |-> 0]
          IN  /\ ticket' = [ticket EXCEPT ![t] = row]
              /\ cycles' = [cycles EXCEPT ![t] = <<NewCycle(p, clock)>>]
              /\ past' = [past EXCEPT ![t] = <<Entry(row, clock)>>]
    BY DEF Create
  <1>2. ~Exists(t) /\ UNCHANGED <<audit, handler, scan, clock, begun>>
    BY DEF Create
  <1>3. p \in Priorities /\ clock \in Positive
    BY RequestAssumption DEF IInv, Typed
  <1> DEFINE row == [status |-> "OPEN", priority |-> p, firstResponse |-> 0]
             cs == <<NewCycle(p, clock)>>
             h == <<Entry(row, clock)>>
  <1>4. Fits(row, cs, h) /\ Behind(cs, clock) /\ h[Len(h)].at = clock /\ h \in Seq(Entries)
    BY <1>3, OpenedFits
  <1> HIDE DEF row, cs, h
  <1>5. /\ ticket' = [ticket EXCEPT ![t] = row] /\ cycles' = [cycles EXCEPT ![t] = cs]
        /\ past' = [past EXCEPT ![t] = h]
    BY <1>1 DEF row, cs, h
  <1>6. /\ ticket'[t] = row /\ cycles'[t] = cs /\ past'[t] = h
        /\ \A u \in Tickets : u # t =>
             ticket'[u] = ticket[u] /\ cycles'[u] = cycles[u] /\ past'[u] = past[u]
    BY <1>5 DEF IInv, Typed, Bounded
  <1>7. handler[t] = Idle /\ \A w \in Workers : \A m \in scan[w] : m.ticket # t
    <2>1. handler[t] = Idle
      BY <1>2 DEF IInv, InTime
    <2>2. 1..Len(cycles[t]) = {}
      BY <1>2 DEF IInv, UnopenedIsEmpty
    <2>3. \A w \in Workers : \A m \in scan[w] : m.ticket # t
      BY <2>2 DEF IInv, ScansHoldTheirRows
    <2> QED
      BY <2>1, <2>3
  <1>8. Bounded'
    BY <1>2, <1>4, <1>5 DEF Bounded
  <1>9. ScansAreTimely'
    <2> SUFFICES ASSUME NEW w \in Workers, NEW m \in scan[w]
                 PROVE  Timely(m, cycles'[m.ticket][m.cycle], clock)
      BY <1>2 DEF ScansAreTimely
    <2>1. m.ticket \in Tickets /\ m.ticket # t
      BY <1>7 DEF IInv, Typed, BreachMarks
    <2> QED
      BY <1>6, <2>1 DEF ScansAreTimely
  <1>10. ASSUME NEW u \in Tickets PROVE TicketFits(u)'
    <2>1. clock' \in Nat /\ clock <= clock'
      BY <1>2, <1>3 DEF Positive
    <2>2. CASE u # t
      BY <1>2, <1>6, <2>1, <2>2, UntouchedFits
    <2>3. CASE u = t
      <3>1. h[Len(h)].at <= clock
        BY <1>3, <1>4 DEF Positive
      <3> QED
        BY <1>2, <1>4, <1>6, <1>7, <2>3, <3>1 DEF TicketFits
    <2> QED
      BY <2>2, <2>3
  <1> QED
    BY <1>8, <1>9, <1>10

LEMMA LocksFit ==
  ASSUME DeadlineInv, NEW t \in Tickets, NEW r \in Requests, HandlerLocks(t, r)
  PROVE  Bounded' /\ ScansAreTimely' /\ \A u \in Tickets : TicketFits(u)'
  <1> USE DEF DeadlineInv
  <1>1. /\ Exists(t) /\ begun < MaxRequests /\ begun' = begun + 1 /\ ~Refused(ticket[t], r)
        /\ UNCHANGED <<ticket, cycles, audit, scan, clock, past>>
    BY DEF HandlerLocks
  <1>2. /\ handler'[t] # Idle => handler'[t].now = clock /\ handler'[t].request = r
        /\ \A u \in Tickets : u # t => handler'[u] = handler[u]
    <2> DEFINE g == [pc |-> "holds", request |-> r, now |-> clock, seen |-> cycles[t]]
    <2>1. g.now = clock /\ g.request = r
      OBVIOUS
    <2>2. handler' = [handler EXCEPT ![t] = g]
      BY DEF HandlerLocks
    <2> HIDE DEF g
    <2>3. handler'[t] = g /\ \A u \in Tickets : u # t => handler'[u] = handler[u]
      BY <2>2 DEF IInv, Typed
    <2> QED
      BY <2>1, <2>3
  <1>3. Bounded'
    BY <1>1, BoundAssumption DEF Bounded
  <1>4. ScansAreTimely'
    BY <1>1 DEF ScansAreTimely
  <1>5. ASSUME NEW u \in Tickets PROVE TicketFits(u)'
    <2>1. clock' \in Nat /\ clock <= clock'
      BY <1>1 DEF IInv, Typed, Positive
    <2>2. CASE u # t
      BY <1>1, <1>2, <2>1, <2>2, UntouchedFits
    <2>3. CASE u = t
      BY <1>1, <1>2, <2>3 DEF TicketFits, Exists
    <2> QED
      BY <2>2, <2>3
  <1> QED
    BY <1>3, <1>4, <1>5

LEMMA RollbackFits ==
  ASSUME DeadlineInv, NEW t \in Tickets, HandlerRollsBack(t)
  PROVE  Bounded' /\ ScansAreTimely' /\ \A u \in Tickets : TicketFits(u)'
  <1> USE DEF DeadlineInv
  <1>1. /\ handler' = [handler EXCEPT ![t] = Idle]
        /\ UNCHANGED <<ticket, cycles, audit, scan, clock, begun, past>>
    BY DEF HandlerRollsBack
  <1>2. \A u \in Tickets : handler'[u] = handler[u] \/ handler'[u] = Idle
    BY <1>1 DEF IInv, Typed
  <1>3. Bounded' /\ ScansAreTimely'
    BY <1>1 DEF Bounded, ScansAreTimely
  <1>4. clock' \in Nat /\ clock <= clock'
    BY <1>1 DEF IInv, Typed, Positive
  <1>5. ASSUME NEW u \in Tickets PROVE TicketFits(u)'
    BY <1>1, <1>2, <1>4, UntouchedFits
  <1> QED
    BY <1>3, <1>5

\* What a handler does when it commits.
LEMMA CommitFacts ==
  ASSUME DeadlineInv, NEW t \in Tickets, HandlerCommits(t)
  PROVE  LET now == handler[t].now
             e == EntryAfter(ticket[t], handler[t].request, now)
         IN  /\ Exists(t) /\ now \in Positive /\ now <= clock /\ past[t][Len(past[t])].at <= now
             /\ Fits(ticket[t], cycles[t], past[t]) /\ cycles[t] \in Seq(CycleRows)
             /\ e \in Entries /\ e.at = now
             /\ past' = [past EXCEPT ![t] = Append(past[t], e)]
             /\ handler' = [handler EXCEPT ![t] = Idle]
             /\ UNCHANGED <<audit, scan, clock, begun>>
             /\ Fits(ticket'[t], cycles'[t], past'[t]) /\ Earns(cycles[t], cycles'[t], now)
             /\ \A u \in Tickets : u # t =>
                  /\ ticket'[u] = ticket[u] /\ cycles'[u] = cycles[u] /\ past'[u] = past[u]
                  /\ handler'[u] = handler[u]
             /\ \A w \in Workers : \A m \in scan[w] :
                  m.ticket = t => cycles'[t][m.cycle] = cycles[t][m.cycle]
  <1> USE DEF DeadlineInv
  <1> DEFINE r == handler[t].request
             now == handler[t].now
             row == ticket[t]
             cs == cycles[t]
             h == past[t]
             e == EntryAfter(row, r, now)
             after == TicketAfter(row, r, now)
             ds == CyclesAfter(cs, row, r, now)
  <1>1. handler[t] # Idle /\ \A w \in Workers : ~Blocks(w, t)
    BY DEF HandlerCommits
  <1>2. r \in Requests /\ now \in Positive /\ handler[t].seen = cs /\ Exists(t) /\ now <= clock
    BY <1>1 DEF IInv, Typed, Holders, ReadsStayCurrent, InTime
  <1>3. row \in TicketRows /\ cs \in Seq(CycleRows)
    BY <1>2, OpenedRow DEF IInv, Typed
  <1>4. Outcome(t) = ds
    BY <1>2 DEF Outcome
  <1>5. /\ ticket' = [ticket EXCEPT ![t] = after] /\ cycles' = [cycles EXCEPT ![t] = ds]
        /\ past' = [past EXCEPT ![t] = Append(h, e)]
        /\ handler' = [handler EXCEPT ![t] = Idle] /\ UNCHANGED <<audit, scan, clock, begun>>
    BY <1>4 DEF HandlerCommits, EntryAfter
  <1>6. /\ Fits(row, cs, h) /\ h[Len(h)].at <= now /\ Behind(cs, now) /\ ~Refused(row, r)
    BY <1>1, <1>2 DEF TicketFits
  <1>7. e \in Entries /\ e.at = now
    BY <1>2, <1>3, EntryAfterIsEntry
  <1>8. \A w \in Workers : \A m \in scan[w] : m.ticket = t => ds[m.cycle] = cs[m.cycle]
    BY <1>1, <1>2, <1>4 DEF Blocks
  <1> HIDE DEF r, now, after, ds, e
  <1>9. /\ ticket'[t] = after /\ cycles'[t] = ds /\ past'[t] = Append(h, e)
        /\ \A u \in Tickets : u # t =>
             /\ ticket'[u] = ticket[u] /\ cycles'[u] = cycles[u] /\ past'[u] = past[u]
             /\ handler'[u] = handler[u]
    BY <1>5 DEF IInv, Typed, Bounded
  <1> HIDE DEF row, cs, h
  <1>10. Fits(after, ds, Append(h, e)) /\ Earns(cs, ds, now)
    BY <1>2, <1>3, <1>6, HandlerFits DEF after, ds, e
  <1> QED
    BY <1>2, <1>3, <1>5, <1>6, <1>7, <1>8, <1>9, <1>10 DEF r, now, e, row, cs, h

LEMMA CommitFits ==
  ASSUME DeadlineInv, IInv', NEW t \in Tickets, HandlerCommits(t)
  PROVE  Bounded' /\ ScansAreTimely' /\ \A u \in Tickets : TicketFits(u)'
  <1> DEFINE now == handler[t].now
             e == EntryAfter(ticket[t], handler[t].request, now)
  <1>1. /\ now \in Positive /\ now <= clock
        /\ Fits(ticket[t], cycles[t], past[t]) /\ cycles[t] \in Seq(CycleRows)
        /\ e \in Entries /\ e.at = now
        /\ past' = [past EXCEPT ![t] = Append(past[t], e)]
        /\ handler' = [handler EXCEPT ![t] = Idle]
        /\ UNCHANGED <<audit, scan, clock, begun>>
        /\ Fits(ticket'[t], cycles'[t], past'[t]) /\ Earns(cycles[t], cycles'[t], now)
        /\ \A u \in Tickets : u # t =>
             /\ ticket'[u] = ticket[u] /\ cycles'[u] = cycles[u] /\ past'[u] = past[u]
             /\ handler'[u] = handler[u]
        /\ \A w \in Workers : \A m \in scan[w] :
             m.ticket = t => cycles'[t][m.cycle] = cycles[t][m.cycle]
    BY CommitFacts
  <1> HIDE DEF e
  <1> USE DEF DeadlineInv
  <1>2. past'[t] = Append(past[t], e) /\ handler'[t] = Idle /\ past[t] \in Seq(Entries)
    BY <1>1 DEF IInv, Typed, Bounded
  <1>3. Bounded'
    BY <1>1, <1>2 DEF Bounded
  <1>4. ScansAreTimely'
    <2> SUFFICES ASSUME NEW w \in Workers, NEW m \in scan[w]
                 PROVE  Timely(m, cycles'[m.ticket][m.cycle], clock)
      BY <1>1 DEF ScansAreTimely
    <2>1. m.ticket \in Tickets
      BY DEF IInv, Typed, BreachMarks
    <2>2. cycles'[m.ticket][m.cycle] = cycles[m.ticket][m.cycle]
      BY <1>1, <2>1
    <2> QED
      BY <2>2 DEF ScansAreTimely
  <1>5. ASSUME NEW u \in Tickets PROVE TicketFits(u)'
    <2>1. clock' \in Nat /\ clock <= clock' /\ clock \in Nat /\ now \in Nat
      BY <1>1 DEF IInv, Typed, Positive
    <2>2. CASE u # t
      BY <1>1, <2>1, <2>2, UntouchedFits
    <2>3. CASE u = t
      <3>1. past'[t][Len(past'[t])].at <= clock
        <4>1. past'[t][Len(past'[t])] = e
          BY <1>1, <1>2
        <4> QED
          BY <1>1, <4>1
      <3>2. Behind(cycles'[t], clock)
        <4>1. \A i \in 1..Len(cycles'[t]) :
                cycles'[t][i].breached < now /\ cycles'[t][i].firstBreached < now
          BY <1>1 DEF Earns
        <4>2. \A i \in 1..Len(cycles'[t]) : cycles'[t][i].pauseStart <= clock
          BY <1>1 DEF IInv, InTime
        <4>3. \A i \in 1..Len(cycles'[t]) : cycles'[t][i] \in CycleRows
          BY <1>1 DEF Earns
        <4>4. \A i \in 1..Len(cycles'[t]) :
                cycles'[t][i].breached \in Nat /\ cycles'[t][i].firstBreached \in Nat
          BY <4>3 DEF CycleRows
        <4> QED
          BY <1>1, <2>1, <4>1, <4>2, <4>4 DEF Behind
      <3> QED
        BY <1>1, <1>2, <2>3, <3>1, <3>2 DEF TicketFits
    <2> QED
      BY <2>2, <2>3
  <1> QED
    BY <1>3, <1>4, <1>5

LEMMA ScanFits ==
  ASSUME DeadlineInv, NEW w \in Workers, WorkerScans(w)
  PROVE  Bounded' /\ ScansAreTimely' /\ \A u \in Tickets : TicketFits(u)'
  <1> USE DEF DeadlineInv
  <1>1. PICK S \in Batches \ {{}} : scan' = [scan EXCEPT ![w] = UNION {Marks(k) : k \in S}]
    BY DEF WorkerScans
  <1>2. UNCHANGED <<ticket, cycles, audit, handler, clock, begun, past>>
    BY DEF WorkerScans
  <1> DEFINE taken == UNION {Marks(k) : k \in S}
  <1>3. scan'[w] = taken /\ \A v \in Workers : v # w => scan'[v] = scan[v]
    BY <1>1 DEF IInv, Typed
  <1>4. ASSUME NEW m \in taken PROVE Timely(m, cycles[m.ticket][m.cycle], clock)
    <2>1. PICK k \in S : m \in Marks(k)
      OBVIOUS
    <2>2. S \subseteq Candidates
      BY DEF Batches
    <2> DEFINE c == cycles[k[1]][k[2]]
    <2>3. c.active
      BY <2>1, <2>2 DEF Candidates
    <2>4. PICK f \in Misses(c, clock) :
            m = [ticket |-> k[1], cycle |-> k[2], timer |-> f, at |-> clock,
                 due |-> IF f = "resolution" THEN Due(k) ELSE c.firstDue]
      BY <2>1 DEF Marks
    <2>5. /\ m.ticket = k[1] /\ m.cycle = k[2] /\ m.timer = f
          /\ m.due = IF f = "resolution" THEN c.due ELSE c.firstDue
      BY <2>4 DEF Due
    <2>6. \/ f = "first_response" /\ c.firstAt = 0 /\ c.firstDue < clock
          \/ f = "resolution" /\ c.completed = 0 /\ c.pauseStart = 0 /\ c.due < clock
      BY DEF Misses
    <2>7. c = cycles[m.ticket][m.cycle]
      BY <2>5
    <2> HIDE DEF c
    <2>8. Timely(m, c, clock)
      BY <2>3, <2>5, <2>6 DEF Timely
    <2> QED
      BY <2>7, <2>8
  <1> HIDE DEF taken
  <1>5. Bounded'
    BY <1>2 DEF Bounded
  <1>6. ScansAreTimely'
    <2>1. ASSUME NEW v \in Workers, NEW m \in scan'[v]
          PROVE  Timely(m, cycles[m.ticket][m.cycle], clock)
      <3>1. CASE v = w
        BY <1>3, <1>4, <3>1
      <3>2. CASE v # w
        BY <1>3, <3>2 DEF ScansAreTimely
      <3> QED
        BY <3>1, <3>2
    <2> QED
      BY <1>2, <2>1 DEF ScansAreTimely
  <1>7. clock' \in Nat /\ clock <= clock'
    BY <1>2 DEF IInv, Typed, Positive
  <1>8. ASSUME NEW u \in Tickets PROVE TicketFits(u)'
    BY <1>2, <1>7, UntouchedFits
  <1> QED
    BY <1>5, <1>6, <1>8

LEMMA ScanRollbackFits ==
  ASSUME DeadlineInv, NEW w \in Workers, WorkerRollsBack(w)
  PROVE  Bounded' /\ ScansAreTimely' /\ \A u \in Tickets : TicketFits(u)'
  <1> USE DEF DeadlineInv
  <1>1. /\ scan' = [scan EXCEPT ![w] = {}]
        /\ UNCHANGED <<ticket, cycles, audit, handler, clock, begun, past>>
    BY DEF WorkerRollsBack
  <1>2. scan'[w] = {} /\ \A v \in Workers : v # w => scan'[v] = scan[v]
    BY <1>1 DEF IInv, Typed
  <1>3. Bounded'
    BY <1>1 DEF Bounded
  <1>4. ScansAreTimely'
    BY <1>1, <1>2 DEF ScansAreTimely
  <1>5. clock' \in Nat /\ clock <= clock'
    BY <1>1 DEF IInv, Typed, Positive
  <1>6. ASSUME NEW u \in Tickets PROVE TicketFits(u)'
    BY <1>1, <1>5, UntouchedFits
  <1> QED
    BY <1>3, <1>4, <1>6

\* The marks of a scan for a cycle.
MarksFor(w, t, i) == {m \in scan[w] : m.ticket = t /\ m.cycle = i}

\* What a scan does to the cycles of a ticket when it commits.
LEMMA MarkFacts ==
  ASSUME DeadlineInv, NEW w \in Workers, WorkerCommits(w), NEW t \in Tickets
  PROVE  /\ cycles[t] \in Seq(CycleRows) /\ cycles'[t] \in Seq(CycleRows)
         /\ Len(cycles'[t]) = Len(cycles[t])
         /\ \A i \in 1..Len(cycles[t]) :
              LET c == cycles[t][i]
                  ms == MarksFor(w, t, i)
              IN  /\ c \in CycleRows /\ ms \in SUBSET BreachMarks /\ cycles'[t][i] = Marked(c, ms)
                  /\ \A m \in ms : Timely(m, c, clock)
                  /\ Sound(c, past[t]) /\ c.breached < clock /\ c.firstBreached < clock
                  /\ (c.active => i = Len(cycles[t]) /\ Books(c, past[t]) /\ Exists(t))
  <1> USE DEF DeadlineInv
  <1> DEFINE n == Len(cycles[t])
  <1>1. cycles[t] \in Seq(CycleRows) /\ scan[w] \in SUBSET BreachMarks
    BY DEF IInv, Typed
  <1>2. n \in Nat /\ DOMAIN cycles[t] = 1..n /\ \A i \in 1..n : cycles[t][i] \in CycleRows
    BY <1>1
  <1>3. cycles'[t] = [i \in 1..n |-> Marked(cycles[t][i], MarksFor(w, t, i))]
    BY <1>2 DEF WorkerCommits, MarksFor
  <1>4. ASSUME NEW i \in 1..n
        PROVE  LET c == cycles[t][i]
               IN  /\ c \in CycleRows /\ MarksFor(w, t, i) \in SUBSET BreachMarks
                   /\ Marked(c, MarksFor(w, t, i)) \in CycleRows
                   /\ \A m \in MarksFor(w, t, i) : Timely(m, c, clock)
                   /\ Sound(c, past[t]) /\ c.breached < clock /\ c.firstBreached < clock
                   /\ (c.active => i = n /\ Books(c, past[t]) /\ Exists(t))
    <2>1. Exists(t)
      <3>1. cycles[t] # << >>
        BY <1>2
      <3> QED
        BY <3>1 DEF IInv, UnopenedIsEmpty
    <2>2. Fits(ticket[t], cycles[t], past[t]) /\ Behind(cycles[t], clock)
      BY <2>1 DEF TicketFits
    <2>3. \A m \in MarksFor(w, t, i) : Timely(m, cycles[t][i], clock)
      BY DEF ScansAreTimely, MarksFor
    <2>4. MarksFor(w, t, i) \in SUBSET BreachMarks /\ cycles[t][i] \in CycleRows
      BY <1>1, <1>2 DEF MarksFor
    <2>5. Marked(cycles[t][i], MarksFor(w, t, i)) \in CycleRows
      BY <2>4, MarkedIsRow
    <2>6. cycles[t][i].active => i = n /\ Books(cycles[t][i], past[t])
      BY <1>2, <2>2 DEF Fits, LastRuns
    <2> QED
      BY <2>1, <2>2, <2>3, <2>4, <2>5, <2>6 DEF Fits, Behind
  <1>5. /\ cycles'[t] \in Seq(CycleRows) /\ Len(cycles'[t]) = n
        /\ \A i \in 1..n : cycles'[t][i] = Marked(cycles[t][i], MarksFor(w, t, i))
    <2> DEFINE ds == [i \in 1..n |-> Marked(cycles[t][i], MarksFor(w, t, i))]
    <2>1. \A i \in 1..n : ds[i] \in CycleRows /\ ds[i] = Marked(cycles[t][i], MarksFor(w, t, i))
      BY <1>4
    <2>2. ds = [i \in 1..n |-> ds[i]]
      OBVIOUS
    <2> HIDE DEF ds
    <2>3. ds \in Seq(CycleRows) /\ Len(ds) = n
      BY <1>2, <2>1, <2>2
    <2>4. cycles'[t] = ds
      BY <1>3 DEF ds
    <2> QED
      BY <2>1, <2>3, <2>4
  <1> QED
    BY <1>1, <1>4, <1>5

LEMMA MarkFits ==
  ASSUME DeadlineInv, IInv', NEW w \in Workers, WorkerCommits(w)
  PROVE  Bounded' /\ ScansAreTimely' /\ \A u \in Tickets : TicketFits(u)'
  <1> USE DEF DeadlineInv
  <1>1. /\ TicketIsFree(w) /\ scan' = [scan EXCEPT ![w] = {}]
        /\ UNCHANGED <<ticket, handler, clock, begun, past>>
    BY DEF WorkerCommits
  <1>2. Bounded'
    BY <1>1 DEF Bounded
  <1>3. scan'[w] = {} /\ \A v \in Workers : v # w => scan'[v] = scan[v]
    BY <1>1 DEF IInv, Typed
  <1>4. ScansAreTimely'
    <2>1. ASSUME NEW v \in Workers, NEW m \in scan'[v]
          PROVE  Timely(m, cycles'[m.ticket][m.cycle], clock)
      <3>1. v # w /\ m \in scan[v]
        BY <1>3
      <3>2. m.ticket \in Tickets /\ m.cycle \in 1..Len(cycles[m.ticket])
        BY <3>1 DEF IInv, Typed, BreachMarks, ScansHoldTheirRows
      <3>3. MarksFor(w, m.ticket, m.cycle) = {}
        BY <3>1 DEF IInv, ScansHoldTheirRows, MarksFor
      <3>4. /\ cycles[m.ticket][m.cycle] \in CycleRows
            /\ cycles'[m.ticket][m.cycle] = Marked(cycles[m.ticket][m.cycle], MarksFor(w, m.ticket, m.cycle))
        BY <3>2, MarkFacts
      <3>5. cycles'[m.ticket][m.cycle] = cycles[m.ticket][m.cycle]
        BY <3>3, <3>4, NothingMarked
      <3> QED
        BY <3>1, <3>5 DEF ScansAreTimely
    <2> QED
      BY <1>1, <2>1 DEF ScansAreTimely
  <1>5. ASSUME NEW t \in Tickets PROVE TicketFits(t)'
    <2> SUFFICES ASSUME Exists(t)
                 PROVE  /\ Fits(ticket[t], cycles'[t], past[t]) /\ past[t][Len(past[t])].at <= clock
                        /\ Behind(cycles'[t], clock)
                        /\ handler[t] # Idle =>
                             /\ past[t][Len(past[t])].at <= handler[t].now
                             /\ Behind(cycles'[t], handler[t].now)
                             /\ ~Refused(ticket[t], handler[t].request)
      BY <1>1 DEF TicketFits, Exists
    <2>1. /\ Fits(ticket[t], cycles[t], past[t]) /\ past[t][Len(past[t])].at <= clock
          /\ handler[t] # Idle =>
               /\ past[t][Len(past[t])].at <= handler[t].now /\ Behind(cycles[t], handler[t].now)
               /\ ~Refused(ticket[t], handler[t].request)
      BY DEF TicketFits
    <2> DEFINE n == Len(cycles[t])
    <2>2. /\ cycles[t] \in Seq(CycleRows) /\ cycles'[t] \in Seq(CycleRows) /\ Len(cycles'[t]) = n
      BY MarkFacts
    <2>3. n \in Nat /\ n # 0 /\ n \in 1..n
      BY <2>1, <2>2 DEF Fits, LastRuns
    <2>4. ASSUME NEW i \in 1..n
          PROVE  LET c == cycles[t][i]
                     d == cycles'[t][i]
                 IN  /\ Sound(d, past[t])
                     /\ Books(c, past[t]) => Books(d, past[t])
                     /\ d.active = c.active /\ d.breached < clock /\ d.firstBreached < clock
      <3>1. /\ cycles[t][i] \in CycleRows /\ MarksFor(w, t, i) \in SUBSET BreachMarks
            /\ cycles'[t][i] = Marked(cycles[t][i], MarksFor(w, t, i))
            /\ \A m \in MarksFor(w, t, i) : Timely(m, cycles[t][i], clock)
            /\ Sound(cycles[t][i], past[t])
            /\ cycles[t][i].breached < clock /\ cycles[t][i].firstBreached < clock
        BY MarkFacts
      <3>2. clock \in Positive
        BY DEF IInv, Typed
      <3> QED
        BY <3>1, <3>2, MarkedIsSound
    <2>5. Fits(ticket[t], cycles'[t], past[t])
      <3>1. LastRuns(cycles'[t])
        BY <2>1, <2>2, <2>3, <2>4 DEF Fits, LastRuns
      <3>2. \A i \in 1..n : Sound(cycles'[t][i], past[t])
        BY <2>4
      <3>3. /\ cycles'[t][n].active = cycles[t][n].active
            /\ Books(cycles[t][n], past[t]) => Books(cycles'[t][n], past[t])
        BY <2>3, <2>4
      <3> QED
        BY <2>1, <2>2, <3>1, <3>2, <3>3 DEF Fits
    <2>6. Behind(cycles'[t], clock)
      <3>1. \A i \in 1..n : cycles'[t][i].pauseStart <= clock
        BY <1>1, <2>2 DEF IInv, InTime
      <3> QED
        BY <2>2, <2>4, <3>1 DEF Behind
    <2>7. handler[t] # Idle => Behind(cycles'[t], handler[t].now)
      <3>1. handler[t] # Idle => cycles'[t] = cycles[t]
        BY <1>1 DEF IInv, ReadsStayCurrent
      <3> QED
        BY <2>1, <3>1
    <2> QED
      BY <2>1, <2>5, <2>6, <2>7
  <1> QED
    BY <1>2, <1>4, <1>5

LEMMA DeadlineStep == DeadlineInv /\ [Next]_vars => DeadlineInv'
  <1> SUFFICES ASSUME DeadlineInv, [Next]_vars PROVE DeadlineInv'
    OBVIOUS
  <1>1. IInv'
    BY StepPreserves DEF DeadlineInv
  <1>2. CASE Tick
    BY <1>1, <1>2, TickFits DEF DeadlineInv
  <1>3. ASSUME NEW t \in Tickets, Handle(t) PROVE DeadlineInv'
    <2>1. CASE Create(t)
      BY <1>1, <2>1, CreateFits DEF DeadlineInv
    <2>2. CASE HandlerCommits(t)
      BY <1>1, <2>2, CommitFits DEF DeadlineInv
    <2>3. CASE HandlerRollsBack(t)
      BY <1>1, <2>3, RollbackFits DEF DeadlineInv
    <2>4. ASSUME NEW r \in Requests, HandlerLocks(t, r) PROVE DeadlineInv'
      BY <1>1, <2>4, LocksFit DEF DeadlineInv
    <2> QED
      BY <1>3, <2>1, <2>2, <2>3, <2>4 DEF Handle
  <1>4. ASSUME NEW w \in Workers, Scan(w) PROVE DeadlineInv'
    <2>1. CASE WorkerScans(w)
      BY <1>1, <2>1, ScanFits DEF DeadlineInv
    <2>2. CASE WorkerCommits(w)
      BY <1>1, <2>2, MarkFits DEF DeadlineInv
    <2>3. CASE WorkerRollsBack(w)
      BY <1>1, <2>3, ScanRollbackFits DEF DeadlineInv
    <2> QED
      BY <1>4, <2>1, <2>2, <2>3 DEF Scan
  <1>5. CASE UNCHANGED vars
    <2>1. UNCHANGED <<ticket, cycles, audit, handler, scan, clock, begun, past>>
      BY <1>5 DEF vars
    <2>2. Bounded' /\ ScansAreTimely'
      BY <2>1 DEF DeadlineInv, Bounded, ScansAreTimely
    <2>3. \A t \in Tickets : TicketFits(t)'
      BY <2>1 DEF DeadlineInv, TicketFits, Exists
    <2> QED
      BY <1>1, <2>2, <2>3 DEF DeadlineInv
  <1> QED
    BY <1>2, <1>3, <1>4, <1>5 DEF Next

LEMMA DeadlineInvHolds == Spec => []DeadlineInv
  BY FirstDeadline, DeadlineStep, PTL DEF Spec

-----------------------------------------------------------------------------
(* What the deadlines promise.                                             *)

\* A ticket with a cycle has been opened, and fits.
LEMMA CyclesFit ==
  ASSUME DeadlineInv, NEW t \in Tickets, NEW i \in DOMAIN cycles[t]
  PROVE  /\ Fits(ticket[t], cycles[t], past[t]) /\ past[t][Len(past[t])].at <= clock
         /\ cycles[t] \in Seq(CycleRows) /\ cycles[t][i] \in CycleRows
         /\ i \in 1..Len(cycles[t]) /\ Sound(cycles[t][i], past[t]) /\ clock \in Positive
         /\ i < Len(cycles[t]) => ~cycles[t][i].active
         /\ cycles[t][i].active => i = Len(cycles[t]) /\ Books(cycles[t][i], past[t])
  <1>1. cycles[t] \in Seq(CycleRows) /\ clock \in Positive
    BY DEF DeadlineInv, IInv, Typed
  <1>2. i \in 1..Len(cycles[t]) /\ Len(cycles[t]) \in Nat /\ cycles[t] # << >>
    BY <1>1
  <1>3. Exists(t)
    BY <1>2 DEF DeadlineInv, IInv, UnopenedIsEmpty
  <1>4. Fits(ticket[t], cycles[t], past[t]) /\ past[t][Len(past[t])].at <= clock
    BY <1>3 DEF DeadlineInv, TicketFits
  <1>5. Sound(cycles[t][i], past[t]) /\ (i < Len(cycles[t]) => ~cycles[t][i].active)
    BY <1>2, <1>4 DEF Fits, LastRuns
  <1>6. cycles[t][i].active => i = Len(cycles[t]) /\ Books(cycles[t][i], past[t])
    <2>1. cycles[t][i].active => i = Len(cycles[t])
      BY <1>2, <1>5
    <2> QED
      BY <1>4, <2>1 DEF Fits
  <1> QED
    BY <1>1, <1>2, <1>4, <1>5, <1>6

LEMMA RowsHaveInstants ==
  ASSUME NEW c \in CycleRows
  PROVE  \A col \in DOMAIN c \ {"priority", "active"} : c[col] \in Nat
  BY DEF CycleRows, Positive

LEMMA RowsAreTyped == DeadlineInv => TypeOK
  <1> SUFFICES ASSUME DeadlineInv PROVE TypeOK
    OBVIOUS
  <1>1. ticket \in [Tickets -> [status: Statuses, priority: Priorities, firstResponse: Nat]
                                \cup {NoTicket}]
    BY DEF DeadlineInv, IInv, Typed, TicketRows
  <1>2. clock \in 1..MaxClock /\ begun \in 0..MaxRequests
    BY DEF DeadlineInv, Bounded
  <1>3. ASSUME NEW t \in Tickets, NEW i \in DOMAIN cycles[t]
        PROVE  /\ cycles[t][i].priority \in Priorities
               /\ \A col \in DOMAIN cycles[t][i] \ {"priority", "active"} : cycles[t][i][col] \in Nat
               /\ cycles[t][i].active <=> cycles[t][i].completed = 0
               /\ i < Len(cycles[t]) => ~cycles[t][i].active
    BY CyclesFit, CycleNumbers, RowsHaveInstants DEF Sound
  <1> QED
    BY <1>1, <1>2, <1>3 DEF TypeOK

\* The rows are what the types say, and no cycle but the last of a ticket is active.
THEOREM SlaRowsAreTyped == Spec => []TypeOK
  BY DeadlineInvHolds, RowsAreTyped, PTL

\* What is completed or answered too late has been marked as a breach, with an instant
\* before it stopped, and nothing else is (sla.py:150-159, 184-193, 224-305).
THEOREM BreachesAreRecordedExactly == Spec => []BreachesAreExact
  <1>1. DeadlineInv => BreachesAreExact
    BY CyclesFit DEF BreachesAreExact, Sound
  <1> QED
    BY <1>1, DeadlineInvHolds, PTL

\* The active cycle of a ticket is its last.
LEMMA ActiveFits ==
  ASSUME DeadlineInv, NEW t \in Tickets, ActiveCycle(cycles[t]) # 0
  PROVE  ActiveCycle(cycles[t]) \in DOMAIN cycles[t] /\ cycles[t][ActiveCycle(cycles[t])].active
  <1> DEFINE A == {i \in DOMAIN cycles[t] : cycles[t][i].active}
  <1>1. A # {}
    BY DEF ActiveCycle
  <1>2. PICK k \in DOMAIN cycles[t] : TRUE
    BY <1>1
  <1>3. Fits(ticket[t], cycles[t], past[t]) /\ cycles[t] \in Seq(CycleRows)
    BY CyclesFit
  <1>4. ActiveCycle(cycles[t]) = IF cycles[t][Len(cycles[t])].active THEN Len(cycles[t]) ELSE 0
    BY <1>3, ActiveIsLast DEF Fits
  <1>5. Len(cycles[t]) \in DOMAIN cycles[t]
    BY <1>3 DEF Fits, LastRuns
  <1> QED
    BY <1>4, <1>5

LEMMA TargetsAreGranted == DeadlineInv => DeadlineHonoursTarget
  <1> SUFFICES ASSUME DeadlineInv, NEW t \in Tickets, NEW i, i = ActiveCycle(cycles[t]), i # 0,
                      NEW c, c = cycles[t][i]
               PROVE  /\ RepricedWaiting(past[t], c) \/ Grants(past[t], c, clock)
                      /\ c.firstAt = 0 => c.firstDue = c.started + FirstTarget[c.priority]
    BY DEF DeadlineHonoursTarget
  <1>1. i \in DOMAIN cycles[t] /\ c.active
    BY ActiveFits
  <1>2. /\ Chronicle(past[t]) /\ past[t][Len(past[t])].at <= clock /\ c \in CycleRows
        /\ Sound(c, past[t]) /\ Books(c, past[t]) /\ clock \in Nat
    BY <1>1, CyclesFit DEF Fits, Positive
  <1>3. Balance(c, Waited(past[t], c.started, clock), Slack(past[t], c),
                RepricedWaiting(past[t], c), clock)
    BY <1>2, BooksLater
  <1> QED
    BY <1>3 DEF Balance, Grants

\* However a ticket has been moved, re-priced and answered, its deadline grants the target
\* of its priority less the time it has counted, up to the rounding of each pause, unless
\* the priority changed in a pause (sla.py:7-11, 162-207).
THEOREM DeadlinesGrantTheTarget == Spec => []DeadlineHonoursTarget
  BY DeadlineInvHolds, TargetsAreGranted, PTL

\* A cycle that is past its deadline has been worked on for more than its target.
LEMMA PastDueIsWorked ==
  ASSUME NEW h, Chronicle(h), NEW c \in CycleRows, Sound(c, h), Books(c, h),
         NEW now \in Positive, h[Len(h)].at <= now, EffectiveDue(c, now) < now,
         NEW later \in Nat, now <= later
  PROVE  Worked(h, c, later) + Slack(h, c) > ResolutionTarget[c.priority]
  <1>1. now \in Nat /\ c.started \in Nat /\ ResolutionTarget[c.priority] \in Nat
    BY CycleNumbers DEF Positive
  <1>2. /\ Waited(h, c.started, now) \in Nat /\ Slack(h, c) \in Nat
        /\ Balance(c, Waited(h, c.started, now), Slack(h, c), RepricedWaiting(h, c), now)
    BY <1>1, BooksLater
  <1>3. ((now - c.started) - Waited(h, c.started, now)) + Slack(h, c) > ResolutionTarget[c.priority]
    BY <1>2, LateIsWorked
  <1>4. c.started <= now
    BY <1>2 DEF Balance
  <1>5. Waited(h, c.started, later) =
          Waited(h, c.started, now) + (IF Waits(h[Len(h)]) THEN later - now ELSE 0)
    BY <1>1, <1>4, WaitedOn
  <1>6. Worked(h, c, later) = (later - c.started) - Waited(h, c.started, later)
    BY DEF Worked
  <1>7. PICK w \in Nat, s \in Nat, t \in Nat, b \in Nat :
          /\ w = Waited(h, c.started, now) /\ s = Slack(h, c)
          /\ t = ResolutionTarget[c.priority] /\ b = c.started
    BY <1>1, <1>2
  <1>8. ((now - b) - w) + s > t
    BY <1>3, <1>7
  <1>9. ((later - b) - (w + (IF Waits(h[Len(h)]) THEN later - now ELSE 0))) + s > t
    BY <1>1, <1>8
  <1> QED
    BY <1>5, <1>6, <1>7, <1>9

\* What is asked of one cycle in a step.
Earned(t, i) ==
  LET c == cycles'[t][i]
  IN  /\ cycles[t][i].completed # 0 => c = cycles[t][i]
      /\ c.breached # cycles[t][i].breached =>
           Worked(past[t], c, clock) + Slack(past[t], c) > ResolutionTarget[c.priority]

\* A cycle whose deadline has passed may be marked.
LEMMA EarnedWhenDue ==
  ASSUME DeadlineInv, NEW t \in Tickets, NEW i \in DOMAIN cycles[t], NEW now \in Positive,
         now <= clock, past[t][Len(past[t])].at <= now,
         ~cycles[t][i].active => cycles'[t][i] = cycles[t][i],
         cycles'[t][i].breached # cycles[t][i].breached =>
           /\ cycles[t][i].active /\ cycles'[t][i].started = cycles[t][i].started
           /\ cycles'[t][i].priority = cycles[t][i].priority
           /\ EffectiveDue(cycles[t][i], now) < now
  PROVE  Earned(t, i)
  <1> DEFINE c == cycles[t][i]
             d == cycles'[t][i]
             h == past[t]
  <1>1. /\ Chronicle(h) /\ c \in CycleRows /\ Sound(c, h) /\ clock \in Nat
        /\ c.active => Books(c, h)
    BY CyclesFit DEF Fits, Positive
  <1>2. c.completed # 0 => d = c
    BY <1>1 DEF Sound
  <1>3. ASSUME d.breached # c.breached
        PROVE  Worked(h, d, clock) + Slack(h, d) > ResolutionTarget[d.priority]
    <2>1. /\ c.active /\ d.started = c.started /\ d.priority = c.priority
          /\ EffectiveDue(c, now) < now
      BY <1>3
    <2> HIDE DEF c, d, h
    <2>2. h[Len(h)].at <= now
      BY DEF h
    <2>3. Worked(h, c, clock) + Slack(h, c) > ResolutionTarget[c.priority]
      BY <1>1, <2>1, <2>2, PastDueIsWorked
    <2>4. Worked(h, d, clock) = Worked(h, c, clock) /\ Slack(h, d) = Slack(h, c)
      BY <2>1 DEF Worked, Slack
    <2> QED
      BY <2>1, <2>3, <2>4
  <1> QED
    BY <1>2, <1>3 DEF Earned

LEMMA StepEarns ==
  ASSUME DeadlineInv, [Next]_vars, NEW t \in Tickets, NEW i \in DOMAIN cycles[t]
  PROVE  Earned(t, i)
  <1>0. /\ past[t][Len(past[t])].at <= clock /\ clock \in Positive /\ clock <= clock
        /\ i \in 1..Len(cycles[t])
    BY CyclesFit DEF Positive
  <1>1. CASE cycles'[t] = cycles[t]
    BY <1>0, <1>1, EarnedWhenDue
  <1>2. ASSUME NEW u \in Tickets, HandlerCommits(u), cycles'[t] # cycles[t] PROVE Earned(t, i)
    <2>1. u = t
      BY <1>2, CommitFacts
    <2>2. /\ handler[t].now \in Positive /\ handler[t].now <= clock
          /\ past[t][Len(past[t])].at <= handler[t].now
          /\ Earns(cycles[t], cycles'[t], handler[t].now)
      BY <1>2, <2>1, CommitFacts
    <2> QED
      BY <1>0, <2>2, EarnedWhenDue DEF Earns
  <1>3. ASSUME NEW w \in Workers, WorkerCommits(w) PROVE Earned(t, i)
    <2> DEFINE c == cycles[t][i]
               d == cycles'[t][i]
               ms == MarksFor(w, t, i)
    <2>1. /\ c \in CycleRows /\ ms \in SUBSET BreachMarks /\ d = Marked(c, ms)
          /\ \A m \in ms : Timely(m, c, clock)
          /\ Sound(c, past[t]) /\ c.breached < clock /\ c.firstBreached < clock
      BY <1>0, <1>3, MarkFacts
    <2> HIDE DEF c, d, ms
    <2>2. /\ c.completed # 0 => d = c
          /\ d.breached # c.breached =>
               /\ c.active /\ d.started = c.started /\ d.priority = c.priority
               /\ EffectiveDue(c, clock) < clock
      BY <1>0, <2>1, MarkedIsSound
    <2>3. ~c.active => d = c
      BY <2>1, <2>2 DEF Sound
    <2> QED
      BY <1>0, <2>2, <2>3, EarnedWhenDue DEF c, d
  <1>4. ASSUME NEW u \in Tickets, Create(u) PROVE cycles'[t] = cycles[t]
    <2>1. u # t
      <3>1. cycles[u] = << >>
        BY <1>4 DEF Create, DeadlineInv, IInv, UnopenedIsEmpty
      <3> QED
        BY <1>0, <3>1
    <2> QED
      BY <1>4, <2>1 DEF Create, DeadlineInv, IInv, Typed
  <1>5. Tick \/ UNCHANGED vars => cycles' = cycles
    BY DEF Tick, vars
  <1>6. \A u \in Tickets : HandlerRollsBack(u) \/ (\E r \in Requests : HandlerLocks(u, r))
                             => cycles' = cycles
    BY DEF HandlerRollsBack, HandlerLocks
  <1>7. \A w \in Workers : WorkerScans(w) \/ WorkerRollsBack(w) => cycles' = cycles
    BY DEF WorkerScans, WorkerRollsBack
  <1> QED
    BY <1>1, <1>2, <1>3, <1>4, <1>5, <1>6, <1>7 DEF Next, Handle, Scan

\* A resolution is marked as breached, by a scan or by the handler that completes it, only
\* when more than its target had been worked by then, up to the rounding of each pause,
\* and what is completed never changes (sla.py:184-193, 209-221, 276-282).
THEOREM BreachesAreEarned == Spec => BreachIsEarned
  <1>1. DeadlineInv /\ [Next]_vars =>
          [\A t \in Tickets : \A i \in DOMAIN cycles[t] :
             LET c == cycles'[t][i]
             IN  /\ cycles[t][i].completed # 0 => c = cycles[t][i]
                 /\ c.breached # cycles[t][i].breached =>
                      Worked(past[t], c, clock) + Slack(past[t], c) > ResolutionTarget[c.priority]]_vars
    BY StepEarns DEF Earned
  <1> QED
    BY <1>1, DeadlineInvHolds, PTL DEF Spec, BreachIsEarned

=============================================================================
