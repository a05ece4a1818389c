--------------------------- MODULE DeliveryProofs ---------------------------
(***************************************************************************)
(* Theorems about Delivery, for any events, tabs, workers and sizes.       *)
(***************************************************************************)
EXTENDS Delivery, FiniteSetTheorems, TLAPS

\* What a tab does leaves the outbox and the hub alone.
LEMMA HubAlone ==
  ASSUME NEW u \in Tabs, Tab(u)
  PROVE  UNCHANGED <<outboxVars, hubVars>>
BY DEF Tab, Connect, StreamFails, AuthExpired, StreamSends, Heartbeat, Refresh, FetchReads,
       FetchArrives, FetchFails, Poll, SessionEnds

\* What happens to the hub and to the tabs leaves the rows alone.
LEMMA OutboxAlone ==
  ASSUME Hub \/ (\E u \in Tabs : Tab(u)) \/ UNCHANGED vars
  PROVE  UNCHANGED outboxVars
<1>1. Hub => UNCHANGED outboxVars
  BY DEF Hub, HubConnects, LinkBreaks, HubNotices, Restart, FanoutBegins, FanoutEnds,
         FanoutFails
<1> QED
  BY <1>1, HubAlone DEF vars

\* What the worker does leaves streams and tabs alone.
LEMMA TabsAlone ==
  ASSUME Outbox
  PROVE  UNCHANGED <<streamVars, tabVars, link, fan>>
BY DEF Outbox, CommitChange, BackoffEnds, RetryFailed, ClaimBatch, DispatchCommits,
       DispatchRollsBack, hubVars

-----------------------------------------------------------------------------
(* The worker.                                                             *)

\* The part of TypeOK that is about rows.
RowsTyped ==
  /\ rows \subseteq Events /\ delivered \subseteq rows /\ deferred \subseteq Pending
  /\ attempts \in [Events -> 0..MaxAttempts] /\ claims \in [Workers -> SUBSET Events]
  /\ sent \in [Events -> Nat]

\* A row is held by one worker, and what is held waits to be delivered.
Claiming ==
  /\ \A w, v \in Workers : w # v => claims[w] \cap claims[v] = {}
  /\ \A w \in Workers : \A e \in claims[w] :
       e \in Pending \ deferred /\ attempts[e] < MaxAttempts

OutboxInv == RowsTyped /\ Claiming /\ NotifiedOnce

LEMMA OutboxInitially == Init => OutboxInv
BY SizeAssumption DEF Init, OutboxInv, RowsTyped, Claiming, NotifiedOnce, Pending

LEMMA OutboxInductive == OutboxInv /\ [Next]_vars => OutboxInv'
<1> SUFFICES ASSUME OutboxInv, [Next]_vars
             PROVE  OutboxInv'
  OBVIOUS
<1> USE DEF OutboxInv, Pending
<1>1. CASE UNCHANGED outboxVars
  BY <1>1 DEF outboxVars, rowVars, RowsTyped, Claiming, NotifiedOnce
<1>2. ASSUME NEW e \in Events, CommitChange(e)
      PROVE  OutboxInv'
  BY <1>2 DEF CommitChange, RowsTyped, Claiming, NotifiedOnce
<1>3. ASSUME NEW e \in Events, BackoffEnds(e)
      PROVE  OutboxInv'
  BY <1>3 DEF BackoffEnds, RowsTyped, Claiming, NotifiedOnce
<1>4. ASSUME NEW e \in Events, RetryFailed(e)
      PROVE  OutboxInv'
  <2>1. \A w \in Workers : e \notin claims[w]
    BY <1>4, SizeAssumption DEF RetryFailed, Claiming, RowsTyped
  <2>2. RowsTyped' /\ NotifiedOnce'
    BY <1>4, SizeAssumption DEF RetryFailed, RowsTyped, NotifiedOnce
  <2>3. Claiming'
    BY <1>4, <2>1 DEF RetryFailed, Claiming, RowsTyped
  <2> QED
    BY <2>2, <2>3
<1>5. ASSUME NEW w \in Workers, ClaimBatch(w)
      PROVE  OutboxInv'
  <2>1. PICK batch \in SUBSET Claimable : claims' = [claims EXCEPT ![w] = batch]
    BY <1>5 DEF ClaimBatch
  <2>2. UNCHANGED <<rowVars, sent>>
    BY <1>5 DEF ClaimBatch
  <2>3. Claiming'
    BY <2>1, <2>2 DEF Claiming, Claimable, Claimed, rowVars, RowsTyped
  <2> QED
    BY <2>1, <2>2, <2>3 DEF RowsTyped, NotifiedOnce, rowVars, Claimable
<1>6. ASSUME NEW w \in Workers, DispatchCommits(w)
      PROVE  OutboxInv'
  <2>1. PICK failed \in SUBSET claims[w] :
          /\ delivered' = delivered \cup (claims[w] \ failed) /\ deferred' = deferred \cup failed
          /\ sent' = [e \in Events |-> IF e \in claims[w] \ failed THEN sent[e] + 1 ELSE sent[e]]
    BY <1>6 DEF DispatchCommits
  <2>2. /\ rows' = rows /\ claims' = [claims EXCEPT ![w] = {}]
        /\ attempts' = [e \in Events |->
             IF e \in claims[w] THEN attempts[e] + 1 ELSE attempts[e]]
    BY <1>6 DEF DispatchCommits
  <2>3. /\ claims[w] \subseteq Pending \ deferred
        /\ \A e \in claims[w] : attempts[e] < MaxAttempts
        /\ \A v \in Workers \ {w} : claims[v] \cap claims[w] = {}
    BY DEF Claiming
  <2>4. RowsTyped'
    <3>1. attempts' \in [Events -> 0..MaxAttempts]
      BY <2>2, <2>3, SizeAssumption DEF RowsTyped
    <3>2. sent' \in [Events -> Nat] /\ claims' \in [Workers -> SUBSET Events]
      BY <2>1, <2>2 DEF RowsTyped
    <3> QED
      BY <2>1, <2>2, <2>3, <3>1, <3>2 DEF RowsTyped
  <2>5. Claiming'
    BY <2>1, <2>2, <2>3 DEF Claiming, RowsTyped
  <2>6. NotifiedOnce'
    BY <2>1, <2>2, <2>3 DEF NotifiedOnce, RowsTyped
  <2> QED
    BY <2>4, <2>5, <2>6
<1>7. ASSUME NEW w \in Workers, DispatchRollsBack(w)
      PROVE  OutboxInv'
  BY <1>7 DEF DispatchRollsBack, rowVars, RowsTyped, Claiming, NotifiedOnce
<1> QED
  BY <1>1, <1>2, <1>3, <1>4, <1>5, <1>6, <1>7, OutboxAlone DEF Next, Outbox

LEMMA OutboxInvariant == Spec => []OutboxInv
BY OutboxInitially, OutboxInductive, PTL DEF Spec

\* Whatever workers, crashes, back-offs and revivals come together, an event is
\* notified exactly when it is marked as delivered, and so at most once.
THEOREM SentWithTheMark == Spec => []NotifiedOnce
<1>1. OutboxInv => NotifiedOnce
  BY DEF OutboxInv
<1> QED
  BY <1>1, OutboxInvariant, PTL

-----------------------------------------------------------------------------
(* The hub, the streams and the tabs.                                      *)

\* The rest of TypeOK, the audience of a fan-out, and the queue of a stream that is not
\* open: empty.
HubTyped ==
  /\ link \in {"down", "up", "broken"} /\ dropped \subseteq Events
  /\ incoming \subseteq Events /\ Cardinality(incoming) <= IncomingSize
  /\ fan = NoFan \/ \E e \in Events : \E us \in SUBSET Audience(e) :
       fan = [event |-> e, allowed |-> us]
StreamsTyped ==
  /\ stream \in [Tabs -> {"off", "open", "ended"}] /\ queue \in [Tabs -> Seq(Items)]
  /\ \A u \in Tabs : /\ Len(queue[u]) <= QueueSize
                     /\ u \in overflowed => queue[u] = <<OVERFLOW>>
                     /\ stream[u] # "open" => queue[u] = << >> /\ u \notin overflowed
  /\ overflowed \subseteq Tabs
TabsTyped ==
  /\ signedIn \subseteq Tabs /\ due \subseteq Tabs
  /\ fetch \in [Tabs -> {"idle", "asked", "answered", "failed"}]
  /\ brings \in [Tabs -> SUBSET Events] /\ view \in [Tabs -> SUBSET Events]

\* Rows stay, so a fetch brings all that the tab shows already.
Underway(u) == fetch[u] \in {"asked", "answered"}
FetchesGrow ==
  \A u \in Tabs : /\ view[u] \subseteq Readable(u) /\ brings[u] \subseteq Readable(u)
                  /\ Underway(u) => view[u] \subseteq brings[u]

DeliveryInv == OutboxInv /\ HubTyped /\ StreamsTyped /\ TabsTyped /\ FetchesGrow

LEMMA DeliveryInitially == Init => DeliveryInv
<1> SUFFICES ASSUME Init
             PROVE  DeliveryInv
  OBVIOUS
<1>1. HubTyped
  BY FS_EmptySet, SizeAssumption DEF Init, HubTyped
<1>2. StreamsTyped
  BY SizeAssumption DEF Init, StreamsTyped
<1>3. TabsTyped
  BY DEF Init, TabsTyped
<1>4. FetchesGrow
  BY DEF Init, FetchesGrow, Underway
<1> QED
  BY <1>1, <1>2, <1>3, <1>4, OutboxInitially DEF DeliveryInv

\* Sequences: what Append keeps and adds, and what Tail leaves.
LEMMA AppendKeeps ==
  ASSUME NEW S, NEW s \in Seq(S), NEW x \in S
  PROVE  /\ Append(s, x) \in Seq(S) /\ Len(Append(s, x)) = Len(s) + 1
         /\ \A i \in DOMAIN s : i \in DOMAIN Append(s, x) /\ Append(s, x)[i] = s[i]
         /\ Len(s) + 1 \in DOMAIN Append(s, x) /\ Append(s, x)[Len(s) + 1] = x
OBVIOUS

LEMMA TailLeaves ==
  ASSUME NEW S, NEW s \in Seq(S), s # << >>
  PROVE  /\ Head(s) \in S /\ Tail(s) \in Seq(S) /\ Len(Tail(s)) = Len(s) - 1
         /\ \A i \in DOMAIN s : s[i] = Head(s) \/ \E j \in DOMAIN Tail(s) : Tail(s)[j] = s[i]
<1>1. Head(s) \in S /\ Tail(s) \in Seq(S) /\ Len(Tail(s)) = Len(s) - 1
  OBVIOUS
<1>2. ASSUME NEW i \in DOMAIN s, i # 1
      PROVE  i - 1 \in DOMAIN Tail(s) /\ Tail(s)[i - 1] = s[i]
  BY <1>2
<1>3. s[1] = Head(s)
  OBVIOUS
<1> QED
  BY <1>1, <1>2, <1>3

LEMMA EnqueueTyped ==
  ASSUME StreamsTyped, NEW us \in SUBSET Tabs, NEW item \in Items, Enqueue(us, item),
         UNCHANGED stream
  PROVE  StreamsTyped'
<1> DEFINE targets == {u \in us : stream[u] = "open"}
<1>1. /\ queue' = [u \in Tabs |-> IF u \in targets THEN Enqueued(u, item) ELSE queue[u]]
      /\ overflowed' = overflowed \cup {u \in targets : Len(queue[u]) = QueueSize}
  BY DEF Enqueue
<1>2. ASSUME NEW u \in Tabs
      PROVE  /\ queue'[u] \in Seq(Items) /\ Len(queue'[u]) <= QueueSize
             /\ u \in overflowed' => queue'[u] = <<OVERFLOW>>
             /\ stream[u] # "open" => queue'[u] = << >> /\ u \notin overflowed'
  <2>0. queue[u] \in Seq(Items) /\ <<OVERFLOW>> \in Seq(Items) /\ Len(<<OVERFLOW>>) = 1
    BY DEF StreamsTyped, Items
  <2>1. CASE u \notin targets \/ u \in overflowed
    BY <1>1, <2>1, <2>0, SizeAssumption DEF StreamsTyped, Enqueued
  <2>2. CASE u \in targets /\ u \notin overflowed /\ Len(queue[u]) = QueueSize
    BY <1>1, <2>2, <2>0, SizeAssumption DEF StreamsTyped, Enqueued
  <2>3. CASE u \in targets /\ u \notin overflowed /\ Len(queue[u]) # QueueSize
    <3>1. queue'[u] = Append(queue[u], item) /\ u \notin overflowed'
      BY <1>1, <2>3 DEF Enqueued
    <3>2. Len(queue[u]) < QueueSize
      BY <2>0, <2>3, SizeAssumption DEF StreamsTyped
    <3> QED
      BY <3>1, <3>2, <2>0, <2>3, AppendKeeps, SizeAssumption
  <2> QED
    BY <2>1, <2>2, <2>3
<1>3. queue' \in [Tabs -> Seq(Items)] /\ overflowed' \subseteq Tabs
  BY <1>1, <1>2 DEF StreamsTyped
<1> QED
  BY <1>2, <1>3 DEF StreamsTyped

LEMMA ClosesTyped ==
  ASSUME StreamsTyped, NEW u \in Tabs, NEW how \in {"off", "ended"}, Closes(u, how)
  PROVE  StreamsTyped'
<1>1. << >> \in Seq(Items) /\ Len(<< >>) = 0
  OBVIOUS
<1> QED
  BY <1>1, SizeAssumption DEF StreamsTyped, Closes

LEMMA NotifiedTyped ==
  ASSUME HubTyped, NEW events \in SUBSET Events, Notified(events), UNCHANGED <<link, fan>>
  PROVE  HubTyped'
<1>1. CASE link # "up"
  BY <1>1 DEF Notified, HubTyped, Audience
<1>2. CASE link = "up"
  <2>1. PICK kept \in SUBSET events :
          /\ Cardinality(incoming) + Cardinality(kept) <= IncomingSize
          /\ incoming' = incoming \cup kept /\ dropped' = dropped \cup (events \ kept)
    BY <1>2 DEF Notified
  <2>2. IsFiniteSet(incoming) /\ IsFiniteSet(kept)
    BY FS_Subset, EventAssumption DEF HubTyped
  <2>3. Cardinality(incoming \cup kept) <= IncomingSize
    <3>1. /\ Cardinality(incoming \cup kept) =
               Cardinality(incoming) + Cardinality(kept) - Cardinality(incoming \cap kept)
          /\ IsFiniteSet(incoming \cap kept)
      BY <2>2, FS_Union, FS_Intersection
    <3>2. /\ Cardinality(incoming) \in Nat /\ Cardinality(kept) \in Nat
          /\ Cardinality(incoming \cap kept) \in Nat
      BY <2>2, <3>1, FS_CardinalityType
    <3> QED
      BY <2>1, <3>1, <3>2, SizeAssumption
  <2> QED
    BY <2>1, <2>3 DEF HubTyped, Audience
<1> QED
  BY <1>1, <1>2

LEMMA HubInductive == DeliveryInv /\ Hub => HubTyped' /\ StreamsTyped' /\ TabsTyped'
<1> SUFFICES ASSUME DeliveryInv, Hub
             PROVE  HubTyped' /\ StreamsTyped' /\ TabsTyped'
  OBVIOUS
<1> USE DEF DeliveryInv
<1>1. TabsTyped'
  BY DEF Hub, HubConnects, LinkBreaks, HubNotices, Restart, FanoutBegins, FanoutEnds,
         FanoutFails, tabVars, fetchVars, TabsTyped
<1>2. CASE HubConnects
  BY <1>1, <1>2, EnqueueTyped DEF HubConnects, HubTyped, Audience, Items
<1>3. CASE LinkBreaks \/ HubNotices \/ FanoutFails
  BY <1>1, <1>3 DEF LinkBreaks, HubNotices, FanoutFails, HubTyped, StreamsTyped, streamVars,
                    Audience
<1>4. CASE Restart
  <2>1. HubTyped'
    BY <1>4, FS_EmptySet, SizeAssumption DEF Restart, HubTyped
  <2>2. << >> \in Seq(Items) /\ Len(<< >>) = 0
    OBVIOUS
  <2>3. StreamsTyped'
    BY <1>4, <2>2, SizeAssumption DEF Restart, StreamsTyped
  <2> QED
    BY <1>1, <2>1, <2>3
<1>5. CASE FanoutBegins
  <2>1. PICK e \in incoming :
          /\ incoming' = incoming \ {e}
          /\ fan' = [event |-> e, allowed |-> {u \in Audience(e) : stream[u] = "open"}]
    BY <1>5 DEF FanoutBegins
  <2>2. Cardinality(incoming') <= IncomingSize
    <3>1. IsFiniteSet(incoming)
      BY FS_Subset, EventAssumption DEF HubTyped
    <3>2. /\ IsFiniteSet(incoming') /\ Cardinality(incoming') = Cardinality(incoming) - 1
          /\ Cardinality(incoming) \in Nat
      BY <2>1, <3>1, FS_RemoveElement, FS_CardinalityType
    <3> QED
      BY <3>2, SizeAssumption DEF HubTyped
  <2>3. HubTyped'
    BY <1>5, <2>1, <2>2 DEF FanoutBegins, HubTyped, Audience
  <2> QED
    BY <1>1, <1>5, <2>3 DEF FanoutBegins, StreamsTyped, streamVars
<1>6. CASE FanoutEnds
  <2>0. PICK e \in Events : \E us \in SUBSET Audience(e) : fan = [event |-> e, allowed |-> us]
    BY <1>6 DEF FanoutEnds, HubTyped
  <2>1. PICK us \in SUBSET Audience(e) : fan = [event |-> e, allowed |-> us]
    BY <2>0
  <2>2. e \in Items /\ us \in SUBSET Tabs /\ Enqueue(us, e)
    BY <1>6, <2>1 DEF FanoutEnds, Audience, Items
  <2>3. StreamsTyped'
    BY <1>6, <2>2, EnqueueTyped DEF FanoutEnds
  <2> QED
    BY <1>1, <1>6, <2>3 DEF FanoutEnds, HubTyped
<1> QED
  BY <1>2, <1>3, <1>4, <1>5, <1>6 DEF Hub

LEMMA StreamSendsTyped ==
  ASSUME StreamsTyped, NEW u \in Tabs, StreamSends(u)
  PROVE  StreamsTyped'
<1>1. CASE Head(queue[u]) = OVERFLOW
  BY <1>1, ClosesTyped DEF StreamSends
<1>2. CASE Head(queue[u]) # OVERFLOW
  <2>1. /\ queue' = [queue EXCEPT ![u] = Tail(queue[u])] /\ UNCHANGED <<stream, overflowed>>
        /\ stream[u] = "open" /\ queue[u] # << >>
    BY <1>2 DEF StreamSends
  <2>2. queue[u] \in Seq(Items)
    BY DEF StreamsTyped
  <2>3. Tail(queue[u]) \in Seq(Items) /\ Len(Tail(queue[u])) = Len(queue[u]) - 1
    BY <2>1, <2>2, TailLeaves
  <2>4. u \notin overflowed
    <3>1. Head(<<OVERFLOW>>) = OVERFLOW
      OBVIOUS
    <3> QED
      BY <3>1, <1>2 DEF StreamsTyped
  <2>5. Len(Tail(queue[u])) <= QueueSize
    BY <2>2, <2>3, SizeAssumption DEF StreamsTyped
  <2> QED
    BY <2>1, <2>3, <2>4, <2>5 DEF StreamsTyped
<1> QED
  BY <1>1, <1>2

LEMMA TabInductive ==
  ASSUME DeliveryInv, NEW u \in Tabs, Tab(u)
  PROVE  HubTyped' /\ StreamsTyped' /\ TabsTyped'
<1> USE DEF DeliveryInv
<1>1. HubTyped'
  BY HubAlone DEF hubVars, HubTyped, Audience
<1>2. StreamsTyped'
  <2>1. CASE Connect(u)
    BY <2>1 DEF Connect, StreamsTyped
  <2>2. CASE StreamFails(u) \/ AuthExpired(u)
    BY <2>2, ClosesTyped DEF StreamFails, AuthExpired
  <2>3. CASE StreamSends(u)
    BY <2>3, StreamSendsTyped
  <2>4. CASE UNCHANGED streamVars
    BY <2>4 DEF streamVars, StreamsTyped
  <2> QED
    BY <2>1, <2>2, <2>3, <2>4 DEF Tab, Heartbeat, Refresh, FetchReads, FetchArrives,
                                  FetchFails, Poll, SessionEnds
<1>3. TabsTyped'
  <2>0. Readable(u) \subseteq Events
    BY DEF Readable, OutboxInv, RowsTyped
  <2>1. CASE Refresh(u) \/ FetchReads(u)
    BY <2>0, <2>1 DEF Refresh, FetchReads, TabsTyped
  <2>2. CASE FetchArrives(u) \/ FetchFails(u)
    BY <2>2 DEF FetchArrives, FetchFails, TabsTyped
  <2>3. CASE UNCHANGED fetchVars
    BY <2>3 DEF Tab, Connect, StreamFails, AuthExpired, StreamSends, Heartbeat, Refresh,
                FetchReads, FetchArrives, FetchFails, Poll, SessionEnds, tabVars, fetchVars,
                TabsTyped
  <2> QED
    BY <2>1, <2>2, <2>3 DEF Tab, Connect, StreamFails, AuthExpired, StreamSends, Heartbeat,
                            Poll, SessionEnds, tabVars
<1> QED
  BY <1>1, <1>2, <1>3

LEMMA FetchesGrowInductive == DeliveryInv /\ [Next]_vars => FetchesGrow'
<1> SUFFICES ASSUME DeliveryInv, [Next]_vars
             PROVE  FetchesGrow'
  OBVIOUS
<1>1. \A u \in Tabs : Readable(u) \subseteq Readable(u)'
  <2>1. rows \subseteq rows'
    BY OutboxAlone DEF Next, Outbox, CommitChange, BackoffEnds, RetryFailed, ClaimBatch,
                       DispatchCommits, DispatchRollsBack, outboxVars, rowVars
  <2> QED
    BY <2>1 DEF Readable, Visible
<1>2. CASE UNCHANGED fetchVars
  BY <1>1, <1>2 DEF fetchVars, DeliveryInv, FetchesGrow, Underway
<1>3. ASSUME NEW v \in Tabs, Refresh(v) \/ FetchReads(v) \/ FetchArrives(v) \/ FetchFails(v)
      PROVE  FetchesGrow'
  <2> SUFFICES ASSUME NEW u \in Tabs
               PROVE  /\ view'[u] \subseteq Readable(u)' /\ brings'[u] \subseteq Readable(u)'
                      /\ Underway(u)' => view'[u] \subseteq brings'[u]
    BY DEF FetchesGrow
  <2>1. CASE u # v
    BY <1>1, <1>3, <2>1 DEF Refresh, FetchReads, FetchArrives, FetchFails, DeliveryInv,
                            TabsTyped, FetchesGrow, Underway
  <2>2. CASE u = v /\ (Refresh(v) \/ FetchReads(v))
    BY <1>1, <2>2 DEF Refresh, FetchReads, DeliveryInv, TabsTyped, FetchesGrow
  <2>3. CASE u = v /\ FetchArrives(v)
    BY <1>1, <2>3 DEF FetchArrives, DeliveryInv, TabsTyped, FetchesGrow, Underway
  <2>4. CASE u = v /\ FetchFails(v)
    BY <1>1, <2>4 DEF FetchFails, DeliveryInv, TabsTyped, FetchesGrow, Underway
  <2> QED
    BY <1>3, <2>1, <2>2, <2>3, <2>4
<1>4. CASE UNCHANGED vars \/ Outbox
  BY <1>2, <1>4, TabsAlone DEF vars, tabVars
<1>5. CASE Hub
  BY <1>2, <1>5 DEF Hub, HubConnects, LinkBreaks, HubNotices, Restart, FanoutBegins,
                    FanoutEnds, FanoutFails, tabVars
<1>6. ASSUME NEW v \in Tabs, Tab(v)
      PROVE  FetchesGrow'
  BY <1>2, <1>3, <1>6 DEF Tab, Connect, StreamFails, AuthExpired, StreamSends, Heartbeat, Poll,
                          SessionEnds, tabVars
<1> QED
  BY <1>4, <1>5, <1>6 DEF Next

LEMMA DeliveryInductive == DeliveryInv /\ [Next]_vars => DeliveryInv'
<1> SUFFICES ASSUME DeliveryInv, [Next]_vars
             PROVE  DeliveryInv'
  OBVIOUS
<1>1. OutboxInv' /\ FetchesGrow'
  BY OutboxInductive, FetchesGrowInductive DEF DeliveryInv
<1>2. CASE UNCHANGED vars
  BY <1>1, <1>2 DEF vars, hubVars, streamVars, tabVars, fetchVars, DeliveryInv, HubTyped,
                    StreamsTyped, TabsTyped, Audience
<1>3. CASE Outbox
  <2>1. StreamsTyped' /\ TabsTyped'
    BY <1>3, TabsAlone DEF DeliveryInv, StreamsTyped, TabsTyped, streamVars, tabVars,
                            fetchVars
  <2>2. HubTyped'
    <3>1. ASSUME NEW w \in Workers, DispatchCommits(w)
          PROVE  HubTyped'
      <4>1. PICK failed \in SUBSET claims[w] : Notified(claims[w] \ failed)
        BY <3>1 DEF DispatchCommits
      <4>2. claims[w] \ failed \in SUBSET Events
        BY DEF DeliveryInv, OutboxInv, RowsTyped
      <4> QED
        BY <3>1, <4>1, <4>2, NotifiedTyped DEF DispatchCommits, DeliveryInv
    <3>2. CASE UNCHANGED hubVars
      BY <3>2 DEF hubVars, DeliveryInv, HubTyped, Audience
    <3> QED
      BY <1>3, <3>1, <3>2 DEF Outbox, CommitChange, BackoffEnds, RetryFailed, ClaimBatch,
                              DispatchRollsBack
  <2> QED
    BY <1>1, <2>1, <2>2 DEF DeliveryInv
<1>4. CASE Hub
  BY <1>1, <1>4, HubInductive DEF DeliveryInv
<1>5. CASE \E u \in Tabs : Tab(u)
  BY <1>1, <1>5, TabInductive DEF DeliveryInv
<1> QED
  BY <1>2, <1>3, <1>4, <1>5 DEF Next

LEMMA DeliveryInvariant == Spec => []DeliveryInv
BY DeliveryInitially, DeliveryInductive, PTL DEF Spec

\* Queues and attempts keep their bounds, whatever their number and size.
THEOREM BoundsHold == Spec => []TypeOK
<1>1. DeliveryInv => TypeOK
  BY DEF DeliveryInv, OutboxInv, RowsTyped, HubTyped, StreamsTyped, TabsTyped, TypeOK, NoFan,
         Audience
<1> QED
  BY <1>1, DeliveryInvariant, PTL

\* The fan-out of an event reaches nobody but the audience of the event.
THEOREM OnlyTheAudience == Spec => InternalIsSilent
<1>1. ASSUME DeliveryInv, [Next]_vars, NEW u \in Tabs,
             fan # NoFan, fan' # fan, ~Visible(u, fan.event), stream'[u] = stream[u]
      PROVE  /\ UNCHANGED queue[u]
             /\ u \in overflowed' <=> u \in overflowed
             /\ u \in due' <=> u \in due
  <2>1. FanoutEnds \/ FanoutFails \/ Restart
    <3>1. Hub
      <4>1. fan' = fan \/ Hub \/ \E v \in Tabs : Tab(v)
        BY <1>1, TabsAlone DEF Next, vars, hubVars
      <4> QED
        BY <1>1, <4>1, HubAlone DEF hubVars
    <3> QED
      BY <1>1, <3>1 DEF Hub, HubConnects, LinkBreaks, HubNotices, FanoutBegins
  <2>2. CASE FanoutFails
    BY <2>2 DEF FanoutFails, streamVars, tabVars
  <2>3. CASE Restart
    <3>1. stream[u] # "open" /\ queue'[u] = << >> /\ u \notin overflowed'
      BY <1>1, <2>3 DEF Restart, DeliveryInv, StreamsTyped
    <3> QED
      BY <1>1, <2>3, <3>1 DEF Restart, tabVars, DeliveryInv, StreamsTyped
  <2>4. CASE FanoutEnds
    <3>1. u \notin fan.allowed
      BY <1>1 DEF DeliveryInv, HubTyped, Audience, Visible
    <3> QED
      BY <2>4, <3>1 DEF FanoutEnds, Enqueue, tabVars, DeliveryInv, StreamsTyped
  <2> QED
    BY <2>1, <2>2, <2>3, <2>4
<1>2. DeliveryInv /\ [Next]_vars =>
        [\A u \in Tabs : (fan # NoFan /\ fan' # fan /\ ~Visible(u, fan.event))
           => \/ stream'[u] # stream[u]
              \/ /\ UNCHANGED queue[u]
                 /\ u \in overflowed' <=> u \in overflowed
                 /\ u \in due' <=> u \in due]_vars
  BY <1>1
<1> QED
  BY <1>2, DeliveryInvariant, PTL DEF Spec, InternalIsSilent

-----------------------------------------------------------------------------
(* Nothing is lost silently.                                               *)

\* The event, or a marker that stands for it, is in the queue of the tab.
Queued(u, e) == \E i \in DOMAIN queue[u] : queue[u][i] \in {e, RESYNC, OVERFLOW}

\* What is queued stays represented, if only by the marker of an overflow.
LEMMA QueuedStays ==
  ASSUME StreamsTyped, NEW us \in SUBSET Tabs, NEW item \in Items, Enqueue(us, item),
         NEW u \in Tabs, NEW e \in Events, Queued(u, e)
  PROVE  Queued(u, e)'
<1>1. PICK i \in DOMAIN queue[u] : queue[u][i] \in {e, RESYNC, OVERFLOW}
  BY DEF Queued
<1>2. queue[u] \in Seq(Items)
  BY DEF StreamsTyped
<1>3. CASE queue'[u] = queue[u]
  BY <1>1, <1>3 DEF Queued
<1>4. CASE queue'[u] = <<OVERFLOW>>
  BY <1>4 DEF Queued
<1>5. CASE queue'[u] = Append(queue[u], item)
  BY <1>1, <1>2, <1>5, AppendKeeps DEF Queued
<1> QED
  BY <1>3, <1>4, <1>5 DEF Enqueue, Enqueued

LEMMA EnqueueQueues ==
  ASSUME StreamsTyped, NEW us \in SUBSET Tabs, NEW item \in Items, Enqueue(us, item),
         NEW u \in us, NEW e \in Events, stream[u] = "open", item \in {e, RESYNC}
  PROVE  Queued(u, e)'
<1>1. queue[u] \in Seq(Items)
  BY DEF StreamsTyped
<1>2. CASE queue'[u] = <<OVERFLOW>>
  BY <1>2 DEF Queued
<1>3. CASE queue'[u] = Append(queue[u], item)
  BY <1>1, <1>3, AppendKeeps DEF Queued
<1> QED
  BY <1>2, <1>3 DEF Enqueue, Enqueued, StreamsTyped

\* An item that is sent makes the tab refresh, unless it is of another event.
LEMMA SendingStays ==
  ASSUME StreamsTyped, NEW u \in Tabs, NEW e \in Events, Visible(u, e), Queued(u, e),
         StreamSends(u)
  PROVE  u \in due' \/ Queued(u, e)'
<1>1. PICK i \in DOMAIN queue[u] : queue[u][i] \in {e, RESYNC, OVERFLOW}
  BY DEF Queued
<1>2. CASE Head(queue[u]) \in {e, RESYNC, OVERFLOW}
  BY <1>2 DEF StreamSends
<1>3. CASE Head(queue[u]) \notin {e, RESYNC, OVERFLOW}
  <2>1. queue[u] \in Seq(Items) /\ queue[u] # << >>
    BY DEF StreamsTyped, StreamSends
  <2>2. PICK j \in DOMAIN Tail(queue[u]) : Tail(queue[u])[j] = queue[u][i]
    BY <1>1, <1>3, <2>1, TailLeaves
  <2>3. queue'[u] = Tail(queue[u])
    BY <1>3 DEF StreamSends, StreamsTyped
  <2> QED
    BY <1>1, <2>2, <2>3 DEF Queued
<1> QED
  BY <1>2, <1>3

\* A change that a tab lacks, and the step after which it still lacks it: either the
\* step commits the change, or the tab lacked it before.
Lacks(u, e) == u \in signedIn /\ e \in rows \ dropped /\ Visible(u, e) /\ e \notin view[u]

LEMMA LackedBefore ==
  ASSUME DeliveryInv, [Next]_vars, NEW u \in Tabs, NEW e \in Events, Lacks(u, e)'
  PROVE  Lacks(u, e) \/ CommitChange(e)
<1> USE DEF Lacks, Visible
<1>1. CASE UNCHANGED vars
  BY <1>1 DEF vars, outboxVars, rowVars, hubVars, tabVars, fetchVars
<1>2. CASE Outbox
  <2>1. u \in signedIn /\ e \notin view[u]
    BY <1>2, TabsAlone DEF tabVars, fetchVars
  <2>2. e \notin dropped
    BY <1>2 DEF Outbox, CommitChange, BackoffEnds, RetryFailed, ClaimBatch, DispatchCommits,
                DispatchRollsBack, Notified, hubVars
  <2>3. e \in rows \/ CommitChange(e)
    BY <1>2 DEF Outbox, CommitChange, BackoffEnds, RetryFailed, ClaimBatch, DispatchCommits,
                DispatchRollsBack, rowVars
  <2> QED
    BY <2>1, <2>2, <2>3
<1>3. CASE Hub
  BY <1>3 DEF Hub, HubConnects, LinkBreaks, HubNotices, Restart, FanoutBegins, FanoutEnds,
              FanoutFails, outboxVars, rowVars, tabVars, fetchVars
<1>4. ASSUME NEW v \in Tabs, Tab(v)
      PROVE  Lacks(u, e)
  <2>1. e \in rows \ dropped
    BY <1>4, HubAlone DEF outboxVars, rowVars, hubVars
  <2>2. u \in signedIn
    BY <1>4 DEF Tab, Connect, StreamFails, AuthExpired, StreamSends, Heartbeat, Refresh,
                FetchReads, FetchArrives, FetchFails, Poll, SessionEnds, tabVars
  <2>3. view[u] \subseteq view'[u]
    <3>1. CASE FetchArrives(v)
      BY <3>1 DEF FetchArrives, DeliveryInv, TabsTyped, FetchesGrow, Underway
    <3>2. CASE UNCHANGED view
      BY <3>2
    <3> QED
      BY <1>4, <3>1, <3>2 DEF Tab, Connect, StreamFails, AuthExpired, StreamSends, Heartbeat,
                Refresh, FetchReads, FetchFails, Poll, SessionEnds, tabVars, fetchVars
  <2> QED
    BY <2>1, <2>2, <2>3
<1> QED
  BY <1>1, <1>2, <1>3, <1>4 DEF Next

LEMMA OutboxPassesOn ==
  ASSUME DeliveryInv, Outbox, NEW u \in Tabs, NEW e \in Events, e \in rows, e \notin dropped',
         OnItsWay(u, e)
  PROVE  OnItsWay(u, e)'
<1>0. UNCHANGED <<due, fetch, brings, stream, queue, fan, link>>
  BY TabsAlone DEF streamVars, tabVars, fetchVars
<1>1. CASE e \notin Pending /\ e \notin incoming
  BY <1>0, <1>1 DEF OnItsWay
<1>2. e \in incoming => e \in incoming'
  BY DEF Outbox, CommitChange, BackoffEnds, RetryFailed, ClaimBatch, DispatchCommits,
         DispatchRollsBack, Notified, hubVars
<1>3. ASSUME e \in Pending
      PROVE  e \in Pending' \/ e \in incoming' \/ link' # "up"
  <2>1. ASSUME NEW w \in Workers, DispatchCommits(w)
        PROVE  e \in Pending' \/ e \in incoming' \/ link' # "up"
    <3>1. PICK failed \in SUBSET claims[w] :
            delivered' = delivered \cup (claims[w] \ failed) /\ Notified(claims[w] \ failed)
      BY <2>1 DEF DispatchCommits
    <3>2. rows' = rows /\ link' = link
      BY <2>1 DEF DispatchCommits
    <3>3. CASE e \notin claims[w] \ failed
      BY <1>3, <3>1, <3>2, <3>3 DEF Pending
    <3>4. CASE e \in claims[w] \ failed
      BY <3>1, <3>2, <3>4 DEF Notified
    <3> QED
      BY <3>3, <3>4
  <2>2. CASE UNCHANGED delivered /\ rows \subseteq rows'
    BY <1>3, <2>2 DEF Pending
  <2> QED
    BY <2>1, <2>2 DEF Outbox, CommitChange, BackoffEnds, RetryFailed, ClaimBatch,
                      DispatchRollsBack, rowVars
<1> QED
  BY <1>0, <1>1, <1>2, <1>3 DEF OnItsWay

LEMMA HubPassesOn ==
  ASSUME DeliveryInv, Hub, NEW u \in Tabs, NEW e \in Events, Visible(u, e), OnItsWay(u, e)
  PROVE  OnItsWay(u, e)'
<1> USE DEF DeliveryInv
<1>0. UNCHANGED <<due, fetch, brings, rows, delivered>>
  BY DEF Hub, HubConnects, LinkBreaks, HubNotices, Restart, FanoutBegins, FanoutEnds,
         FanoutFails, tabVars, fetchVars, outboxVars, rowVars
<1>1. CASE HubConnects
  <2>1. Enqueue(Tabs, RESYNC) /\ UNCHANGED stream /\ RESYNC \in Items
    BY <1>1 DEF HubConnects, Items
  <2>2. stream[u] = "open" => Queued(u, e)'
    BY <2>1, EnqueueQueues
  <2> QED
    BY <1>0, <2>1, <2>2 DEF OnItsWay, Queued
<1>2. CASE LinkBreaks \/ HubNotices \/ FanoutFails \/ Restart
  BY <1>2 DEF LinkBreaks, HubNotices, FanoutFails, Restart, OnItsWay
<1>3. CASE FanoutBegins
  <2>1. PICK f \in incoming :
          /\ incoming' = incoming \ {f}
          /\ fan' = [event |-> f, allowed |-> {v \in Audience(f) : stream[v] = "open"}]
    BY <1>3 DEF FanoutBegins
  <2>2. UNCHANGED <<stream, queue, link>> /\ fan.event # e
    BY <1>3, EventAssumption DEF FanoutBegins, streamVars, NoFan
  <2>3. e = f /\ stream[u] = "open" => fan'.event = e /\ u \in fan'.allowed
    BY <2>1 DEF Audience, Visible
  <2> QED
    BY <1>0, <2>1, <2>2, <2>3 DEF OnItsWay, Pending
<1>4. CASE FanoutEnds
  <2>0. PICK f \in Events : \E us \in SUBSET Audience(f) : fan = [event |-> f, allowed |-> us]
    BY <1>4 DEF FanoutEnds, HubTyped
  <2>1. PICK us \in SUBSET Audience(f) : fan = [event |-> f, allowed |-> us]
    BY <2>0
  <2>2. us \in SUBSET Tabs /\ f \in Items /\ Enqueue(us, f) /\ UNCHANGED <<stream, incoming, link>>
    BY <1>4, <2>1 DEF FanoutEnds, Audience, Items
  <2>3. Queued(u, e) => Queued(u, e)'
    BY <2>2, QueuedStays
  <2>4. f = e /\ u \in us /\ stream[u] = "open" => Queued(u, e)'
    BY <2>2, EnqueueQueues
  <2> QED
    BY <1>0, <2>1, <2>2, <2>3, <2>4 DEF OnItsWay, Queued, Pending
<1> QED
  BY <1>1, <1>2, <1>3, <1>4 DEF Hub

\* Another tab's steps touch neither its stream nor its fetch.
LEMMA OtherTabs ==
  ASSUME DeliveryInv, NEW v \in Tabs, Tab(v), NEW u \in Tabs, v # u
  PROVE  /\ u \in due' <=> u \in due
         /\ UNCHANGED <<stream[u], queue[u], fetch[u], brings[u]>>
BY DEF Tab, Connect, StreamFails, AuthExpired, StreamSends, Heartbeat, Refresh, FetchReads,
       FetchArrives, FetchFails, Poll, SessionEnds, Closes, streamVars, tabVars, fetchVars,
       DeliveryInv, StreamsTyped, TabsTyped

\* What is on its way, or was lost to a failed fetch, stays so.
Found(u, e) == OnItsWay(u, e) \/ LostToFailure(u, e)

LEMMA TabPassesOn ==
  ASSUME DeliveryInv, NEW v \in Tabs, Tab(v), NEW u \in Tabs, NEW e \in Events,
         Lacks(u, e), Lacks(u, e)', Found(u, e)
  PROVE  Found(u, e)'
<1> USE DEF DeliveryInv, Found
<1>0. UNCHANGED <<rows, delivered, incoming, fan, link>>
  BY HubAlone DEF outboxVars, rowVars, hubVars
<1>1. CASE v # u
  BY <1>0, <1>1, OtherTabs DEF OnItsWay, LostToFailure, Pending
<1>2. CASE v = u
  <2>1. CASE Connect(u) \/ Heartbeat(u) \/ Poll(u)
    BY <2>1 DEF Connect, Heartbeat, Poll, OnItsWay
  <2>2. CASE StreamFails(u) \/ AuthExpired(u)
    BY <2>2 DEF StreamFails, AuthExpired, Closes, StreamsTyped, OnItsWay
  <2>3. CASE StreamSends(u)
    <3>1. Queued(u, e) => u \in due' \/ Queued(u, e)'
      BY <2>3, SendingStays DEF Lacks
    <3>2. stream[u] = "open" /\ due \subseteq due' /\ UNCHANGED <<fetch, brings>>
      BY <2>3 DEF StreamSends, fetchVars
    <3> QED
      BY <1>0, <3>1, <3>2 DEF OnItsWay, LostToFailure, Queued, Pending
  <2>4. CASE Refresh(u) \/ FetchReads(u)
    <3>1. e \in Readable(u)
      BY DEF Lacks, Readable
    <3> QED
      BY <2>4, <3>1 DEF Refresh, FetchReads, TabsTyped, OnItsWay
  <2>5. CASE FetchArrives(u)
    <3>1. e \notin brings[u]
      BY <2>5 DEF FetchArrives, Lacks, TabsTyped
    <3>2. UNCHANGED <<due, stream, queue>>
      BY <2>5 DEF FetchArrives, streamVars
    <3> QED
      BY <1>0, <3>1, <3>2 DEF OnItsWay, LostToFailure, Pending
  <2>6. CASE FetchFails(u)
    <3>1. UNCHANGED <<due, stream, queue>>
      BY <2>6 DEF FetchFails, streamVars
    <3>2. e \in brings[u] => LostToFailure(u, e)'
      BY <2>6 DEF FetchFails, LostToFailure, TabsTyped
    <3> QED
      BY <1>0, <3>1, <3>2 DEF OnItsWay, LostToFailure, Pending
  <2>7. CASE SessionEnds(u)
    BY <2>7 DEF SessionEnds, Lacks
  <2> QED
    BY <1>2, <2>1, <2>2, <2>3, <2>4, <2>5, <2>6, <2>7 DEF Tab
<1> QED
  BY <1>1, <1>2

\* A change that a signed-in tab may see and does not show is in the outbox, in the hub,
\* in the queue of its stream or in its fetch, or the tab is about to reconcile: for any
\* number of workers, tabs and failures, unless a full incoming queue refused it or the
\* tab's last fetch, which would have brought it, failed.
THEOREM EveryStepPassesItOn == Spec => []NothingIsLostSilently
<1>1. Init => NothingIsLostSilently
  BY DEF Init, NothingIsLostSilently
<1>2. ASSUME DeliveryInv, DeliveryInv', NothingIsLostSilently, [Next]_vars
      PROVE  NothingIsLostSilently'
  <2> SUFFICES ASSUME NEW u \in Tabs, NEW e \in Events, Lacks(u, e)'
               PROVE  Found(u, e)'
    BY <1>2 DEF NothingIsLostSilently, Lacks, Found, DeliveryInv, TabsTyped, OutboxInv,
                RowsTyped, Visible
  <2>1. CASE CommitChange(e)
    BY <1>2, <2>1 DEF CommitChange, Found, OnItsWay, Pending, DeliveryInv, OutboxInv, RowsTyped
  <2>2. CASE Lacks(u, e)
    <3>1. Found(u, e) /\ Visible(u, e) /\ e \in rows
      BY <1>2, <2>2 DEF NothingIsLostSilently, Lacks, Found
    <3>2. CASE UNCHANGED vars
      BY <3>1, <3>2 DEF vars, outboxVars, rowVars, hubVars, streamVars, tabVars, fetchVars,
                        Found, OnItsWay, LostToFailure, Pending
    <3>3. CASE Outbox
      <4>1. LostToFailure(u, e) => LostToFailure(u, e)'
        BY <3>3, TabsAlone DEF LostToFailure, tabVars, fetchVars
      <4> QED
        BY <1>2, <3>1, <3>3, <4>1, OutboxPassesOn DEF Lacks, Found
    <3>4. CASE Hub
      <4>1. LostToFailure(u, e) => LostToFailure(u, e)'
        BY <3>4 DEF Hub, HubConnects, LinkBreaks, HubNotices, Restart, FanoutBegins,
                    FanoutEnds, FanoutFails, LostToFailure, tabVars, fetchVars
      <4> QED
        BY <1>2, <3>1, <3>4, <4>1, HubPassesOn DEF Found
    <3>5. CASE \E v \in Tabs : Tab(v)
      BY <1>2, <2>2, <3>1, <3>5, TabPassesOn
    <3> QED
      BY <1>2, <3>2, <3>3, <3>4, <3>5 DEF Next
  <2> QED
    BY <1>2, <2>1, <2>2, LackedBefore
<1> QED
  BY <1>1, <1>2, DeliveryInvariant, PTL DEF Spec
=============================================================================
