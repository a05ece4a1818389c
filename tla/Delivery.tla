------------------------------ MODULE Delivery ------------------------------
(***************************************************************************)
(* How a committed change reaches the browsers: the outbox worker turns    *)
(* rows into NOTIFY, one API process listens, filters and queues, a stream *)
(* per tab sends invalidations, and the tab then fetches what it may see.  *)
(*                                                                         *)
(* An event is an outbox row, known by its id; whom it concerns is fixed   *)
(* by the constants.  What a tab shows is the set of events whose change   *)
(* its last successful fetch has read; the requests of one refresh count   *)
(* as one fetch, which fails when one of them does.  A NOTIFY arrives in   *)
(* the step that commits it: a later arrival is a later commit as far as   *)
(* anybody can tell.                                                       *)
(***************************************************************************)
EXTENDS Naturals, Sequences, FiniteSets

CONSTANTS
  Events,         \* outbox rows that may be written
  PublicEvents,   \* the ones with visibility PUBLIC
  CustomerOf,     \* the customer of each event's ticket
  Tabs,           \* browser tabs, each of a user of its own
  Staff,          \* the users that are agents or administrators
  Workers,        \* outbox workers
  MaxAttempts,    \* MAX_ATTEMPTS
  Limit,          \* rows that a dispatch claims
  IncomingSize,   \* maxsize of EventHub.incoming
  QueueSize       \* sse_queue_size

VARIABLES
  rows,        \* outbox_events that are committed
  delivered,   \* the ones with a delivered_at
  deferred,    \* the ones whose available_at is still to come
  attempts,    \* their attempts
  claims,      \* the rows that each worker's open transaction holds
  sent,        \* history: how often each event was notified
  link,        \* the listener's connection: down, up, or broken and not yet noticed
  incoming,    \* EventHub.incoming
  dropped,     \* history: wake-ups that a full incoming queue refused
  fan,         \* the fan-out under way: its event and the users allowed
  stream,      \* the event stream of each tab: off, open, or ended by auth.expired
  queue,       \* Subscriber.queue
  overflowed,  \* the tabs whose Subscriber.overflowed is set
  signedIn,    \* the tabs whose session is good
  due,         \* the tabs with a refresh pending
  fetch,       \* the tab's last fetch: asked, answered, failed, or idle once it is shown
  brings,      \* the changes that this fetch brings, or would have brought
  view         \* what the tab shows

rowVars == <<rows, delivered, deferred, attempts>>
outboxVars == <<rowVars, claims, sent>>
hubVars == <<link, incoming, dropped, fan>>
streamVars == <<stream, queue, overflowed>>
fetchVars == <<fetch, brings, view>>
tabVars == <<signedIn, due, fetchVars>>
vars == <<outboxVars, hubVars, streamVars, tabVars>>

RESYNC == "resync"
OVERFLOW == "overflow"
NoFan == [event |-> RESYNC, allowed |-> {}]

ASSUME EventAssumption ==
  /\ IsFiniteSet(Events) /\ PublicEvents \subseteq Events
  /\ RESYNC \notin Events /\ OVERFLOW \notin Events
  /\ \A e \in Events : CustomerOf[e] \notin Staff
ASSUME SizeAssumption ==
  /\ MaxAttempts \in Nat \ {0} /\ Limit \in Nat \ {0}
  /\ IncomingSize \in Nat \ {0} /\ QueueSize \in Nat \ {0}

Pending == rows \ delivered
Listening == link # "down"

\* What a REST fetch shows a user, and what authorized_event lets through.
Visible(u, e) == u \in Staff \/ (e \in PublicEvents /\ CustomerOf[e] = u)

Init ==
  /\ rows = {} /\ delivered = {} /\ deferred = {} /\ attempts = [e \in Events |-> 0]
  /\ claims = [w \in Workers |-> {}] /\ sent = [e \in Events |-> 0]
  /\ link = "down" /\ incoming = {} /\ dropped = {} /\ fan = NoFan
  /\ stream = [u \in Tabs |-> "off"] /\ queue = [u \in Tabs |-> << >>]
  /\ overflowed = {} /\ signedIn = Tabs /\ due = {}
  /\ fetch = [u \in Tabs |-> "idle"] /\ brings = [u \in Tabs |-> {}]
  /\ view = [u \in Tabs |-> {}]

-----------------------------------------------------------------------------
(* The outbox and its worker.                                              *)

\* A handler commits a change together with its outbox row.
CommitChange(e) ==
  /\ e \notin rows
  /\ rows' = rows \cup {e}
  /\ UNCHANGED <<delivered, deferred, attempts, claims, sent, hubVars, streamVars, tabVars>>

\* Without SKIP LOCKED, a row that another worker holds is claimed too.
Claimable_Locked ==
  {e \in Pending \ deferred : attempts[e] < MaxAttempts}

Claimed == UNION {claims[w] : w \in Workers}
Claimable ==
  {e \in Pending \ deferred : attempts[e] < MaxAttempts} \ Claimed

\* dispatch_batch reads its rows FOR UPDATE SKIP LOCKED: all there are, or the limit.
ClaimBatch(w) ==
  /\ claims[w] = {}
  /\ \E batch \in SUBSET Claimable :
       /\ batch # {} /\ Cardinality(batch) <= Limit
       /\ Cardinality(batch) < Limit => batch = Claimable
       /\ claims' = [claims EXCEPT ![w] = batch]
  /\ UNCHANGED <<rowVars, sent, hubVars, streamVars, tabVars>>

\* The listener's callback: a full queue refuses the wake-up.
Notified(events) ==
  IF link # "up" THEN UNCHANGED <<incoming, dropped>>
  ELSE \E kept \in SUBSET events :
         /\ Cardinality(incoming) + Cardinality(kept) <= IncomingSize
         /\ kept # events => Cardinality(incoming) + Cardinality(kept) = IncomingSize
         /\ incoming' = incoming \cup kept
         /\ dropped' = dropped \cup (events \ kept)

\* The commit of the batch writes the rows and releases the NOTIFYs; a savepoint
\* keeps the failure of some from undoing the others.
DispatchCommits(w) ==
  /\ claims[w] # {}
  /\ \E failed \in SUBSET claims[w] :
       LET published == claims[w] \ failed
       IN  /\ delivered' = delivered \cup published
           /\ deferred' = deferred \cup failed
           /\ sent' = [e \in Events |-> IF e \in published THEN sent[e] + 1 ELSE sent[e]]
           /\ Notified(published)
  /\ attempts' = [e \in Events |-> IF e \in claims[w] THEN attempts[e] + 1 ELSE attempts[e]]
  /\ claims' = [claims EXCEPT ![w] = {}]
  /\ UNCHANGED <<rows, link, fan, streamVars, tabVars>>

\* A crash or a database error: neither marks nor NOTIFY.
DispatchRollsBack(w) ==
  /\ claims[w] # {}
  /\ claims' = [claims EXCEPT ![w] = {}]
  /\ UNCHANGED <<rowVars, sent, hubVars, streamVars, tabVars>>

\* available_at of a failed row passes.
BackoffEnds(e) ==
  /\ e \in deferred
  /\ deferred' = deferred \ {e}
  /\ UNCHANGED <<rows, delivered, attempts, claims, sent, hubVars, streamVars, tabVars>>

\* An operator revives an exhausted row.
RetryFailed(e) ==
  /\ e \in Pending /\ attempts[e] >= MaxAttempts
  /\ attempts' = [attempts EXCEPT ![e] = 0]
  /\ deferred' = deferred \ {e}
  /\ UNCHANGED <<rows, delivered, claims, sent, hubVars, streamVars, tabVars>>

-----------------------------------------------------------------------------
(* The hub of the API process.                                             *)

\* Without the bound: the queue of a slow reader grows.
Enqueued_Unbounded(u, item) == IF u \in overflowed THEN queue[u] ELSE Append(queue[u], item)

\* A queue that is full is replaced by the one marker that closes the stream.
Enqueued(u, item) ==
  IF u \in overflowed THEN queue[u]
  ELSE IF Len(queue[u]) = QueueSize THEN <<OVERFLOW>> ELSE Append(queue[u], item)

Enqueue(us, item) ==
  LET targets == {u \in us : stream[u] = "open"}
  IN  /\ queue' = [u \in Tabs |-> IF u \in targets THEN Enqueued(u, item) ELSE queue[u]]
      /\ overflowed' = overflowed \cup {u \in targets : Len(queue[u]) = QueueSize}

\* LISTEN is established: everybody has to reconcile.
HubConnects ==
  /\ link = "down"
  /\ link' = "up"
  /\ Enqueue(Tabs, RESYNC)
  /\ UNCHANGED <<outboxVars, incoming, dropped, fan, stream, tabVars>>

LinkBreaks ==
  /\ link = "up"
  /\ link' = "broken"
  /\ UNCHANGED <<outboxVars, incoming, dropped, fan, streamVars, tabVars>>

\* The probe of the idle loop, or is_closed(), finds out.
HubNotices ==
  /\ link = "broken" /\ fan = NoFan
  /\ link' = "down"
  /\ UNCHANGED <<outboxVars, incoming, dropped, fan, streamVars, tabVars>>

\* The visibility of the event left out.
Audience_AnyVisibility(e) == {u \in Tabs : u \in Staff \/ CustomerOf[e] = u}

\* Users that may learn of an event.
Audience(e) == {u \in Tabs : u \in Staff \/ (e \in PublicEvents /\ CustomerOf[e] = u)}

\* A wake-up is taken; who of the present subscribers may learn of it is asked.
FanoutBegins ==
  /\ Listening /\ fan = NoFan
  /\ \E e \in incoming :
       /\ incoming' = incoming \ {e}
       /\ fan' = [event |-> e, allowed |-> {u \in Audience(e) : stream[u] = "open"}]
  /\ UNCHANGED <<outboxVars, link, dropped, streamVars, tabVars>>

\* The subscribers of by now get it, as far as their users were allowed.
FanoutEnds ==
  /\ fan # NoFan
  /\ Enqueue(fan.allowed, fan.event)
  /\ fan' = NoFan
  /\ UNCHANGED <<outboxVars, link, incoming, dropped, stream, tabVars>>

\* The query fails or times out: the wake-up is gone and the loop reconnects.
FanoutFails ==
  /\ fan # NoFan
  /\ fan' = NoFan /\ link' = "down"
  /\ UNCHANGED <<outboxVars, incoming, dropped, streamVars, tabVars>>

\* The process is restarted: hub, queues and streams are new.
Restart ==
  /\ link' = "down" /\ incoming' = {} /\ fan' = NoFan
  /\ stream' = [u \in Tabs |-> IF stream[u] = "open" THEN "off" ELSE stream[u]]
  /\ queue' = [u \in Tabs |-> << >>] /\ overflowed' = {}
  /\ UNCHANGED <<outboxVars, dropped, tabVars>>
-----------------------------------------------------------------------------
(* The stream of a tab.                                                    *)

\* The subscription comes before the first resync.required.
Connect(u) ==
  /\ stream[u] = "off" /\ u \in signedIn /\ Listening
  /\ stream' = [stream EXCEPT ![u] = "open"]
  /\ due' = due \cup {u}
  /\ UNCHANGED <<outboxVars, hubVars, queue, overflowed, signedIn, fetchVars>>

Closes(u, how) ==
  /\ stream' = [stream EXCEPT ![u] = how]
  /\ queue' = [queue EXCEPT ![u] = << >>]
  /\ overflowed' = overflowed \ {u}

\* The tab disconnects, reads too slowly, or a query of the stream fails.
StreamFails(u) ==
  /\ stream[u] = "open"
  /\ Closes(u, "off")
  /\ UNCHANGED <<outboxVars, hubVars, tabVars>>

\* Every item and every heartbeat looks at the session again.
AuthExpired(u) ==
  /\ stream[u] = "open" /\ u \notin signedIn
  /\ Closes(u, "ended")
  /\ UNCHANGED <<outboxVars, hubVars, tabVars>>

\* One item of the queue becomes frames; after an overflow the stream closes.
StreamSends(u) ==
  /\ stream[u] = "open" /\ u \in signedIn /\ queue[u] # << >>
  /\ LET item == Head(queue[u])
     IN  /\ due' = IF item \in {RESYNC, OVERFLOW} \/ Visible(u, item) THEN due \cup {u} ELSE due
         /\ IF item = OVERFLOW
            THEN Closes(u, "off")
            ELSE /\ queue' = [queue EXCEPT ![u] = Tail(@)]
                 /\ UNCHANGED <<stream, overflowed>>
  /\ UNCHANGED <<outboxVars, hubVars, signedIn, fetchVars>>

\* A heartbeat that is only a comment line.
Heartbeat_Comment(u) ==
  /\ stream[u] = "open" /\ u \in signedIn
  /\ UNCHANGED vars

\* The deadline of sse_heartbeat_seconds: the tab reconciles.
Heartbeat(u) ==
  /\ stream[u] = "open" /\ u \in signedIn
  /\ due' = due \cup {u}
  /\ UNCHANGED <<outboxVars, hubVars, streamVars, signedIn, fetchVars>>

-----------------------------------------------------------------------------
(* The tab.                                                                *)

\* What a fetch that reads now brings.
Readable(u) == {e \in rows : Visible(u, e)}

\* A timer that leaves a fetch alone that is under way.
Refresh_KeepsFetch(u) ==
  /\ u \in due \cap signedIn
  /\ due' = due \ {u}
  /\ IF fetch[u] \in {"asked", "answered"}
     THEN UNCHANGED <<fetch, brings>>
     ELSE /\ fetch' = [fetch EXCEPT ![u] = "asked"]
          /\ brings' = [brings EXCEPT ![u] = Readable(u)]
  /\ UNCHANGED <<outboxVars, hubVars, streamVars, signedIn, view>>

\* The timer of useLiveUpdates fires: the new revision aborts the fetch that is under
\* way and asks again.  What is committed by now is the least that this one brings.
Refresh(u) ==
  /\ u \in due \cap signedIn
  /\ due' = due \ {u}
  /\ fetch' = [fetch EXCEPT ![u] = "asked"]
  /\ brings' = [brings EXCEPT ![u] = Readable(u)]
  /\ UNCHANGED <<outboxVars, hubVars, streamVars, signedIn, view>>

\* The API reads what is committed.
FetchReads(u) ==
  /\ fetch[u] = "asked" /\ u \in signedIn
  /\ fetch' = [fetch EXCEPT ![u] = "answered"]
  /\ brings' = [brings EXCEPT ![u] = Readable(u)]
  /\ UNCHANGED <<outboxVars, hubVars, streamVars, signedIn, due, view>>

\* The answer arrives and is shown.
FetchArrives(u) ==
  /\ fetch[u] = "answered"
  /\ view' = [view EXCEPT ![u] = brings[u]]
  /\ fetch' = [fetch EXCEPT ![u] = "idle"]
  /\ brings' = [brings EXCEPT ![u] = {}]
  /\ UNCHANGED <<outboxVars, hubVars, streamVars, signedIn, due>>

\* The request or its answer is lost, or the API fails: the views keep what they show,
\* and nothing asks again.
FetchFails(u) ==
  /\ fetch[u] \in {"asked", "answered"}
  /\ fetch' = [fetch EXCEPT ![u] = "failed"]
  /\ UNCHANGED <<outboxVars, hubVars, streamVars, signedIn, due, brings, view>>

\* The tab gets the focus, is online again, or polls.
Poll(u) ==
  /\ u \in signedIn \ due
  /\ due' = due \cup {u}
  /\ UNCHANGED <<outboxVars, hubVars, streamVars, signedIn, fetchVars>>

\* The session expires or is revoked.
SessionEnds(u) ==
  /\ u \in signedIn
  /\ signedIn' = signedIn \ {u}
  /\ UNCHANGED <<outboxVars, hubVars, streamVars, due, fetchVars>>

-----------------------------------------------------------------------------
Outbox ==
  \/ \E e \in Events : CommitChange(e) \/ BackoffEnds(e) \/ RetryFailed(e)
  \/ \E w \in Workers : ClaimBatch(w) \/ DispatchCommits(w) \/ DispatchRollsBack(w)
Hub ==
  \/ HubConnects \/ LinkBreaks \/ HubNotices \/ Restart
  \/ FanoutBegins \/ FanoutEnds \/ FanoutFails
Tab(u) ==
  \/ Connect(u) \/ StreamFails(u) \/ AuthExpired(u) \/ StreamSends(u) \/ Heartbeat(u)
  \/ Refresh(u) \/ FetchReads(u) \/ FetchArrives(u) \/ FetchFails(u)
  \/ Poll(u) \/ SessionEnds(u)

Next == Outbox \/ Hub \/ \E u \in Tabs : Tab(u)

Spec == Init /\ [][Next]_vars

\* The listener keeps reconnecting, streams beat, tabs reconnect and refresh.  Nothing
\* is asked of the worker, the fan-out, or the poll of a tab (browsers stop the timers
\* of hidden tabs).  A tab gets through between two failures of the listener, and of
\* the fetches that it keeps starting some are neither aborted by the next nor fail.
Fairness ==
  /\ WF_vars(HubConnects)
  /\ \A u \in Tabs :
       /\ SF_vars(Connect(u)) /\ WF_vars(Heartbeat(u)) /\ WF_vars(Refresh(u))
       /\ SF_vars(FetchReads(u)) /\ SF_vars(FetchArrives(u))

FairSpec == Spec /\ Fairness

-----------------------------------------------------------------------------
(* Properties.                                                             *)

Items == Events \cup {RESYNC, OVERFLOW}

\* Attempts, wake-ups and stream queues keep their bounds (outbox.py:20,
\* realtime.py:47, 81-85), and an overflowed queue holds its marker alone.
TypeOK ==
  /\ rows \subseteq Events /\ delivered \subseteq rows /\ deferred \subseteq Pending
  /\ attempts \in [Events -> 0..MaxAttempts] /\ claims \in [Workers -> SUBSET Events]
  /\ sent \in [Events -> Nat]
  /\ link \in {"down", "up", "broken"} /\ dropped \subseteq Events
  /\ incoming \subseteq Events /\ Cardinality(incoming) <= IncomingSize
  /\ fan \in [event: Events, allowed: SUBSET Tabs] \cup {NoFan}
  /\ stream \in [Tabs -> {"off", "open", "ended"}]
  /\ \A u \in Tabs : /\ queue[u] \in Seq(Items) /\ Len(queue[u]) <= QueueSize
                     /\ u \in overflowed => queue[u] = <<OVERFLOW>>
  /\ overflowed \subseteq Tabs /\ signedIn \subseteq Tabs /\ due \subseteq Tabs
  /\ fetch \in [Tabs -> {"idle", "asked", "answered", "failed"}]
  /\ brings \in [Tabs -> SUBSET Events] /\ view \in [Tabs -> SUBSET Events]

\* An event is notified once when it is marked as delivered and never otherwise,
\* whatever workers, crashes, back-offs and revivals come together (outbox.py:63-66:
\* marker and NOTIFY commit or roll back together).
NotifiedOnce ==
  \A e \in Events : sent[e] = IF e \in delivered THEN 1 ELSE 0

\* A change that a signed-in tab does not show is on its way to it: the tab has a
\* refresh pending, a fetch under way that brings it, or no stream and will reconcile
\* when it gets one, or it has the event or a marker in its queue; or the wake-up is in
\* the hub, the hub has lost its connection and will reconcile, or the row waits for
\* the worker.  There are two ways to lose one without a trace, and both are left to
\* the heartbeat and the poll: a full incoming queue (realtime.py:98-99), and a fetch
\* that would have brought it, was the tab's last and failed (TicketDetail.tsx:413,
\* 424 and 430 swallow the error).
OnItsWay(u, e) ==
  \/ u \in due \/ (fetch[u] \in {"asked", "answered"} /\ e \in brings[u]) \/ stream[u] # "open"
  \/ \E i \in DOMAIN queue[u] : queue[u][i] \in {e, RESYNC, OVERFLOW}
  \/ e \in Pending \/ e \in incoming \/ (fan.event = e /\ u \in fan.allowed) \/ link # "up"
LostToFailure(u, e) == fetch[u] = "failed" /\ e \in brings[u]
NothingIsLostSilently ==
  \A u \in signedIn : \A e \in rows \ dropped :
    Visible(u, e) /\ e \notin view[u] => OnItsWay(u, e) \/ LostToFailure(u, e)

\* What a user may not see leaves no trace with that user, not even by filling the
\* queue: the fan-out of such an event touches neither queue nor stream (ADR 0003:
\* internal events never invalidate customer views).
InternalIsSilent ==
  [][\A u \in Tabs : (fan # NoFan /\ fan' # fan /\ ~Visible(u, fan.event))
       => \/ stream'[u] # stream[u]
          \/ /\ UNCHANGED queue[u]
             /\ u \in overflowed' <=> u \in overflowed
             /\ u \in due' <=> u \in due]_vars

\* Every committed change is seen by every signed-in tab that may see it, also after
\* overload, crashes, lost notifications, failed fetches and an outbox that has given up.
ViewsCatchUp ==
  \A u \in Tabs : \A e \in Events :
    (e \in rows /\ Visible(u, e)) ~> (e \in view[u] \/ u \notin signedIn)
=============================================================================
