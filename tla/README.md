# Formal model of the BADI eSIM support ticketing system

TLA+ specifications of the ticketing backend (`src/backend/app`), checked with TLC on small
instances and, where it says so, proved with TLAPS for every instance. The models are written
from the code; `PROJECT.json` maps every definition to its lines.

Contents: [inventory](#1-inventory), [modules](#2-modules), [runs](#3-runs),
[proofs](#4-proofs), [findings](#5-findings), [limits](#6-limits), [plan](#7-plan).

## 1. Inventory

API processes (FastAPI, one PostgreSQL transaction per request, READ COMMITTED), one worker
process (a loop: breach scan, notifications, outbox dispatch), operator commands, and a React
client. All shared state is in PostgreSQL; processes talk through rows, row locks, advisory
locks and `NOTIFY`.

| Component | State | Operations | Interacts with | Must hold |
|---|---|---|---|---|
| ticket lifecycle `tickets.py` | `tickets`, `ticket_events` | create, PATCH with If-Match, reads | every writer of a ticket takes its row `FOR UPDATE`; writes audit, outbox and SLA rows in its transaction | no stale edit, policy table, audit explains the row, resolution needs a public answer |
| conversation `messages.py` | `ticket_messages` | reply, note, list | moves the ticket on a customer's reply, answers and reopens SLA cycles, enqueues notifications, binds uploads | order of the thread, nothing public on a closed ticket |
| idempotency `mutations.py` | `idempotency_records`, advisory locks | begin, finish, expiry | wraps create and reply | one effect per key, replay points to it |
| service levels `sla.py` | `ticket_sla_cycles` | open, answer, pause, resume, re-price, complete, reopen; breach scan | called by both handlers under the ticket lock; the scan by the worker | deadlines grant the target without the customer's time; breaches earned, recorded, announced once |
| outbox `outbox.py` | `outbox_events` | insert, dispatch, back-off, CLI retry | rows from handlers and scan; `NOTIFY` to listeners | nothing committed is lost to the channel, bounded attempts |
| realtime `realtime.py` | per process: incoming queue, subscribers with bounded queues | listen, fan-out, stream, overflow, resync | outbox rows, sessions, browser | a client that stays connected learns of every visible change; none of internal ones |
| notifications `notifications.py` | `notification_deliveries`, preferences | enqueue, send with back-off, retry by staff | messages, worker | at most one e-mail per answer unless a retry was asked for |
| attachments `attachments.py`, `storage.py`, `cleanup.py` | `attachments`, stored objects | upload, bind, download, clean up | messages | bound once; what is bound is never deleted |
| authentication `auth/*` | `auth_sessions`, `auth_throttles`, `users` | csrf, login, logout, throttle | every request | a bootstrap session is used once; a deactivated account gets no session |
| unread `unread.py` | `user_ticket_states` | mark seen, count | messages | what was not in the thread stays unread, one message excepted |
| saved replies, dashboard, orders, pagination, provisioning, seed, plumbing | own rows or none | | | not modelled, see [limits](#6-limits) |
| browser client | thread and cursor per view, live revision, draft and its key | load, merge, send, mark | REST and stream | no message twice, no hole without a reason |

What is hard here: transactions that interleave between a lock-free read and a commit; two lock
orders (ticket before cycle in the handlers, cycle before ticket in the breach scan); retries with
the same key during, after and instead of the first attempt; roll-backs at every step; instants
that are taken before a lock is granted or before a commit; deadlines under pauses and priority
changes. `PROJECT.json` lists these hazards line by line with the properties that watch them.

## 2. Modules

| Module | Models |
|---|---|
| `TicketPolicy` | the transition table and `validate_status_transition`, shared by the modules below |
| `TicketWorkflow` | the write path: create, PATCH, reply; idempotency; the rows they write in all other tables |
| `TicketLedger` | abstract specification of the write path: tickets as serial objects |
| `TicketWorkflowProofs` | theorems about `TicketWorkflow`: locks, the refinement, idempotency keys, the history of a ticket and what customers see of it |
| `SlaCycle`, `SlaCycleProofs` | service levels over a clock: what handlers do to a cycle, and the breach scan; theorems |
| `Delivery` | the way of an outbox row to the browsers: worker, listener, fan-out, streams, tabs |
| `DeliveryProofs` | theorems about `Delivery` |
| `Attachments`, `AttachmentsProofs` | uploaded files as rows and stored objects, their expiry and clean-up; theorems |
| `Notifications`, `NotificationsProofs` | batches of e-mails and retries by staff; theorems |
| `AuthSession`, `AuthSessionProofs` | bootstrap sessions, login, logout and the throttle; theorems |
| `Conversation`, `ConversationProofs` | a thread in a browser tab: pages, merging, the reply; theorems |
| `Unread`, `UnreadProofs` | the marker of a user against messages that are dated before they commit; theorems |
| `MC...` | the request sets and constants of the runs |

Names ending in `_Something` after the name of a definition (`Replied_Uncounted`) are mutated
forms of it, each preceded by a comment; no specification uses them. They are there to show that
every checked property can fail: `PROJECT.json` "mutants" pairs each property with one.

### TicketWorkflow

A request is a process with a program counter: `Begin` (the transaction starts, which fixes
PostgreSQL's `now()`), `BeginIdempotency` (advisory lock, then the record of the key:
absent, expired, conflicting or a replay), `LockTicket` (row `FOR UPDATE`; the handler's own
`datetime.now` is taken here), then one atomic commit. `AnswerFromKey` and `AnswerFromRow` are the
error and no-op answers, `Rollback` an error or crash at any point. A commit applies the *whole* handler:

| Action | Handler | Writes |
|---|---|---|
| `CommitCreate` | `create_ticket` | ticket, first cycle, audit, outbox, record |
| `CommitPatch` | `patch_ticket` | ticket with version and timestamps, cycles, audit rows, outbox |
| `CommitMessage` | `create_message` | message, bound files, ticket (reopening, first response), cycles, audit, outbox, deliveries, record |
| `Upload` | `upload_attachment` | a staged file |
| `Lapse` | 24 hours pass for a record | |

Until the commit nothing is visible, so what a commit writes is a function (`Patched`, `Replied`,
`ChangeEvents`, `ApplyStatusChange`, ...) of the row read under the lock. Timestamps are values of
`clock`, which every `Begin` advances. Texts, subjects, categories and order references
are left out. SLA cycles are reduced to a phase and the first response.

### TicketLedger

Four serial steps: `Open`, `Edit`, `Move`, `Post`, each decided and applied on the current value of
one ticket. It repeats the transition table instead of sharing it, so that a change of either is
noticed. `SerialTickets` instantiates it with the columns `status` and `version` and the projected
thread; all other steps of the write path must be stutters.

### SlaCycle

One handler at a time holds a ticket row. `HandlerLocks` fixes `now` and reads the cycles (without
a lock, as `active_cycle` does); `HandlerCommits` writes what `apply_status_change`,
`apply_priority_change` (in that order, as `patch_ticket` loops over the changes) or
`record_first_public_response` make of them. `Tick` may come in between. `WorkerScans` reads due
cycles `FOR UPDATE SKIP LOCKED` up to the batch limit, `WorkerCommits` writes the marks and the
`sla.breached` audit rows. The foreign key of an audit row needs a share lock of the ticket, so the
scan waits for a handler that holds it (`TicketIsFree`), and a handler that must update a cycle
waits for the scan (`Blocks`): PostgreSQL rolls one of the two back (`Victim`).

The cycle has the columns of `TicketSlaCycle`. The clock counts ticks, `Second` of them make a
second, because `resolution_paused_seconds` truncates every pause to whole seconds while the
deadline moves by the exact pause. The history variable `past` records what each ticket was from
which instant on; the deadline properties are stated on it and not on the bookkeeping of the cycle.

### Delivery

Events are outbox rows, known by their id; customer and visibility of each are constants, since no code
changes them. Rows, delivered, deferred and incoming events are sets: nothing depends on their order,
and the worker's `ORDER BY` only chooses which rows go first when there are more than its limit.

| Actions | Code |
|---|---|
| `CommitChange` | any handler that inserts an outbox row |
| `ClaimBatch`, `DispatchCommits`, `DispatchRollsBack` | `dispatch_batch`: `FOR UPDATE SKIP LOCKED`, a savepoint per row, marks and `NOTIFY` with the commit |
| `BackoffEnds`, `RetryFailed` | `available_at` passes; `retry_failed` |
| `HubConnects`, `LinkBreaks`, `HubNotices` | `EventHub.listen`: LISTEN and the broadcast of RESYNC, a lost connection, its detection by the probe |
| `FanoutBegins`, `FanoutEnds`, `FanoutFails` | `EventHub.fanout`, split at its query: the subscribers asked about are those of before, the ones served those of after |
| `Restart` | the API process stops and starts |
| `Connect`, `StreamSends`, `Heartbeat`, `AuthExpired`, `StreamFails` | `events`, `event_stream`, `BoundedStreamingResponse` |
| `Refresh`, `Poll` | `useLiveUpdates`: the delayed refresh (80 ms), and focus, online and the poll |
| `FetchReads`, `FetchArrives`, `FetchFails` | what a new revision makes the views ask for (`TicketDetail`, `useResource`, `TicketPages`): the query of the API, the answer, and the error or lost answer that is swallowed |
| `SessionEnds` | the session expires or is revoked |

`Notified` is the callback of the listener: it runs in the step that commits, because a `NOTIFY` that
arrives later cannot be told from a commit that happens later. A full `incoming` queue refuses events, and
`dropped` remembers which. `Enqueue` bounds a subscriber's queue: what does not fit replaces
all of it by the OVERFLOW marker. A tab is the only one of its user, and its `view` is the set of changes
that its last successful fetch has read. Refused streams (the connection limits) are streams that do not connect.

`Refresh` only raises the revision: it aborts the requests that are under way and sends new ones. `fetch` says how far
these are and `brings` which changes they bring: at least those committed when they were sent, and exactly those that are
committed when the API reads. The requests of one revision (ticket, messages, history) count as one fetch, which has arrived
when all of them have and fails when one of them does. After a failure (`TicketDetail.tsx:413`, `424`, `430`) the
tab shows what it showed before and nothing asks again until the next event, heartbeat or poll: the state `failed`
remembers which changes that fetch would have brought, until the next one is sent. This is the second exception of
`NothingIsLostSilently`, beside the full incoming queue.

### Attachments

`row` is what the table says of a file, `objects` what the storage holds. An upload is two steps
(`SaveObject`, `CommitUpload`), a message too (`BindReads` under the ticket lock, `BindCommits`; how a message is
accepted is `TicketWorkflow`), a clean-up many (`CleanUpReads`, `RemoveObject` per file, `CleanUpCommits`),
because objects go at once and rows with the commit. Rows are deleted by id, bound or not; an update that
meets no row ends in `BindRollsBack`. A crash between object and row of an upload leaves an object that
nothing ever removes: `RowsGoLast` speaks of the clean-up only.

### Notifications

A batch claims due rows, then sends one e-mail at a time (`SendEmail`, or `SendRaises`, when it may have
left all the same), and writes all rows at the commit. A retry reads its row without a lock (`RetryReads`) and
writes it later (`RetryCommits`), whatever it has become; of the attempts it writes only a change, as the session
does. A second retry can therefore take up a delivery that has been sent, and one that read no attempts leaves a
later count as it is, so that both bounds grow with accepted retries.

### AuthSession

A request of `GET /auth/csrf`, `POST /auth/login` or `POST /auth/logout` is a process; a session is known by its
place in the table, and its CSRF token with it. `LoginReads` is `_require_csrf`, without a lock;
`LoginHitsIp` and `LoginHitsEmail` are the two calls of `hit_throttle`, each a transaction of its own that stays
counted; `Verifies` reads the account and verifies the password with no transaction open; `LoginLocks` is the
`SELECT ... FOR UPDATE` of the bootstrap session and the second look at it, `LoginCommits` the second look at the
account and the rotation. `RollsBack` is an error or crash at any point. An account may be deactivated or get
another password at any time (`Deactivate`, `ChangePassword`): the code has no such operation, but `routes.py:211`
guards against it. A password is the number of its hash. `hit_throttle` takes its instant before it
waits for a pool connection and for the row of the counter (`security.py:99-115`), and `Tick` passes meanwhile, without a
bound: a login may reach the counter any number of windows after its instant. The history variable `tries` keeps of
every attempt whose password is checked both instants, the one it took (`now`) and the one at which it had its turn (`at`).
`TriesAreBounded` counts the attempts that did both within a stretch as long as a window: twice the limit at most. It says
nothing more, because the code does not: what has waited is counted in the window that its instant belongs to or in the one that is
open by then, and comes on top of the stretch in which it is checked (see the [observations](#5-findings)).

### Conversation

`TicketDetail` with `useLiveUpdates` for one ticket: `Open` mounts it and asks for the first page, `Revise` is a
revision (event, poll, focus, online) that aborts the load under way and asks from the cursor, `InitialReads` and
`LoadReads` are the query of `list_messages`, `InitialArrives`, `LoadArrives`, `LoadOlder` what the tab makes of an
answer, `SendReply`, `SendAnswered`, `SendFails`, `EditReply` the reply and the renewal of its key. `Post` is any
message that commits, among them the one that the tab is waiting for. `overtaken` is a history variable: the
cursor of a load that the first load has overtaken.

### Unread

`PostLocks` takes the row of the ticket and then the date of the message, `PostCommits` makes it visible;
`MarkStamps` takes `now` in `mark_ticket_seen`, `MarkCommits` writes it, and neither looks at the other. An
instant is the number of messages dated before. A request for the marker can get lost, be delayed and overtake another.

## 3. Runs

All runs of `TicketWorkflow` have one customer and one agent, and one ticket (two ids in `retries`,
which creations draw): the properties are about single tickets, keys and files, and requests to different
tickets share nothing but keys. Two concurrent handlers suffice for every race between a read
and a commit, as a lock admits one of them at a time. `MaxClock` bounds the requests ever begun: five in
`races` are enough for creation, reply, resolution, close or reopening, and a racing edit; four in
`retries`, where `MaxLapses` lets one record expire, for a request, its retry, and its reuse after expiry.
`retries` has a single key, so that the file it binds is never wanted by two messages at once; for any number of keys and messages
`FilesAttachOnce` is proved below.
Handlers are interchangeable, hence the symmetry of `races`; `retries` has
none because of its liveness property. The runs stop at these bounds, which is why deadlock is not
checked; `RequestsEnd` and `OverdueIsRecorded` look for requests and scans that block each other.

| Run | Question |
|---|---|
| `races` | status moves, edits and notes against replies of both sides, with roll-backs: `TypeOK`, `ReadsStayCurrent`, `ResolutionWasExplained`, `HistoryExplainsTicket`, `NoPublicReplyOnClosed`, `EditsAreNotStale`, `InternalWorkIsInvisible`, and the refinement of `TicketLedger`: `SerialTickets` |
| `retries` | the same key retried, reused for other content, expired; replies with a staged file: `OneEffectPerKey`, `AttachesOnce`, and `RequestsEnd` with the advisory lock before the row lock |
| `sla_scans` | two scans against answers, pauses, re-pricing, completion and reopening of a ticket, at half-second instants and with roll-backs: `TypeOK`, `ReadsStayCurrent`, `AnnouncedOnce`, `BreachesAreExact`, `DeadlineHonoursTarget`, `BreachIsEarned` |
| `sla_progress` | two tickets, one row per scan, deadlocks with handlers: `OverdueIsRecorded` |
| `sla_waiting` | expected violation, [finding 1](#5-findings) |
| `delivery` | a public and an internal change for a customer's tab: `TypeOK` (the bounds), `NotifiedOnce`, `NothingIsLostSilently`, `InternalIsSilent`, `ViewsCatchUp` |
| `files` | uploads, messages, two clean-ups and crashes: `TypeOK`, `OnlyExpiredFilesAreRemoved`, `RowsGoLast` |
| `sparing` | expected violation, [finding 2](#5-findings) |
| `mails` | two workers, two retries, failures: `TypeOK`, `MailsAreAllowed`, `DeliveriesSettle` |
| `sign_in` | two requests of one account at a time, with expiry, roll-backs, and an account that changes: `TypeOK`, `BootstrapUsedOnce`, `TriesAreBounded`, `GrantsAreCurrent`, `RequestsEnd` |
| `thread` | a tab that loads, revises and replies while another user writes: `TypeOK`, `SkippedHasReason`, `NothingShownTwice`, `RepliesArrive` |
| `unread` | two others write while a tab moves its marker: `MarkMissesAtMostOne`, `ReadGetsMarked` |

`HistoryExplainsTicket` reconstructs the columns of a ticket, its timestamps, its cycles, its first response and its
deliveries from its audit trail and its thread, so that a handler that forgets one of them in any order of moves and
reopenings is found.

Bounds of the `SlaCycle` runs: a second of two ticks shows the rounding; targets of one
second (HIGH, URGENT) and two (LOW, MEDIUM) are the smallest two whose re-pricing moves a deadline
in both directions; the clock runs past the longer one. Four requests allow pause, re-pricing,
resumption and a second pause, or answer, resolution, reopening and a late completion. The target
table is a constant: only that priorities have targets matters.

Bounds of `files`: two files of a ticket that a message may bind together, one of another ticket, and two
clean-ups, whose overlap is the only thing that more of them could do. Bounds of `mails`: an e-mail and a queue entry in
one batch; two attempts; two retries are needed for one to be out of date; one unrecorded e-mail.

Bounds of `delivery`: all queues hold one item, so that two events, or an event and a RESYNC, fill them:
the public event is crowded out of `incoming` by the internal one, and a subscriber overflows. Two workers race for two
rows; two attempts exhaust a row. One tab suffices, as tabs share nothing but the hub, and the proofs below hold for any number.
A fetch may be aborted, answered or fail at any point. Deadlock is checked.

Bounds of `sign_in`: one account, because accounts share only the counter of the address; two requests race for every
session and counter; limits of one attempt per account and two per address are reached by the second and the
third login; a window of one tick and a clock of four let attempts fall into three windows, and an attempt wait for
up to four windows' lengths: on this instance the same bound over the instants `at` alone is violated, by attempts that took the time at
0, 2 and 4 and had their turn at 3, 4 and 4. The constraint `LateIsCalm` keeps the instance small: from the third instant on accounts are
as they were and what is under way are logins, and from the fourth on these guess wrong and nobody has signed in or out, so that only the
throttle goes on; the races of the other properties need no more. It prunes no step that `RequestsEnd` waits for: requests that may be under
way within the constraint go on and end within it. Three
sessions are a bootstrap session, its successor and another bootstrap session. Bounds of `thread`: a page of two messages is the smallest that can hold an
own and a foreign message, three messages make a thread that is longer than a page. Bounds of `unread`: two other
writers, of which one waits for the lock of the other; four messages are two beyond what the property allows to miss, with an own one; two
requests are the fewest that overtake each other.

**Fairness.** `TicketWorkflow`: strong fairness of every handler's next step, since PostgreSQL
serves lock waiters in order and a handler that has its locks goes on; no fairness of roll-backs,
new requests, uploads or expiry. `SlaCycle`: weak fairness of the clock, of the worker's next scan
(the loop of `run()` sleeps at most 0.25 s and catches errors) and of deadlock detection; strong
fairness of a handler's commit (a cycle lock that a rolled-back scan frees goes to the waiting
update) and of a scan's commit (handlers are finite, the worker does not crash every time).
`Delivery`: weak fairness of `HubConnects` (the loop of `listen` sleeps a second and tries again), of
`Heartbeat` (`event_stream` has a deadline that items do not postpone) and of `Refresh` (a timer of 80 ms);
strong fairness of `Connect` (on an error `useLiveUpdates` closes the EventSource and connects again after 2 s, then twice as
long each time up to 15 s, and gets through between two failures of the listener), of `FetchReads` and of `FetchArrives` (heartbeats and
polls 15 s apart start fetch after fetch; some of them are neither aborted by the next revision nor lost). Nothing is asked of the worker, of the fan-out, nor of `Poll`, because browsers
stop the timers of hidden tabs: the changes of `ViewsCatchUp` arrive even if no event is ever dispatched.
`Notifications`: weak fairness of claims and back-offs (the worker's loop, time), strong fairness of a batch's commit
(the database does not fail every time); none of sending or retries. `Attachments` has no liveness property, since nobody promises to run the
clean-up: without fairness.
`AuthSession`: strong fairness of every request's next step (a session row is given back at the end of a transaction and
PostgreSQL serves those that wait in turn). `Conversation` and `Unread`: weak
fairness of `Revise` (`useLiveUpdates` polls every 15 s while the tab is visible; `Close` is the tab that is hidden or left), strong fairness
of a load's query and arrival and of a marker's two steps (the poll is slower than an answer, so they are not aborted
for ever, and a network that fails every time is excluded); none of posting, replying or opening.

## 4. Proofs

`TicketWorkflowProofs` proves, for any number of tickets, users, handlers, keys, files and requests
and without bounds:

| Theorem | States |
|---|---|
| `TypeCorrect` | `Spec => []TypeOK` |
| `ReadsAreCurrent` | `Spec => []ReadsStayCurrent`: between the checks of a handler and its commit nothing it has read changes, and it would decide the same again |
| `NoStaleEdits` | `Spec => EditsAreNotStale` |
| `VersionsCount` | `Spec => []VersionCountsWrites` |
| `ResolutionExplained` | `Spec => []ResolutionWasExplained` |
| `ClosedIsQuiet` | `Spec => NoPublicReplyOnClosed` |
| `FilesAttachOnce` | `Spec => AttachesOnce` |
| `TransactionsAreSerial` | `Spec => SerialTickets`, the refinement of `TicketLedger` |
| `KeysTakeEffectOnce` | `Spec => []OneEffectPerKey`, for any overlap of retries, crashes and expiries |

Assumptions are those of the module: requests are well formed, customers are not staff, sentinels
(`Free`, `Nobody`, `Keep`) are not values, bounds are naturals.

`ReadsStayCurrent` is not inductive: a commit could change the row that *another* ready handler has
read. The invariant is `LockInv == TypeOK /\ ReadsStayCurrent /\ CreationsAreFresh`. Its second part
contains that a ready handler holds the row lock of its ticket, from which `WritersApart` follows (two
ready writers are of different tickets), and its third that a creation under way draws an id that no row has, so it
changes no row that somebody has read. `HeldRow`, `DecisionStands` and `ReadStands` carry row, decision
and thread over another handler's step, `HeldFiles` the files (a file belongs to one ticket, and so
to one lock). With the invariant, a commit is decided on the current row, which is all that
`PatchEdits`, `MessagePosts` and `CreateOpens` need to map it to a step of the ledger; every other step leaves
ledger variables alone (`OnlyCommitsWrite`). `ResolutionExplained` adds `RowsHaveStatus` (a row that
exists has a real status) and that threads only grow (`ThreadGrows`).

TLC found `LockInv` to hold on the instance of `races` before it was proved.

`OneEffectPerKey` counts the messages of a key against the expiries of its record, which is not inductive: a handler that has found no record
could write after another one has. `KeyInv` adds to `LockInv` that a request behind `begin_idempotency` holds the advisory lock
of its key (`KeysAreHeld`), that a key found without a record still has none when its request writes (`FirstUse`), and counts
exactly: the messages of a key are at most its expired records, plus one if it has one that has not (`UsesAreCounted`). A
commit claims a free key (`ClaimIsOne`) and points its record to the place its message takes (`ReplyEffect`, from `ReadsStayCurrent`);
an expiry turns the one live record into an expired one (`LapseEffect`).

About the history of a ticket the module proves, in the same generality,

| Theorem | States |
|---|---|
| `HistoryAccountsForTicket` | `Spec => []HistoryExplainsTicket` |
| `InternalWorkStaysInvisible` | `Spec => InternalWorkIsInvisible` |

It first restates the three commits as what they write to the rows that are there (`CreateWrites`, `PatchWrites`, `MessageWrites`,
from `LockInv`). Both theorems start from `HistoryBase`: the clock of a writing transaction was read behind everything its ticket says
(`StampsAreLate`: nothing goes back in time), and a ticket that is not created has no rows (`BlankBefore`). `HistoryInv` adds
`Accounted(t)`, which is stronger than the property: the status is a real one and the customer and the assignee have their
roles (so that a reply is announced to the other side); the cycles *fit* the number of reopenings in the trail and all carry the first
response of the ticket; and a ticket without a first response has never been reopened, which needs
`ResolutionWasExplained`: a reopened cycle is answered by the ticket's first response and never by the time of the reopening. The
lemmas follow each part over a change: the chain of the audit rows (`TrailAppend`, `TrailFollows`), the reopenings in it
(`ReopeningsFollow`), the cycles over a status change and an answer (`CyclesFollow`, `CyclesAnswered`), the timestamps
(`PatchedStamps`, `RepliedStamps`) and the notifications (`ReplyDelivers`). TLC found `HistoryInv` to hold on the instance of `races`.

`DeliveryProofs` proves, for any number of events, tabs and workers and any sizes:

| Theorem | States |
|---|---|
| `BoundsHold` | `Spec => []TypeOK` |
| `SentWithTheMark` | `Spec => []NotifiedOnce` |
| `OnlyTheAudience` | `Spec => InternalIsSilent` |
| `EveryStepPassesItOn` | `Spec => []NothingIsLostSilently` |

`NotifiedOnce` needs `Claiming`: no two workers hold the same row and every held row is pending, so the
commit of one never marks what another has sent (`OutboxInv`). `DeliveryInv` adds that a fan-out under way allows only
the audience of its event, which is what `InternalIsSilent` needs, and that a stream that is not open has an empty
queue, and that a fetch under way brings all that the tab shows already (`FetchesGrow`: rows stay). With it `NothingIsLostSilently` is
inductive: `OutboxPassesOn`, `HubPassesOn` and `TabPassesOn` follow a change from each place where it may be to the next,
into a fetch and out of it, `QueuedStays` through overflows, and `LackedBefore` shows that a tab comes to lack a
change only by its commit.

Assumptions are the module's: finitely many events, markers that are not events, customers that are not staff,
positive sizes. TLC found `DeliveryInv` to hold on the instance of `delivery` before it was proved.

`AttachmentsProofs` proves `BoundInTimeIsKept` (`Spec => []OnlyExpiredFilesAreRemoved`) and `NothingIsLeftOver`
(`Spec => []RowsGoLast`) for any files, tickets and clean-ups. Inductive with `CleanUpsAreEntitled`: what a clean-up has
read was expired and stays in `expired \cup late`, which never shrinks.

`NotificationsProofs` proves `AttemptsAreBounded` (`Spec => []TypeOK`) and `NoMailTooMany`
(`Spec => []MailsAreAllowed`). A delivery that may still be sent must have one e-mail left: `OwedIsAllowed`; and
`Claiming`, as above, keeps a second worker from sending what the first one has.

`SlaCycleProofs` proves `HandlersReadCurrent` (`Spec => []ReadsStayCurrent`) and `BreachesAreAnnouncedOnce`
(`Spec => []AnnouncedOnce`) for any tickets, workers, requests, targets, scan limits and granularity of the clock. A scan
cannot commit marks of a ticket that a handler holds (`TicketIsFree`), which makes the first inductive. The second needs the invariant
`IInv`: what a scan is about to mark is still unmarked and no other scan has the cycle (`ScansHoldTheirRows`), and what is
announced is marked (`AuditIsMarked`). A handler must not take a mark back or change a cycle that is held: `Follows` says so of
each change of one cycle (answer, price, pause, resumption, completion), `Grows` of all cycles of a ticket
(`CyclesGrow`). That the columns of a mark are never 0 needs positive deadlines, and these need pauses that do
not begin in the future (`InTime`).

Four theorems relate the columns of the cycles to the history of their ticket, of any length and with any pauses:

| Theorem | States |
|---|---|
| `SlaRowsAreTyped` | `Spec => []TypeOK` |
| `DeadlinesGrantTheTarget` | `Spec => []DeadlineHonoursTarget`, with the exception of finding 1 |
| `BreachesAreRecordedExactly` | `Spec => []BreachesAreExact` |
| `BreachesAreEarned` | `Spec => BreachIsEarned` |

`DeadlineHonoursTarget` speaks of the deadline only, which a resumption computes from a pause that began long ago, so that it says too
little to be inductive. `Balance` is what the arithmetic keeps: the stored seconds and the running pause are the time that
the ticket has waited, less the rounding, and the deadline grants that time. One lemma each says that it survives the clock
(`BalanceLater`), an answer, a pause, a resumption and a new priority (where the pause must not be running, or the cycle is
excused). On the other side `Waited` counts instants and `Slack` counts ends of pauses: `WaitedOn`, `WaitedKept`, `SlackGrows` and
`RepricedWaitingStays` follow them over an entry of the history, and `WholeSeconds` bounds what a pause loses in rounding. `Books` puts
the two together for the running cycle at the last entry, `Sound` says of every cycle that its marks are
those of what was late, and `Fits` that the last cycle runs unless its ticket is completed. `DeadlineInv` adds to `IInv` that all
tickets fit, that no mark lies in the future of a handler under way (`Behind`), and that a scan marks what was overdue when it
read it (`ScansAreTimely`), and still is, as the handlers are kept out. `HandlerFits` follows all that a handler does in one commit, a
status, then a priority. A mark is then earned because a
deadline that has passed has been worked for (`PastDueIsWorked`). The assumptions are the module's: positive targets
and seconds, and at least one instant. TLC found `DeadlineInv` to hold on the instance of `sla_scans` before it was proved.

`AuthSessionProofs` proves `SessionsAreTyped` (`Spec => []TypeOK`), `BootstrapGivesOneSession`
(`Spec => []BootstrapUsedOnce`) and `GrantsFollowTheAccount` (`Spec => GrantsAreCurrent`) for any users, requests, limits and
times. The invariant is `RotationInv`: no two requests hold the same session row (`LocksExclude`), what is held is not
revoked and nobody's (`LockedAreUsable`), and bootstrap sessions come from no other (`BootstrapsComeFromNothing`).
`TriesStayBounded` (`Spec => []TriesAreBounded`) speaks of every stretch of time, while the counter knows its own window
only, and holds for every wait. `CounterExplains` relates the two: no try is dated after the end of the counter's window; of the tries of an
account those that the counter has counted are the last ones, the ones before them are dated before the start of the window, and of these all
but the last `LoginEmailLimit` more than a window before it. A try, the counted ones and the ones of the window before therefore
never make more than two limits in one stretch (`DatesAdvance`, the arithmetic of one more date). That the clock is past what an attempt
has read of it (`TimesArePast`) is all that is needed of the wait. TLC found `ThrottleInv` to hold on the instance of `sign_in`.

`UnreadProofs` proves `MarksMissOneAtMost` (`Spec => []MarkMissesAtMostOne`) for any writers and requests. The invariant says
that one message is being written at most (`OneWriter`), that the dates of the thread increase with the positions, and of
every stamp that is under way or stored that all messages but the one being written then are dated after it (`Sound`).

`ConversationProofs` proves `ThreadIsTyped` (`Spec => []TypeOK`), `MessagesAreShownOnce` (`Spec => []NothingShownTwice`)
and `GapsHaveReasons` (`Spec => []SkippedHasReason`) for threads and pages of any length. What a page adds is written as the missing messages in
their order (`InOrder`), because the rank of a message can be reasoned about (`OrderKeepsAll`) and a filter that runs over a sequence
cannot. `PageOfThread` says what the server answers: no gap, right behind the cursor or at the end of the thread.
`SkippedHasReason` is about the cursor of the tab; a load under way has an older one and puts a later one in its place, so that `ThreadInv` asks
the same of its cursor (`KnownUpTo(load.after)`), remembers that an empty thread with a cursor was taken away by
the first load (`EmptyIsOvertaken`), that a reply that is answered is an own message (`ReplyIsOwn`), and that earlier pages join
what is shown (`EarlierPagesJoin`). TLC found `ThreadInv` to hold for pages of one to three and threads of up to five messages.

All safety properties of the passing runs are proved. Only model-checked are the liveness properties (`RequestsEnd` of both modules, `OverdueIsRecorded`,
`ViewsCatchUp`, `DeliveriesSettle`, `RepliesArrive` and `ReadGetsMarked`), because TLAPS does not reason about fairness and `ENABLED` here. What the two violation runs
show is false, so nothing is proved of it.

## 5. Findings

1. **A priority change counts a running pause twice** (`sla_waiting`). `apply_priority_change`
   leaves the running pause out of the eligible time, so that the new deadline already grants it, and keeps
   the start of the pause, so that resuming adds it again. `sla.py:168-170`, `204-206`.
   `DeadlineHonoursTarget` therefore holds with the exception `RepricedWaiting` only.
2. **The clean-up takes a file away from a message** (`sparing`). `delete_expired` reads expired unbound rows without a
   lock, removes the objects and deletes the rows by id, although a message may have bound a file in between
   (`bind_attachments` does not look at `expires_at`). `attachments.py:176-185`. A file bound before it expires
   is safe: `OnlyExpiredFilesAreRemoved`.

Observations that no run shows as a violation, because the code, its comments and its documents promise nothing else or say so
of another case; the properties leave them out by name where they matter:

- `GET /tickets/{id}/events` orders by `created_at`, the start of the transaction. A request that starts first and gets the
  ticket row second is listed as older, and the newest entry names a status that the ticket does not have (`tickets.py:606-612`).
- Among scans a breach timestamp is written at most once (`docs/decisions/0005`), but handlers write the same column
  after a deadline has moved, and the audit row keeps the older instant (`sla.py:157-158`, `191-192`).
- The wait between the instant of a login and its counter has no bound (`security.py:99-115`: pool connection, row). Logins
  are counted by their instants and checked when they get their turn, so that a stretch as long as a window can see
  more than twice the limit of them checked when some took the time before it: at most one limit more for
  each window's length, or part of one, that they have waited (`now` and `at` in `TriesAreBounded`).
- A fetch of the thread or of the history that fails is not tried again and leaves no notice (`TicketDetail.tsx:413`, `424`, `430`); the
  tab lacks the change until the next event, heartbeat or poll (`LostToFailure`). Revisions that follow each other faster than
  an answer takes abort every fetch; the fairness of `ViewsCatchUp` excludes that they do so for ever.
- Sending a reply moves the cursor to it: messages of others that were stored before it and not loaded yet stay out of the thread
  until it is opened again (`TicketDetail.tsx:523`; first case of `Excused`).
- An answer of the first load that comes after one of a revision takes its place, and its cursor back; a load
  that is under way then puts the later cursor (`TicketDetail.tsx:383`, `411`; second case of `Excused`).
- A reply that is sent again after a lost answer uploads its files again; other ids under the same key are refused (`TicketDetail.tsx:507`).
- Text typed while a reply is sent is discarded by its answer (`TicketDetail.tsx:524`).
- The CSRF token of the client is forgotten on 401 only, so that a bootstrap session that has expired is refused with
  403 until the page is loaded again (`api.ts:279`).
- The message that is being written when a marker is dated counts as read, though it was not shown
  (`unread.py:51`; the one message of `MarkMissesAtMostOne`).

## 6. Limits

- Reads (lists, history, dashboard, orders, SLA display) change nothing and appear only as operators
  where a property needs them (`ResolutionState`, `Page`, `IsUnread`).
- PostgreSQL is taken to do what its manual says of READ COMMITTED, row locks, advisory locks, foreign keys
  and deadlock detection.
- A commit is atomic, and the statements of a handler between its lock and its commit are not split: they
  touch rows that the ticket lock protects. The exceptions are modelled (cycles against the scan) or
  in a module of their own (bindings against the clean-up).
- Roles never change, and outside of `AuthSession` users are never deactivated: no code path does so.
- `Delivery` has one API process and one tab per user. What a `NOTIFY` says is not in question (it is an id),
  only whether it arrives; a broken stream is noticed by the browser. Requests of one revision that succeed beside one that
  fails are not told apart: the tab counts as not updated, though parts of it are.
- `Conversation` has one tab; the text of a reply and its files are left out, so that a retry under one key has one content. The
  ticket form, the lists and the CSRF token of the client are not modelled. `Unread` has one marker: markers share nothing.
- Saved replies, pagination, provisioning, seed data, migrations, configuration, logging, deployment
  and layout of the client are not modelled: independent rows, pure encodings or fixed data.
- The back-filled cycles of migration `0003` (a waiting ticket gets a cycle without a running pause)
  are no initial state of `SlaCycle`.

## 7. Plan

All modules of the plan are written. What a later version could add, in this order:

1. The lists of tickets under concurrent updates (keyset pagination over `updated_at`), and the ticket form of the
   browser with its ETag, both against `TicketWorkflow`.
2. A migrated database as another initial state of `SlaCycle`.
3. Proofs: that `DeliveriesSettle` and `RepliesArrive` can only fail by a step that never comes (the safety part of
   each: from every state that waits some step that is fair leads on).
