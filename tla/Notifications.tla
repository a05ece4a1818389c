--------------------------- MODULE Notifications ---------------------------
(***************************************************************************)
(* The deliveries of reply notifications: the worker's batches, which send *)
(* e-mails before their transaction commits, and the retries of staff,     *)
(* which read a delivery without a lock.                                   *)
(*                                                                         *)
(* Whether a recipient is eligible, wants e-mail and can be reached is up  *)
(* to the environment, that is, to each attempt.                           *)
(***************************************************************************)
EXTENDS Naturals, FiniteSets

CONSTANTS
  Deliveries,     \* rows of notification_deliveries that may be enqueued
  Queued,         \* the ones of channel "queue", which send no e-mail
  Workers,
  Retries,        \* requests POST /notifications/{id}/retry
  MaxAttempts,    \* notification_max_attempts
  Limit,          \* rows that a batch claims
  MaxLosses       \* bound on the e-mails of a delivery that no row tells of

VARIABLES
  status,     \* absent, PENDING, SENT, FAILED or SKIPPED
  attempts,
  deferred,   \* deliveries whose available_at is still to come
  claims,     \* the rows that each worker's open transaction holds
  mailed,     \* the ones of them whose e-mail it has sent
  raised,     \* the ones of them for which sending raised an error
  retry,      \* the delivery that each retry has read, and its attempts
  mails,      \* history: e-mails per delivery
  retried,    \* history: the retries that were accepted, per delivery
  lost        \* history: e-mails that no row tells of, per delivery

rowVars == <<status, attempts, deferred>>
batchVars == <<claims, mailed, raised>>
historyVars == <<mails, retried, lost>>
vars == <<rowVars, batchVars, retry, historyVars>>

ASSUME NotificationAssumption ==
  /\ Queued \subseteq Deliveries
  /\ MaxAttempts \in Nat \ {0} /\ Limit \in Nat \ {0} /\ MaxLosses \in Nat

\* A retry before its read and after its answer, and in between.
NotYet == [at |-> "start"]
Answered == [at |-> "end"]
Reading == [at: {"read"}, delivery: Deliveries, attempts: Nat]

Claimed == UNION {claims[w] : w \in Workers}
Due == {d \in Deliveries \ deferred : status[d] = "PENDING"}

Init ==
  /\ status = [d \in Deliveries |-> "absent"] /\ attempts = [d \in Deliveries |-> 0]
  /\ deferred = {} /\ claims = [w \in Workers |-> {}] /\ mailed = [w \in Workers |-> {}]
  /\ raised = [w \in Workers |-> {}]
  /\ retry = [r \in Retries |-> NotYet] /\ mails = [d \in Deliveries |-> 0]
  /\ retried = [d \in Deliveries |-> 0] /\ lost = [d \in Deliveries |-> 0]

\* A reply commits together with its delivery.
Enqueue(d) ==
  /\ status[d] = "absent"
  /\ status' = [status EXCEPT ![d] = "PENDING"]
  /\ UNCHANGED <<attempts, deferred, batchVars, retry, historyVars>>

-----------------------------------------------------------------------------
(* The worker.                                                             *)

\* Without SKIP LOCKED, and without a lock.
Claimable_Unlocked == Due

Claimable == Due \ Claimed

\* The due rows are read FOR UPDATE SKIP LOCKED: all there are, or the limit.
ClaimBatch(w) ==
  /\ claims[w] = {}
  /\ \E batch \in SUBSET Claimable :
       /\ batch # {} /\ Cardinality(batch) <= Limit
       /\ Cardinality(batch) < Limit => batch = Claimable
       /\ claims' = [claims EXCEPT ![w] = batch]
  /\ UNCHANGED <<rowVars, mailed, raised, retry, historyVars>>

Undecided(w) == claims[w] \ (mailed[w] \cup raised[w] \cup Queued)

\* The e-mail of a row leaves while the transaction is open.
SendEmail(w) ==
  /\ \E d \in Undecided(w) :
       /\ mailed' = [mailed EXCEPT ![w] = @ \cup {d}]
       /\ mails' = [mails EXCEPT ![d] = @ + 1]
  /\ UNCHANGED <<rowVars, claims, raised, retry, retried, lost>>

\* The provider is out of reach, or takes the e-mail and its answer does not arrive.
SendRaises(w) ==
  /\ \E d \in Undecided(w) :
       /\ raised' = [raised EXCEPT ![w] = @ \cup {d}]
       /\ \/ UNCHANGED <<mails, lost>>
          \/ /\ lost[d] < MaxLosses
             /\ mails' = [mails EXCEPT ![d] = @ + 1] /\ lost' = [lost EXCEPT ![d] = @ + 1]
  /\ UNCHANGED <<rowVars, claims, mailed, retry, retried>>

\* A failed attempt is not counted.
Tried_Uncounted(w, d) == attempts[d]

\* attempts of a row after the batch, and whether they are the last ones.
Tried(w, d) == IF d \in raised[w] THEN attempts[d] + 1 ELSE attempts[d]

\* One attempt more than allowed.
Exhausted_Late(w, d) == Tried(w, d) > MaxAttempts

Exhausted(w, d) == Tried(w, d) >= MaxAttempts

\* Rows without an attempt are skipped (recipient, preference or backend), unless they
\* are of the queue.
StatusAfter(w, d) ==
  IF d \notin claims[w] THEN status[d]
  ELSE IF d \in mailed[w] \cup Queued THEN "SENT"
  ELSE IF d \notin raised[w] THEN "SKIPPED"
  ELSE IF Exhausted(w, d) THEN "FAILED" ELSE "PENDING"

BatchEnds(w) ==
  /\ claims[w] # {}
  /\ claims' = [claims EXCEPT ![w] = {}]
  /\ mailed' = [mailed EXCEPT ![w] = {}] /\ raised' = [raised EXCEPT ![w] = {}]

BatchCommits(w) ==
  /\ status' = [d \in Deliveries |-> StatusAfter(w, d)]
  /\ attempts' = [d \in Deliveries |-> Tried(w, d)]
  /\ deferred' = deferred \cup {d \in raised[w] : ~Exhausted(w, d)}
  /\ BatchEnds(w)
  /\ UNCHANGED <<retry, historyVars>>

\* A crash or a database error: the rows are as before, the e-mails are out.
BatchFails(w) ==
  /\ \A d \in mailed[w] : lost[d] < MaxLosses
  /\ lost' = [d \in Deliveries |-> IF d \in mailed[w] THEN lost[d] + 1 ELSE lost[d]]
  /\ BatchEnds(w)
  /\ UNCHANGED <<rowVars, retry, mails, retried>>

\* available_at of a failed row passes.
BackoffEnds(d) ==
  /\ d \in deferred
  /\ deferred' = deferred \ {d}
  /\ UNCHANGED <<status, attempts, batchVars, retry, historyVars>>

-----------------------------------------------------------------------------
(* retry_delivery.                                                         *)

Retryable == {d \in Deliveries : status[d] \in {"FAILED", "SKIPPED"}}

RetryReads(r) ==
  /\ retry[r] = NotYet
  /\ \E d \in Retryable :
       retry' = [retry EXCEPT ![r] =
         [at |-> "read", delivery |-> d, attempts |-> attempts[d]]]
  /\ UNCHANGED <<rowVars, batchVars, historyVars>>

\* The update waits for a worker that holds the row and applies to whatever the row is by
\* then.  It writes attempts only if the value that was read differs from the new one.
RetryCommits(r) ==
  /\ retry[r].at = "read" /\ retry[r].delivery \notin Claimed
  /\ LET d == retry[r].delivery
     IN  /\ status' = [status EXCEPT ![d] = "PENDING"]
         /\ attempts' = [attempts EXCEPT ![d] = IF retry[r].attempts # 0 THEN 0 ELSE @]
         /\ deferred' = deferred \ {d}
         /\ retried' = [retried EXCEPT ![d] = @ + 1]
  /\ retry' = [retry EXCEPT ![r] = Answered]
  /\ UNCHANGED <<batchVars, mails, lost>>

-----------------------------------------------------------------------------
Next ==
  \/ \E d \in Deliveries : Enqueue(d) \/ BackoffEnds(d)
  \/ \E w \in Workers : \/ ClaimBatch(w) \/ SendEmail(w) \/ SendRaises(w)
                        \/ BatchCommits(w) \/ BatchFails(w)
  \/ \E r \in Retries : RetryReads(r) \/ RetryCommits(r)

Spec == Init /\ [][Next]_vars

\* The worker goes on after errors, the database does not fail every time, time passes.
Fairness ==
  /\ \A w \in Workers : WF_vars(ClaimBatch(w)) /\ SF_vars(BatchCommits(w))
  /\ \A d \in Deliveries : WF_vars(BackoffEnds(d))

FairSpec == Spec /\ Fairness

-----------------------------------------------------------------------------
(* Properties.                                                             *)

\* attempts keeps to notification_max_attempts (notifications.py:176), but for one more
\* after each retry, which can leave a stale count behind.
TypeOK ==
  /\ status \in [Deliveries -> {"absent", "PENDING", "SENT", "FAILED", "SKIPPED"}]
  /\ deferred \subseteq Deliveries /\ claims \in [Workers -> SUBSET Deliveries]
  /\ mailed \in [Workers -> SUBSET Deliveries] /\ raised \in [Workers -> SUBSET Deliveries]
  /\ \A w \in Workers : /\ mailed[w] \cup raised[w] \subseteq claims[w] \ Queued
                        /\ mailed[w] \cap raised[w] = {}
  /\ retry \in [Retries -> Reading \cup {NotYet, Answered}]
  /\ mails \in [Deliveries -> Nat] /\ retried \in [Deliveries -> Nat]
  /\ lost \in [Deliveries -> Nat] /\ attempts \in [Deliveries -> Nat]
  /\ \A d \in Deliveries : attempts[d] <= MaxAttempts + retried[d]

\* A reply sends one e-mail, one more for each accepted retry and for each time that the
\* batch failed after sending it or the provider took it without an answer; overlapping workers, failed attempts and retries that
\* overlap with each other or with a worker add none (notifications.py:9-10, 135).
MailsAreAllowed ==
  \A d \in Deliveries : mails[d] <= 1 + retried[d] + lost[d]

\* Every delivery that is to be made is sent, skipped or given up (notifications.py:143-187).
DeliveriesSettle ==
  \A d \in Deliveries : status[d] = "PENDING" ~> status[d] \in {"SENT", "FAILED", "SKIPPED"}
=============================================================================
