------------------------- MODULE NotificationsProofs -------------------------
(***************************************************************************)
(* Theorems about Notifications, for any deliveries, workers and retries.  *)
(***************************************************************************)
EXTENDS Notifications, TLAPS

\* An e-mail is still owed: the delivery is pending and no open batch has sent it.
Owed(d) ==
  status[d] \in {"absent", "PENDING"} /\ \A w \in Workers : d \notin mailed[w]

\* What is owed has an attempt left and has used up no e-mail that was not lost.
OwedIsAllowed ==
  \A d \in Deliveries :
    /\ Owed(d) => mails[d] <= retried[d] + lost[d]
    /\ status[d] \in {"absent", "PENDING"} => attempts[d] < MaxAttempts + retried[d]

\* A row is held by one worker, and what is held is pending.
Claiming ==
  \A w \in Workers : \A d \in claims[w] :
    status[d] = "PENDING" /\ \A v \in Workers \ {w} : d \notin claims[v]

MailsInv == TypeOK /\ Claiming /\ OwedIsAllowed /\ MailsAreAllowed

LEMMA MailsInitially == Init => MailsInv
BY NotificationAssumption
DEF Init, MailsInv, TypeOK, Claiming, OwedIsAllowed, Owed, MailsAreAllowed

LEMMA BatchCommitsKeepsMails ==
  ASSUME MailsInv, NEW w \in Workers, BatchCommits(w)
  PROVE  MailsInv'
<1> USE NotificationAssumption DEF MailsInv
<1>1. /\ status' = [d \in Deliveries |-> StatusAfter(w, d)]
      /\ attempts' = [d \in Deliveries |-> Tried(w, d)]
      /\ deferred' = deferred \cup {d \in raised[w] : ~Exhausted(w, d)}
      /\ claims' = [claims EXCEPT ![w] = {}] /\ mailed' = [mailed EXCEPT ![w] = {}]
      /\ raised' = [raised EXCEPT ![w] = {}]
      /\ UNCHANGED <<retry, mails, retried, lost>>
  BY DEF BatchCommits, BatchEnds, historyVars
<1>2. ASSUME NEW d \in Deliveries, d \notin claims[w]
      PROVE  status'[d] = status[d] /\ attempts'[d] = attempts[d] /\ d \notin mailed[w]
  BY <1>1, <1>2 DEF Tried, StatusAfter, TypeOK
<1>3. ASSUME NEW d \in claims[w]
      PROVE  /\ d \in Deliveries /\ status[d] = "PENDING"
             /\ \A v \in Workers \ {w} : d \notin claims[v] /\ d \notin mailed[v]
             /\ status'[d] \in {"SENT", "FAILED", "SKIPPED", "PENDING"}
             /\ attempts'[d] \in Nat /\ attempts'[d] <= MaxAttempts + retried[d]
             /\ status'[d] = "PENDING" =>
                  d \notin mailed[w] /\ attempts'[d] < MaxAttempts + retried[d]
  <2>1. /\ d \in Deliveries /\ status[d] = "PENDING"
        /\ \A v \in Workers \ {w} : d \notin claims[v] /\ d \notin mailed[v]
        /\ attempts[d] \in Nat /\ retried[d] \in Nat
        /\ attempts[d] < MaxAttempts + retried[d]
    BY DEF TypeOK, Claiming, OwedIsAllowed
  <2>2. attempts'[d] = Tried(w, d) /\ status'[d] = StatusAfter(w, d)
    BY <1>1, <2>1
  <2>3. attempts'[d] \in Nat /\ attempts'[d] <= MaxAttempts + retried[d]
    BY <2>1, <2>2 DEF Tried
  <2>4. status'[d] \in {"SENT", "FAILED", "SKIPPED", "PENDING"}
    BY <2>2 DEF StatusAfter
  <2>5. ASSUME status'[d] = "PENDING"
        PROVE  d \notin mailed[w] /\ attempts'[d] < MaxAttempts + retried[d]
    <3>1. d \notin mailed[w] /\ ~Exhausted(w, d)
      BY <2>2, <2>5 DEF StatusAfter
    <3> QED
      BY <2>1, <2>2, <2>3, <3>1 DEF Exhausted
  <2> QED
    BY <2>1, <2>3, <2>4, <2>5
<1>4. TypeOK'
  <2>1. status' \in [Deliveries -> {"absent", "PENDING", "SENT", "FAILED", "SKIPPED"}]
    <3>1. ASSUME NEW d \in Deliveries
          PROVE  status'[d] \in {"absent", "PENDING", "SENT", "FAILED", "SKIPPED"}
      BY <1>2, <1>3 DEF TypeOK
    <3> QED
      BY <1>1, <3>1
  <2>2. /\ attempts' \in [Deliveries -> Nat]
        /\ \A d \in Deliveries : attempts'[d] <= MaxAttempts + retried[d]
    <3>1. ASSUME NEW d \in Deliveries
          PROVE  attempts'[d] \in Nat /\ attempts'[d] <= MaxAttempts + retried[d]
      BY <1>2, <1>3 DEF TypeOK
    <3> QED
      BY <1>1, <3>1
  <2>3. deferred' \subseteq Deliveries
    BY <1>1 DEF TypeOK
  <2> QED
    BY <1>1, <2>1, <2>2, <2>3 DEF TypeOK
<1>5. Claiming'
  BY <1>1, <1>2 DEF Claiming, TypeOK
<1>6. OwedIsAllowed'
  <2>1. ASSUME NEW d \in Deliveries, d \notin claims[w]
        PROVE  Owed(d)' => Owed(d)
    BY <1>1, <1>2, <2>1 DEF Owed, TypeOK
  <2>2. ASSUME NEW d \in claims[w]
        PROVE  Owed(d)' => Owed(d)
    BY <1>3 DEF Owed
  <2> QED
    BY <1>1, <1>2, <1>3, <2>1, <2>2 DEF OwedIsAllowed
<1> QED
  BY <1>1, <1>4, <1>5, <1>6 DEF MailsAreAllowed

LEMMA MailsInductive == MailsInv /\ [Next]_vars => MailsInv'
<1> SUFFICES ASSUME MailsInv, [Next]_vars
             PROVE  MailsInv'
  OBVIOUS
<1> USE NotificationAssumption DEF MailsInv
<1>1. CASE UNCHANGED vars
  BY <1>1 DEF vars, rowVars, batchVars, historyVars, TypeOK, Claiming, OwedIsAllowed, Owed,
              MailsAreAllowed
<1>2. ASSUME NEW d \in Deliveries, Enqueue(d) \/ BackoffEnds(d)
      PROVE  MailsInv'
  BY <1>2 DEF Enqueue, BackoffEnds, batchVars, historyVars, TypeOK, Claiming, OwedIsAllowed,
              Owed, MailsAreAllowed
<1>3. ASSUME NEW w \in Workers, ClaimBatch(w)
      PROVE  MailsInv'
  <2>1. PICK batch \in SUBSET Claimable : claims' = [claims EXCEPT ![w] = batch]
    BY <1>3 DEF ClaimBatch
  <2>2. UNCHANGED <<rowVars, mailed, raised, retry, historyVars>> /\ claims[w] = {}
    BY <1>3 DEF ClaimBatch
  <2>3. TypeOK' /\ Claiming'
    BY <2>1, <2>2 DEF TypeOK, Claiming, Claimable, Claimed, Due, rowVars, historyVars
  <2> QED
    BY <2>2, <2>3 DEF rowVars, historyVars, OwedIsAllowed, Owed, MailsAreAllowed
<1>4. ASSUME NEW w \in Workers, SendEmail(w)
      PROVE  MailsInv'
  <2>1. PICK d \in Undecided(w) :
          /\ mailed' = [mailed EXCEPT ![w] = mailed[w] \cup {d}]
          /\ mails' = [mails EXCEPT ![d] = mails[d] + 1]
    BY <1>4 DEF SendEmail
  <2>2. UNCHANGED <<rowVars, claims, raised, retry, retried, lost>>
    BY <1>4 DEF SendEmail
  <2>3. d \in Deliveries /\ Owed(d)
    BY <2>1 DEF Undecided, TypeOK, Claiming, Owed
  <2>4. TypeOK' /\ Claiming'
    BY <2>1, <2>2, <2>3 DEF Undecided, rowVars, TypeOK, Claiming
  <2>5. ~Owed(d)' /\ \A c \in Deliveries \ {d} : Owed(c)' => Owed(c)
    BY <2>1, <2>2 DEF rowVars, TypeOK, Owed
  <2> QED
    BY <2>1, <2>2, <2>3, <2>4, <2>5 DEF rowVars, TypeOK, OwedIsAllowed, MailsAreAllowed
<1>5. ASSUME NEW w \in Workers, SendRaises(w)
      PROVE  MailsInv'
  <2>1. PICK d \in Undecided(w) :
          /\ raised' = [raised EXCEPT ![w] = raised[w] \cup {d}]
          /\ \/ UNCHANGED <<mails, lost>>
             \/ /\ mails' = [mails EXCEPT ![d] = mails[d] + 1]
                /\ lost' = [lost EXCEPT ![d] = lost[d] + 1]
    BY <1>5 DEF SendRaises
  <2>2. UNCHANGED <<rowVars, claims, mailed, retry, retried>>
    BY <1>5 DEF SendRaises
  <2>3. d \in Deliveries
    BY <2>1 DEF Undecided, TypeOK
  <2>4. TypeOK' /\ Claiming'
    <3>1. mails' \in [Deliveries -> Nat] /\ lost' \in [Deliveries -> Nat]
      BY <2>1, <2>3 DEF TypeOK
    <3>2. /\ raised' \in [Workers -> SUBSET Deliveries]
          /\ \A v \in Workers : /\ mailed[v] \cup raised'[v] \subseteq claims[v] \ Queued
                                /\ mailed[v] \cap raised'[v] = {}
      BY <2>1, <2>3 DEF Undecided, TypeOK
    <3> QED
      BY <2>2, <3>1, <3>2 DEF rowVars, TypeOK, Claiming
  <2>5. \A c \in Deliveries : Owed(c)' => Owed(c)
    BY <2>2 DEF rowVars, Owed
  <2> QED
    BY <2>1, <2>2, <2>3, <2>4, <2>5 DEF rowVars, TypeOK, OwedIsAllowed, MailsAreAllowed
<1>6. ASSUME NEW w \in Workers, BatchFails(w)
      PROVE  MailsInv'
  <2>1. /\ lost' = [d \in Deliveries |-> IF d \in mailed[w] THEN lost[d] + 1 ELSE lost[d]]
        /\ claims' = [claims EXCEPT ![w] = {}] /\ mailed' = [mailed EXCEPT ![w] = {}]
        /\ raised' = [raised EXCEPT ![w] = {}] /\ UNCHANGED <<rowVars, retry, mails, retried>>
    BY <1>6 DEF BatchFails, BatchEnds
  <2>2. TypeOK' /\ Claiming'
    BY <2>1 DEF rowVars, TypeOK, Claiming
  <2>3. \A d \in Deliveries \ mailed[w] : Owed(d)' => Owed(d)
    BY <2>1 DEF rowVars, TypeOK, Owed
  <2> QED
    BY <2>1, <2>2, <2>3 DEF rowVars, TypeOK, OwedIsAllowed, MailsAreAllowed
<1>7. ASSUME NEW r \in Retries, RetryReads(r)
      PROVE  MailsInv'
  <2>1. TypeOK' /\ Claiming'
    BY <1>7 DEF RetryReads, Retryable, Reading, rowVars, batchVars, historyVars, TypeOK, Claiming
  <2> QED
    BY <1>7, <2>1 DEF RetryReads, rowVars, batchVars, historyVars, OwedIsAllowed, Owed,
                      MailsAreAllowed
<1>8. ASSUME NEW r \in Retries, RetryCommits(r)
      PROVE  MailsInv'
  <2> DEFINE d == retry[r].delivery
  <2>1. /\ status' = [status EXCEPT ![d] = "PENDING"]
        /\ attempts' = [attempts EXCEPT ![d] = IF retry[r].attempts # 0 THEN 0 ELSE attempts[d]]
        /\ deferred' = deferred \ {d} /\ retried' = [retried EXCEPT ![d] = retried[d] + 1]
        /\ retry' = [retry EXCEPT ![r] = Answered] /\ UNCHANGED <<batchVars, mails, lost>>
        /\ d \notin Claimed /\ retry[r].at = "read"
    BY <1>8 DEF RetryCommits
  <2>2. d \in Deliveries
    BY <2>1 DEF TypeOK, Reading, NotYet, Answered
  <2>3. TypeOK' /\ Claiming'
    BY <2>1, <2>2 DEF batchVars, TypeOK, Claiming, Claimed
  <2>4. \A c \in Deliveries \ {d} : Owed(c)' => Owed(c)
    BY <2>1 DEF batchVars, TypeOK, Owed
  <2> HIDE DEF d
  <2> QED
    BY <2>1, <2>2, <2>3, <2>4 DEF TypeOK, OwedIsAllowed, MailsAreAllowed
<1> QED
  BY <1>1, <1>2, <1>3, <1>4, <1>5, <1>6, <1>7, <1>8, BatchCommitsKeepsMails DEF Next

LEMMA MailsInvariant == Spec => []MailsInv
BY MailsInitially, MailsInductive, PTL DEF Spec

\* attempts exceed their maximum at most once per retry.
THEOREM AttemptsAreBounded == Spec => []TypeOK
<1>1. MailsInv => TypeOK
  BY DEF MailsInv
<1> QED
  BY <1>1, MailsInvariant, PTL

\* One e-mail per reply, accepted retry and failed batch, and no more.
THEOREM NoMailTooMany == Spec => []MailsAreAllowed
<1>1. MailsInv => MailsAreAllowed
  BY DEF MailsInv
<1> QED
  BY <1>1, MailsInvariant, PTL
=============================================================================
