-------------------------- MODULE AuthSessionProofs --------------------------
(* Proofs about AuthSession, for every number of users, requests and attempts. *)
EXTENDS AuthSession, TLAPS

Rows == [user: Users \cup {Nobody}, from: Nat, expires: Nat]
Dates == [now: Nat, at: Nat]

\* A new session comes after the ones that are there, which it leaves alone.
LEMMA CreatedAppends ==
  ASSUME TypeOK, NEW u \in Users \cup {Nobody}, NEW t \in Nat
  PROVE  /\ Created(u, t) \in Seq(Rows)
         /\ DOMAIN Created(u, t) = DOMAIN sessions \cup {Len(sessions) + 1}
         /\ Len(sessions) + 1 \notin DOMAIN sessions
         /\ \A i \in DOMAIN sessions : Created(u, t)[i] = sessions[i]
         /\ Created(u, t)[Len(sessions) + 1].user = u
         /\ Created(u, t)[Len(sessions) + 1].from = t
<1> DEFINE row == [user |-> u, from |-> t, expires |->
                     clock + (IF u = Nobody THEN PreauthTtl ELSE SessionTtl)]
<1>1. sessions \in Seq(Rows)
  BY DEF TypeOK, Rows
<1>2. row \in Rows
  BY LimitAssumption, SMTT(30) DEF TypeOK, Rows
<1>3. Created(u, t) = Append(sessions, row)
  BY DEF Created
<1>4. row.user = u /\ row.from = t
  OBVIOUS
<1> HIDE DEF row
<1>5. QED
  BY <1>1, <1>2, <1>3, <1>4

\* A row of the throttle stays within one attempt of its limit.
LEMMA CountedTyped ==
  ASSUME TypeOK, NEW k \in Keys, NEW now \in Nat
  PROVE  /\ Counted(k, now) \in [start: Nat, attempts: Nat]
         /\ Counted(k, now).attempts <= LimitOf(k) + 1
<1>1. LimitOf(k) \in Nat \ {0}
  BY LimitAssumption, UserAssumption DEF LimitOf, Keys
<1>2. throttle[k] \in [start: Nat, attempts: Nat] /\ throttle[k].attempts <= LimitOf(k) + 1
  BY DEF TypeOK
<1>3. CASE throttle[k].attempts = 0 \/ throttle[k].start + Window < now
  <2>1. Counted(k, now) = [start |-> now, attempts |-> 1]
    BY <1>3 DEF Counted
  <2>2. QED
    BY <2>1, <1>1
<1>4. CASE ~(throttle[k].attempts = 0 \/ throttle[k].start + Window < now)
  <2>1. Counted(k, now) = [throttle[k] EXCEPT !.attempts =
          IF throttle[k].attempts > LimitOf(k) THEN throttle[k].attempts
          ELSE throttle[k].attempts + 1]
    BY <1>4 DEF Counted
  <2>2. QED
    BY <2>1, <1>1, <1>2
<1>5. QED
  BY <1>3, <1>4

LEMMA InitTyped == Init => TypeOK
<1> SUFFICES ASSUME Init PROVE TypeOK
  OBVIOUS
<1>1. sessions \in Seq(Rows) /\ revoked \subseteq DOMAIN sessions
  BY DEF Init
<1>2. throttle \in [Keys -> [start: Nat, attempts: Nat]]
  BY DEF Init
<1>3. \A k \in Keys : throttle[k].attempts <= LimitOf(k) + 1
  BY LimitAssumption, UserAssumption DEF Init, LimitOf, Keys
<1>4. request \in [Requests -> [pc: Pcs, token: Nat, user: Users \cup {Nobody}, guess: Nat, now: Nat]]
  BY DEF Init, Idle, Pcs
<1>5. \A r \in Requests : request[r].pc = "idle"
  BY DEF Init, Idle
<1>6. tries \in [Users -> Seq(Dates)] /\ clock \in 0..MaxClock /\ active \subseteq Users
      /\ password \in [Users -> Nat]
  BY LimitAssumption DEF Init
<1>7. QED
  BY <1>1, <1>2, <1>3, <1>4, <1>5, <1>6 DEF TypeOK, Rows, Dates, LoginPcs

-----------------------------------------------------------------------------
(* Type correctness.                                                       *)

ReqRows == [pc: Pcs, token: Nat, user: Users \cup {Nobody}, guess: Nat, now: Nat]

\* What a request may be, given the sessions that there are.
Fits(q, ids) ==
  /\ q \in ReqRows
  /\ q.pc \in LoginPcs => q.user \in Users /\ q.token \in ids
  /\ q.pc = "logout" => q.token \in ids

\* The parts of TypeOK that a step changes together.
LEMMA TypeParts ==
  TypeOK <=> /\ sessions \in Seq(Rows)
             /\ revoked \subseteq DOMAIN sessions
             /\ active \subseteq Users /\ password \in [Users -> Nat]
             /\ throttle \in [Keys -> [start: Nat, attempts: Nat]]
             /\ \A k \in Keys : throttle[k].attempts <= LimitOf(k) + 1
             /\ request \in [Requests -> ReqRows]
             /\ \A r \in Requests : Fits(request[r], DOMAIN sessions)
             /\ tries \in [Users -> Seq(Dates)] /\ clock \in 0..MaxClock
BY DEF TypeOK, Rows, Dates, ReqRows, LoginPcs, Fits

\* A request that goes on stays one of a known session and account.
LEMMA MovedFits ==
  ASSUME TypeOK, NEW r \in Requests, NEW q, Fits(q, DOMAIN sessions'),
         request' = [request EXCEPT ![r] = q], DOMAIN sessions \subseteq DOMAIN sessions'
  PROVE  /\ request' \in [Requests -> ReqRows]
         /\ \A s \in Requests : Fits(request'[s], DOMAIN sessions')
<1>1. request \in [Requests -> ReqRows] /\ \A s \in Requests : Fits(request[s], DOMAIN sessions)
  BY TypeParts
<1>2. q \in ReqRows
  BY DEF Fits
<1>3. ASSUME NEW s \in Requests PROVE Fits(request'[s], DOMAIN sessions')
  <2>1. CASE s = r
    BY <2>1, <1>1
  <2>2. CASE s # r
    BY <2>2, <1>1 DEF Fits
  <2>3. QED
    BY <2>1, <2>2
<1>4. QED
  BY <1>1, <1>2, <1>3

LEMMA IdleFits == \A ids : Fits(Idle, ids)
BY DEF Fits, Idle, ReqRows, Pcs, LoginPcs

\* Goes keeps session and account; the next place needs a login that has them.
LEMMA GoesFits ==
  ASSUME TypeOK, NEW r \in Requests, NEW pc \in Pcs, Goes(r, pc),
         pc \in LoginPcs => request[r].pc \in LoginPcs, pc # "logout",
         DOMAIN sessions \subseteq DOMAIN sessions'
  PROVE  /\ request' \in [Requests -> ReqRows]
         /\ \A s \in Requests : Fits(request'[s], DOMAIN sessions')
<1> DEFINE q == [request[r] EXCEPT !.pc = pc, !.now = IF pc = "email" THEN clock ELSE 0]
<1>1. request \in [Requests -> ReqRows] /\ Fits(request[r], DOMAIN sessions) /\ clock \in Nat
  BY TypeParts, LimitAssumption
<1>2. request' = [request EXCEPT ![r] = q]
  BY <1>1 DEF Goes, ReqRows
<1>3. Fits(q, DOMAIN sessions')
  BY <1>1 DEF Fits, ReqRows
<1> HIDE DEF q
<1>4. QED
  BY <1>2, <1>3, MovedFits

LEMMA HitTyped ==
  ASSUME TypeOK, NEW k \in Keys, NEW now \in Nat, Hit(k, now)
  PROVE  /\ throttle' \in [Keys -> [start: Nat, attempts: Nat]]
         /\ \A j \in Keys : throttle'[j].attempts <= LimitOf(j) + 1
<1>1. /\ Counted(k, now) \in [start: Nat, attempts: Nat]
      /\ Counted(k, now).attempts <= LimitOf(k) + 1
  BY CountedTyped
<1>2. QED
  BY <1>1 DEF Hit, TypeOK

LEMMA NextTyped == TypeOK /\ [Next]_vars => TypeOK'
<1> SUFFICES ASSUME TypeOK, [Next]_vars
             PROVE  TypeOK'
  OBVIOUS
<1> DEFINE RestSame == UNCHANGED <<sessions, revoked, accountVars, throttle, tries, clock>>
           ReqTyped == /\ request' \in [Requests -> ReqRows]
                       /\ \A s \in Requests : Fits(request'[s], DOMAIN sessions')
<1>0. \A r \in Requests : request[r] \in ReqRows /\ request[r].now \in Nat
                          /\ request[r].token \in Nat
  BY DEF TypeOK, ReqRows
<1>n. clock \in Nat /\ DOMAIN sessions \subseteq Nat /\ \A u \in Users : password[u] \in Nat
  BY LimitAssumption, SMTT(30) DEF TypeOK
<1>p. \A pc \in LoginPcs : pc \in Pcs /\ pc \notin {"idle", "csrf", "asked", "logout"}
  BY DEF Pcs, LoginPcs
<1>a. ASSUME RestSame, ReqTyped PROVE TypeOK'
  BY <1>a, TypeParts DEF TypeOK, accountVars, ReqRows, Fits, LoginPcs, Rows
<1>b. ASSUME NEW r \in Requests, Ends(r), DOMAIN sessions \subseteq DOMAIN sessions' PROVE ReqTyped
  BY <1>b, IdleFits, MovedFits DEF Ends
<1>1. CASE UNCHANGED vars
  BY <1>1 DEF vars, accountVars, TypeOK
<1>2. ASSUME NEW r \in Requests, AskCsrf(r) PROVE TypeOK'
  <2>1. RestSame
    BY <1>2 DEF AskCsrf
  <2>2. PICK token \in {0} \cup DOMAIN sessions : request' =
          [request EXCEPT ![r] = [pc |-> "csrf", token |-> token, user |-> Nobody,
                                  guess |-> 0, now |-> clock]]
    BY <1>2, ZenonT(30) DEF AskCsrf, Idle
  <2>3. Fits([pc |-> "csrf", token |-> token, user |-> Nobody, guess |-> 0, now |-> clock],
             DOMAIN sessions')
    BY <1>n DEF Fits, ReqRows, Pcs, LoginPcs
  <2>4. QED
    BY <2>1, <2>2, <2>3, MovedFits, <1>a
<1>3. ASSUME NEW r \in Requests, LoginReads(r) PROVE TypeOK'
  <2>1. RestSame
    BY <1>3 DEF LoginReads
  <2>2. PICK token \in DOMAIN sessions, u \in Users : \E guess \in {0, password[u]} : request' =
          [request EXCEPT ![r] = [pc |-> "ip", token |-> token, user |-> u,
                                  guess |-> guess, now |-> clock]]
    BY <1>3 DEF LoginReads
  <2>3. PICK guess \in {0, password[u]} : request' =
          [request EXCEPT ![r] = [pc |-> "ip", token |-> token, user |-> u,
                                  guess |-> guess, now |-> clock]]
    BY <2>2
  <2>4. Fits([pc |-> "ip", token |-> token, user |-> u, guess |-> guess, now |-> clock],
             DOMAIN sessions')
    BY <2>1, <1>n DEF Fits, ReqRows, Pcs, LoginPcs
  <2>5. QED
    BY <2>1, <2>3, <2>4, MovedFits, <1>a
<1>4. ASSUME NEW r \in Requests, LogoutReads(r) PROVE TypeOK'
  <2>1. RestSame
    BY <1>4 DEF LogoutReads
  <2>2. PICK token \in DOMAIN sessions : request' =
          [request EXCEPT ![r] = [Idle EXCEPT !.pc = "logout", !.token = token]]
    BY <1>4 DEF LogoutReads
  <2>3. Fits([Idle EXCEPT !.pc = "logout", !.token = token], DOMAIN sessions')
    BY <1>n, <2>1 DEF Fits, Idle, ReqRows, Pcs, LoginPcs
  <2>4. QED
    BY <2>1, <2>2, <2>3, MovedFits, <1>a
<1>5. ASSUME NEW r \in Requests, NEW k \in Keys, NEW pc \in Pcs, NEW now \in Nat, Hit(k, now),
             Goes(r, pc) \/ Ends(r), pc \in LoginPcs => request[r].pc \in LoginPcs, pc # "logout",
             UNCHANGED <<sessions, revoked, accountVars, clock>>,
             tries' \in [Users -> Seq(Dates)]
      PROVE  TypeOK'
  <2>1. ReqTyped
    BY <1>5, <1>b, GoesFits
  <2>2. /\ throttle' \in [Keys -> [start: Nat, attempts: Nat]]
        /\ \A j \in Keys : throttle'[j].attempts <= LimitOf(j) + 1
    BY <1>5, HitTyped
  <2>3. QED
    BY <1>5, <2>1, <2>2 DEF TypeOK, accountVars, ReqRows, Fits, LoginPcs, Rows, Dates
<1>6. ASSUME NEW r \in Requests, CsrfHits(r) PROVE TypeOK'
  BY <1>6, <1>5, <1>0 DEF CsrfHits, Keys, Pcs, LoginPcs, TypeOK, Dates
<1>7. ASSUME NEW r \in Requests, LoginHitsIp(r) PROVE TypeOK'
  BY <1>7, <1>5, <1>0 DEF LoginHitsIp, Keys, Pcs, LoginPcs, TypeOK, Dates
<1>8. ASSUME NEW r \in Requests, LoginHitsEmail(r) PROVE TypeOK'
  <2>1. request[r].user \in Users /\ request[r].pc = "email"
    BY <1>8 DEF LoginHitsEmail, TypeOK, LoginPcs
  <2>2. clock \in Nat /\ tries \in [Users -> Seq(Dates)]
    BY <1>n DEF TypeOK, Dates
  <2>3. \/ tries' = tries
        \/ tries' = [tries EXCEPT ![request[r].user] =
                       Append(@, [now |-> request[r].now, at |-> clock])]
    BY <1>8 DEF LoginHitsEmail
  <2>5. [now |-> request[r].now, at |-> clock] \in Dates
    BY <1>0, <2>2 DEF Dates
  <2>6. Append(tries[request[r].user], [now |-> request[r].now, at |-> clock]) \in Seq(Dates)
    BY <2>1, <2>2, <2>5
  <2>4. tries' \in [Users -> Seq(Dates)]
    BY <2>1, <2>2, <2>3, <2>6
  <2> QED
    BY <1>8, <1>5, <1>0, <2>1, <2>4 DEF LoginHitsEmail, Keys, Pcs, LoginPcs
<1>9. ASSUME NEW r \in Requests, CsrfAnswers(r) PROVE TypeOK'
  <2>1. /\ Created(Nobody, 0) \in Seq(Rows)
        /\ DOMAIN Created(Nobody, 0) = DOMAIN sessions \cup {Len(sessions) + 1}
    BY CreatedAppends
  <2>2. sessions' = sessions \/ sessions' = Created(Nobody, 0)
    BY <1>9 DEF CsrfAnswers
  <2>3. sessions' \in Seq(Rows) /\ DOMAIN sessions \subseteq DOMAIN sessions'
    BY <2>1, <2>2, TypeParts
  <2>4. ReqTyped
    BY <1>9, <2>3, <1>b DEF CsrfAnswers
  <2>5. QED
    BY <1>9, <2>3, <2>4 DEF CsrfAnswers, TypeOK, accountVars, ReqRows, Fits, LoginPcs, Rows
<1>10. ASSUME NEW r \in Requests, Verifies(r) \/ LoginLocks(r) PROVE TypeOK'
  <2>1. RestSame /\ request[r].pc \in LoginPcs
    BY <1>10 DEF Verifies, LoginLocks, LoginPcs
  <2>2. Goes(r, "verified") \/ Goes(r, "locked") \/ Ends(r)
    BY <1>10 DEF Verifies, LoginLocks
  <2>3. ReqTyped
    BY <2>1, <2>2, <1>b, GoesFits DEF Pcs, LoginPcs
  <2>4. QED
    BY <2>1, <2>3, <1>a
<1>11. ASSUME NEW r \in Requests, LoginCommits(r) PROVE TypeOK'
  <2>1. request[r].user \in Users /\ request[r].token \in DOMAIN sessions
    BY <1>11 DEF LoginCommits, TypeOK, LoginPcs
  <2> DEFINE new == Created(request[r].user, request[r].token)
  <2>2. new \in Seq(Rows) /\ DOMAIN new = DOMAIN sessions \cup {Len(sessions) + 1}
    BY <2>1, <1>0, CreatedAppends, ZenonT(30)
  <2>3. \/ sessions' = sessions /\ revoked' = revoked
        \/ sessions' = new /\ revoked' = revoked \cup {request[r].token}
    BY <1>11 DEF LoginCommits
  <2> HIDE DEF new
  <2>4. /\ sessions' \in Seq(Rows) /\ DOMAIN sessions \subseteq DOMAIN sessions'
        /\ revoked' \subseteq DOMAIN sessions'
    BY <2>1, <2>2, <2>3, TypeParts
  <2>5. ReqTyped
    BY <1>11, <2>4, <1>b DEF LoginCommits
  <2>6. QED
    BY <1>11, <2>4, <2>5 DEF LoginCommits, TypeOK, accountVars, ReqRows, Fits, LoginPcs, Rows
<1>12. ASSUME NEW r \in Requests, LogoutCommits(r) PROVE TypeOK'
  <2>1. ReqTyped
    BY <1>12, <1>b DEF LogoutCommits
  <2>2. revoked' \subseteq DOMAIN sessions'
    BY <1>12 DEF LogoutCommits, TypeOK
  <2>3. QED
    BY <1>12, <2>1, <2>2 DEF LogoutCommits, TypeOK, accountVars, ReqRows, Fits, LoginPcs, Rows
<1>13. ASSUME NEW r \in Requests, RollsBack(r) PROVE TypeOK'
  BY <1>13, <1>a, <1>b DEF RollsBack
<1>14. ASSUME NEW u \in Users, Deactivate(u) \/ ChangePassword(u) PROVE TypeOK'
  <2>1. active' \subseteq Users /\ password' \in [Users -> Nat]
    <3>1. CASE Deactivate(u)
      BY <3>1 DEF Deactivate, TypeOK
    <3>2. CASE ChangePassword(u)
      <4>1. password \in [Users -> Nat] /\ active' = active /\ active \subseteq Users
        BY <3>2 DEF ChangePassword, TypeOK
      <4>2. password' = [password EXCEPT ![u] = password[u] + 1]
        BY <3>2 DEF ChangePassword
      <4>3. QED
        BY <4>1, <4>2
    <3>3. QED
      BY <1>14, <3>1, <3>2
  <2>2. QED
    BY <1>14, <2>1 DEF Deactivate, ChangePassword, TypeOK
<1>15. CASE Tick
  BY <1>15, LimitAssumption, SMTT(30) DEF Tick, TypeOK, accountVars
<1>16. QED
  BY <1>1, <1>2, <1>3, <1>4, <1>6, <1>7, <1>8, <1>9, <1>10, <1>11, <1>12, <1>13, <1>14, <1>15
  DEF Next, Starts, GoesOn

\* The rows stay typed: what is revoked exists, a login under way names an account of
\* the table and a session of the table (auth/routes.py:164-254, auth/security.py:91-120).
THEOREM SessionsAreTyped == Spec => []TypeOK
BY InitTyped, NextTyped, PTL DEF Spec

-----------------------------------------------------------------------------
(* The bootstrap session is used once: whoever has its row finds it live   *)
(* and nobody's, and nobody else has it.                                   *)

BootstrapsComeFromNothing ==
  \A i \in DOMAIN sessions : sessions[i].user = Nobody => sessions[i].from = 0

LockedAreUsable ==
  \A r \in Requests : request[r].pc = "locked" =>
    request[r].token \notin revoked /\ sessions[request[r].token].user = Nobody

LocksExclude ==
  \A r, s \in Requests :
    request[r].pc = "locked" /\ request[s].pc = "locked" /\ request[r].token = request[s].token
      => r = s

RotationInv ==
  TypeOK /\ BootstrapsComeFromNothing /\ LockedAreUsable /\ LocksExclude /\ BootstrapUsedOnce

LEMMA RotationInitially == Init => RotationInv
<1>1. Init => TypeOK
  BY InitTyped
<1>2. Init => DOMAIN sessions = {} /\ \A r \in Requests : request[r].pc = "idle"
  BY DEF Init, Idle
<1>3. QED
  BY <1>1, <1>2 DEF RotationInv, BootstrapsComeFromNothing, LockedAreUsable, LocksExclude,
                    BootstrapUsedOnce

\* A step that takes no row keeps the rows that are taken apart.
LEMMA LocksKept ==
  ASSUME LockedAreUsable, LocksExclude, TypeOK,
         \A r \in Requests : request'[r] = request[r] \/ request'[r].pc # "locked",
         \A i \in DOMAIN sessions : sessions'[i] = sessions[i],
         \A r \in Requests : request'[r].pc = "locked" => request[r].token \notin revoked'
  PROVE  LockedAreUsable' /\ LocksExclude'
<1>1. \A r \in Requests : request[r].pc = "locked" => request[r].token \in DOMAIN sessions
  BY DEF TypeOK, LoginPcs
<1>2. QED
  BY <1>1 DEF LockedAreUsable, LocksExclude

LEMMA RotationInductive == RotationInv /\ [Next]_vars => RotationInv'
<1> SUFFICES ASSUME RotationInv, [Next]_vars
             PROVE  RotationInv'
  OBVIOUS
<1> USE DEF RotationInv
<1>t. TypeOK'
  BY NextTyped
<1>o. TypeOK
  OBVIOUS
<1>r. request \in [Requests -> ReqRows]
  BY <1>o, TypeParts
<1>a. ASSUME UNCHANGED <<sessions, revoked>>,
             \A r \in Requests : request'[r] = request[r] \/ request'[r].pc # "locked"
      PROVE  RotationInv'
  <2>1. LockedAreUsable' /\ LocksExclude'
    BY <1>a, LocksKept DEF LockedAreUsable
  <2>2. BootstrapsComeFromNothing' /\ BootstrapUsedOnce'
    BY <1>a DEF BootstrapsComeFromNothing, BootstrapUsedOnce
  <2>3. QED
    BY <1>t, <2>1, <2>2
<1>e. ASSUME NEW r \in Requests, Ends(r)
      PROVE  \A s \in Requests : request'[s] = request[s] \/ request'[s].pc # "locked"
  BY <1>e, <1>r DEF Ends, Idle
<1>g. ASSUME NEW r \in Requests, NEW pc, Goes(r, pc), pc # "locked"
      PROVE  \A s \in Requests : request'[s] = request[s] \/ request'[s].pc # "locked"
  BY <1>g, <1>r DEF Goes, ReqRows
<1>1. CASE UNCHANGED vars
  BY <1>1, <1>a DEF vars
<1>2. ASSUME NEW r \in Requests, AskCsrf(r) \/ LoginReads(r) \/ LogoutReads(r) PROVE RotationInv'
  <2>1. UNCHANGED <<sessions, revoked>>
    BY <1>2 DEF AskCsrf, LoginReads, LogoutReads
  <2>2. \A s \in Requests : request'[s] = request[s] \/ request'[s].pc # "locked"
    <3>1. ASSUME NEW q, request' = [request EXCEPT ![r] = q], q.pc # "locked"
          PROVE  \A s \in Requests : request'[s] = request[s] \/ request'[s].pc # "locked"
      BY <3>1, <1>r
    <3>2. CASE AskCsrf(r)
      BY <3>1, <3>2 DEF AskCsrf, Idle
    <3>3. CASE LoginReads(r)
      BY <3>1, <3>3 DEF LoginReads
    <3>4. CASE LogoutReads(r)
      BY <3>1, <3>4 DEF LogoutReads, Idle
    <3>5. QED
      BY <1>2, <3>2, <3>3, <3>4
  <2>3. QED
    BY <2>1, <2>2, <1>a
<1>3. ASSUME NEW r \in Requests, CsrfHits(r) \/ LoginHitsIp(r) \/ LoginHitsEmail(r) \/ Verifies(r)
                                 \/ RollsBack(r)
      PROVE  RotationInv'
  <2>1. UNCHANGED <<sessions, revoked>>
    BY <1>3 DEF CsrfHits, LoginHitsIp, LoginHitsEmail, Verifies, RollsBack
  <2>2. \/ Ends(r) \/ Goes(r, "asked") \/ Goes(r, "email") \/ Goes(r, "verify")
        \/ Goes(r, "verified")
    BY <1>3 DEF CsrfHits, LoginHitsIp, LoginHitsEmail, Verifies, RollsBack
  <2>3. QED
    BY <2>1, <2>2, <1>a, <1>e, <1>g
<1>4. ASSUME NEW r \in Requests, CsrfAnswers(r) PROVE RotationInv'
  <2> DEFINE new == Created(Nobody, 0)
             n == Len(sessions) + 1
  <2>1. /\ DOMAIN new = DOMAIN sessions \cup {n} /\ n \notin DOMAIN sessions
        /\ \A i \in DOMAIN sessions : new[i] = sessions[i]
        /\ new[n].user = Nobody /\ new[n].from = 0
    <3>1. Nobody \in Users \cup {Nobody} /\ 0 \in Nat
      OBVIOUS
    <3> HIDE DEF RotationInv
    <3>2. QED
      BY <1>o, <3>1, CreatedAppends DEF new, n
  <2>2. revoked' = revoked /\ (sessions' = sessions \/ sessions' = new) /\ Ends(r)
    BY <1>4 DEF CsrfAnswers
  <2>3. revoked \subseteq DOMAIN sessions /\ 0 \notin DOMAIN sessions
    BY DEF TypeOK
  <2> HIDE DEF new, n
  <2>4. CASE sessions' = new
    <3>1. LockedAreUsable' /\ LocksExclude'
      BY <2>1, <2>2, <2>4, <1>e, LocksKept DEF LockedAreUsable
    <3>2. BootstrapsComeFromNothing'
      BY <2>1, <2>4 DEF BootstrapsComeFromNothing
    <3>3. BootstrapUsedOnce'
      BY <2>1, <2>2, <2>3, <2>4 DEF BootstrapUsedOnce
    <3>4. QED
      BY <1>t, <3>1, <3>2, <3>3
  <2>5. QED
    BY <2>2, <2>4, <1>a, <1>e
<1>5. ASSUME NEW r \in Requests, LoginLocks(r) PROVE RotationInv'
  <2>1. UNCHANGED <<sessions, revoked>> /\ ~Locked(request[r].token)
    BY <1>5 DEF LoginLocks
  <2>2. CASE Ends(r)
    BY <2>1, <2>2, <1>a, <1>e
  <2>3. CASE Goes(r, "locked") /\ Usable(request[r].token)
    <3>1. request[r].token \notin revoked /\ sessions[request[r].token].user = Nobody
      BY <2>3 DEF Usable, Valid
    <3>2. /\ request'[r].pc = "locked" /\ request'[r].token = request[r].token
          /\ \A s \in Requests \ {r} : request'[s] = request[s]
      BY <2>3, <1>r DEF Goes, ReqRows
    <3>3. LockedAreUsable'
      BY <2>1, <3>1, <3>2 DEF LockedAreUsable
    <3>4. LocksExclude'
      BY <2>1, <3>2 DEF LocksExclude, Locked
    <3>5. BootstrapsComeFromNothing' /\ BootstrapUsedOnce'
      BY <2>1 DEF BootstrapsComeFromNothing, BootstrapUsedOnce
    <3>6. QED
      BY <1>t, <3>3, <3>4, <3>5
  <2>4. QED
    BY <1>5, <2>2, <2>3 DEF LoginLocks
<1>6. ASSUME NEW r \in Requests, LoginCommits(r) PROVE RotationInv'
  <2> DEFINE u == request[r].user
             t == request[r].token
             new == Created(u, t)
             n == Len(sessions) + 1
  <2>1. u \in Users /\ t \in DOMAIN sessions /\ t \in Nat \ {0}
    BY <1>6 DEF LoginCommits, TypeOK, LoginPcs
  <2>2. /\ DOMAIN new = DOMAIN sessions \cup {n} /\ n \notin DOMAIN sessions
        /\ \A i \in DOMAIN sessions : new[i] = sessions[i]
        /\ new[n].user = u /\ new[n].from = t
    <3> HIDE DEF RotationInv
    <3>1. u \in Users \cup {Nobody} /\ t \in Nat
      BY <2>1
    <3>2. QED
      BY <1>o, <3>1, CreatedAppends, ZenonT(30) DEF new, n
  <2>3. Ends(r) /\ request[r].pc = "locked"
    BY <1>6 DEF LoginCommits
  <2>4. t \notin revoked /\ sessions[t].user = Nobody
    BY <2>3 DEF LockedAreUsable
  <2>5. \A s \in Requests : request'[s].pc = "locked" => request[s].token # t
    BY <2>3, <1>r DEF LocksExclude, Ends, Idle
  <2>6. \/ UNCHANGED <<sessions, revoked>>
        \/ sessions' = new /\ revoked' = revoked \cup {t}
    BY <1>6 DEF LoginCommits
  <2>7. Nobody \notin Users
    BY UserAssumption
  <2> HIDE DEF u, t, new, n
  <2>8. CASE sessions' = new /\ revoked' = revoked \cup {t}
    <3>1. \A s \in Requests : request'[s].pc = "locked" => request[s].token \notin revoked'
      BY <2>3, <2>5, <2>8, <1>e DEF LockedAreUsable
    <3>2. LockedAreUsable' /\ LocksExclude'
      BY <2>2, <2>3, <2>8, <3>1, <1>e, LocksKept
    <3>3. BootstrapsComeFromNothing'
      BY <2>1, <2>2, <2>7, <2>8 DEF BootstrapsComeFromNothing
    <3>4. revoked \subseteq DOMAIN sessions
      BY DEF TypeOK
    <3>5. \A j \in DOMAIN sessions : sessions[j].from # t
      BY <2>1, <2>4 DEF BootstrapUsedOnce, BootstrapsComeFromNothing
    <3>6. BootstrapUsedOnce'
      BY <2>1, <2>2, <2>4, <2>8, <3>4, <3>5 DEF BootstrapUsedOnce
    <3>7. QED
      BY <1>t, <3>2, <3>3, <3>6
  <2>9. QED
    BY <2>3, <2>6, <2>8, <1>a, <1>e
<1>7. ASSUME NEW r \in Requests, LogoutCommits(r) PROVE RotationInv'
  <2>1. /\ revoked' = revoked \cup {request[r].token} /\ sessions' = sessions
        /\ ~Locked(request[r].token) /\ Ends(r)
    BY <1>7 DEF LogoutCommits
  <2>2. \A s \in Requests : request'[s].pc = "locked" => request[s].token \notin revoked'
    BY <2>1, <1>e DEF LockedAreUsable, Locked
  <2>3. LockedAreUsable' /\ LocksExclude'
    BY <2>1, <2>2, <1>e, LocksKept
  <2>4. BootstrapsComeFromNothing' /\ BootstrapUsedOnce'
    BY <2>1 DEF BootstrapsComeFromNothing, BootstrapUsedOnce
  <2>5. QED
    BY <1>t, <2>3, <2>4
<1>8. ASSUME NEW u \in Users, Deactivate(u) \/ ChangePassword(u) PROVE RotationInv'
  BY <1>8, <1>a DEF Deactivate, ChangePassword
<1>9. CASE Tick
  BY <1>9, <1>a DEF Tick
<1>10. QED
  BY <1>1, <1>2, <1>3, <1>4, <1>5, <1>6, <1>7, <1>8, <1>9 DEF Next, Starts, GoesOn

LEMMA RotationHolds == Spec => []RotationInv
BY RotationInitially, RotationInductive, PTL DEF Spec

\* However many logins rotate a bootstrap session at once, with each other or with a
\* logout, it gives one session and is revoked by then (auth/routes.py:197-224).
THEOREM BootstrapGivesOneSession == Spec => []BootstrapUsedOnce
<1>1. RotationInv => BootstrapUsedOnce
  BY DEF RotationInv
<1>2. QED
  BY <1>1, RotationHolds, PTL

-----------------------------------------------------------------------------
\* A session is given to an account that is active and has the password that was typed,
\* at the instant of the commit (auth/routes.py:211-220).
THEOREM GrantsFollowTheAccount == Spec => GrantsAreCurrent
<1> DEFINE Grant ==
      \A i \in DOMAIN sessions' \ DOMAIN sessions :
        LET u == sessions'[i].user
        IN  u # Nobody => /\ u \in active
                          /\ \E r \in Requests : /\ request[r].pc = "locked" /\ request[r].user = u
                                                 /\ request[r].token = sessions'[i].from
                                                 /\ request[r].guess = password[u]
<1>1. TypeOK /\ [Next]_vars => [Grant]_vars
  <2> SUFFICES ASSUME TypeOK, Next PROVE Grant
    OBVIOUS
  <2>1. ASSUME sessions' = sessions PROVE Grant
    BY <2>1
  <2>2. ASSUME NEW r \in Requests, CsrfAnswers(r) PROVE Grant
    <3>1. sessions' = sessions \/ sessions' = Created(Nobody, 0)
      BY <2>2 DEF CsrfAnswers
    <3>2. CASE sessions' = Created(Nobody, 0)
      <4>1. \A i \in DOMAIN sessions' \ DOMAIN sessions : sessions'[i].user = Nobody
        BY <3>2, CreatedAppends
      <4>2. QED
        BY <4>1
    <3>3. QED
      BY <3>1, <3>2, <2>1
  <2>3. ASSUME NEW r \in Requests, LoginCommits(r) PROVE Grant
    <3>1. /\ request[r].pc = "locked" /\ request[r].user \in Users
          /\ request[r].token \in DOMAIN sessions /\ request[r].token \in Nat
      BY <2>3 DEF LoginCommits, TypeOK, LoginPcs
    <3>2. CASE Recognised(r)
      <4>1. sessions' = Created(request[r].user, request[r].token)
        BY <2>3, <3>2 DEF LoginCommits
      <4>2. \A i \in DOMAIN sessions' \ DOMAIN sessions :
              sessions'[i].user = request[r].user /\ sessions'[i].from = request[r].token
        BY <3>1, <4>1, CreatedAppends
      <4>3. request[r].user \in active /\ request[r].guess = password[request[r].user]
        BY <3>2 DEF Recognised
      <4>4. QED
        BY <3>1, <4>2, <4>3
    <3>3. CASE ~Recognised(r)
      BY <2>3, <3>3, <2>1 DEF LoginCommits
    <3>4. QED
      BY <3>2, <3>3
  <2>4. ASSUME NEW r \in Requests,
               AskCsrf(r) \/ LoginReads(r) \/ LogoutReads(r) \/ CsrfHits(r) \/ LogoutCommits(r)
               \/ LoginHitsIp(r) \/ LoginHitsEmail(r) \/ Verifies(r) \/ LoginLocks(r) \/ RollsBack(r)
        PROVE  Grant
    BY <2>4, <2>1 DEF AskCsrf, LoginReads, LogoutReads, CsrfHits, LogoutCommits, LoginHitsIp,
                      LoginHitsEmail, Verifies, LoginLocks, RollsBack
  <2>5. ASSUME (\E u \in Users : Deactivate(u) \/ ChangePassword(u)) \/ Tick PROVE Grant
    BY <2>5, <2>1 DEF Deactivate, ChangePassword, Tick
  <2> HIDE DEF Grant
  <2>6. QED
    BY <2>2, <2>3, <2>4, <2>5 DEF Next, Starts, GoesOn
<1>2. QED
  BY <1>1, SessionsAreTyped, PTL DEF Spec, GrantsAreCurrent

-----------------------------------------------------------------------------
(* The throttle.                                                           *)

\* A login on its way to the counter of its account has taken the time before.
TimesArePast == \A r \in Requests : request[r].pc = "email" => request[r].now <= clock

\* The tries that the present window of a counter has admitted.
Taken(u) == IF throttle[u].attempts > LoginEmailLimit THEN LoginEmailLimit
                                                      ELSE throttle[u].attempts

\* What a counter says of the dates of the tries of its account: none is dated after its
\* window; those that an earlier window has admitted are dated before its start, since a
\* window starts after the end of the one before; and those of the windows before that one
\* are dated more than a window before the start.
CounterExplains(u) ==
  LET n == Len(tries[u])
      start == throttle[u].start
  IN  /\ throttle[u].attempts = 0 => n = 0
      /\ throttle[u].attempts > 0 =>
           /\ start <= clock
           /\ \A i \in 1..n : tries[u][i].now <= start + Window
           /\ \A i \in 1..n : i <= n - Taken(u) => tries[u][i].now < start
           /\ \A i \in 1..n : i <= n - Taken(u) - LoginEmailLimit =>
                tries[u][i].now + Window < start

ThrottleInv ==
  TypeOK /\ TimesArePast /\ (\A u \in Users : CounterExplains(u)) /\ TriesAreBounded

\* The first attempt after a window opens the next one; another one is counted.
LEMMA CountedRow ==
  ASSUME TypeOK, NEW u \in Users, NEW now \in Nat
  PROVE  LET row == throttle[u]
         IN  \/ /\ row.attempts = 0 \/ row.start + Window < now
                /\ Counted(u, now).start = now /\ Counted(u, now).attempts = 1
             \/ /\ row.attempts > 0 /\ now <= row.start + Window
                /\ Counted(u, now).start = row.start
                /\ Counted(u, now).attempts =
                     IF row.attempts > LoginEmailLimit THEN row.attempts ELSE row.attempts + 1
<1>1. LimitOf(u) = LoginEmailLimit /\ u \in Keys
  BY UserAssumption DEF LimitOf, Keys
<1>2. throttle[u] \in [start: Nat, attempts: Nat]
  BY <1>1 DEF TypeOK
<1>3. Window \in Nat
  BY LimitAssumption
<1> QED
  BY <1>1, <1>2, <1>3 DEF Counted

\* A step that leaves counter and tries of an account alone.
LEMMA CounterKept ==
  ASSUME TypeOK, TypeOK', NEW u \in Users, CounterExplains(u),
         throttle'[u] = throttle[u], tries'[u] = tries[u], clock <= clock'
  PROVE  CounterExplains(u)'
<1>1. throttle[u].start \in Nat /\ clock \in Nat /\ clock' \in Nat
  BY LimitAssumption DEF TypeOK, Keys
<1> QED
  BY <1>1 DEF CounterExplains, Taken

\* The dates of the tries are numbers.
LEMMA TryDates ==
  ASSUME TypeOK, NEW u \in Users
  PROVE  /\ Len(tries[u]) \in Nat /\ tries[u] \in Seq(Dates)
         /\ \A i \in 1..Len(tries[u]) : tries[u][i].now \in Nat /\ tries[u][i].at \in Nat
<1>1. tries[u] \in Seq(Dates)
  BY DEF TypeOK, Dates
<1>2. Len(tries[u]) \in Nat /\ \A i \in 1..Len(tries[u]) : tries[u][i] \in Dates
  BY <1>1
<1> QED
  BY <1>1, <1>2 DEF Dates

\* The dates D of n tries, when the window that starts at s has admitted the last t.
Dated(D, n, s, t, L, W) ==
  /\ \A i \in 1..n : D[i] <= s + W
  /\ \A i \in 1..n : i <= n - t => D[i] < s
  /\ \A i \in 1..n : i <= n - t - L => D[i] + W < s

\* An attempt that opens a window, or that the window admits, is one more.
LEMMA DatesAdvance ==
  ASSUME NEW n \in Nat, NEW m \in Nat, m = n + 1, NEW s \in Nat, NEW s2 \in Nat,
         NEW L \in Nat \ {0}, NEW W \in Nat, NEW t \in Nat, NEW t2 \in Nat,
         NEW D \in [1..m -> Nat], t <= L, Dated(D, n, s, t, L, W),
         \/ s + W < D[m] /\ s2 = D[m] /\ t2 = 1
         \/ D[m] <= s + W /\ s2 = s /\ t2 = t + 1 /\ t2 <= L
  PROVE  Dated(D, m, s2, t2, L, W)
<1> USE DEF Dated
<1>1. CASE s + W < D[m] /\ s2 = D[m] /\ t2 = 1
  <2>1. ASSUME NEW i \in 1..m PROVE D[i] <= s2 + W
    <3>1. CASE i = m
      BY <1>1, <3>1
    <3>2. CASE i \in 1..n
      BY <1>1, <3>2
    <3> QED
      BY <3>1, <3>2
  <2>2. ASSUME NEW i \in 1..m, i <= m - t2 PROVE D[i] < s2
    BY <1>1, <2>2
  <2>3. ASSUME NEW i \in 1..m, i <= m - t2 - L PROVE D[i] + W < s2
    <3>1. i \in 1..n /\ i <= n - t
      BY <1>1, <2>3
    <3>2. D[i] < s
      BY <3>1
    <3> QED
      BY <1>1, <3>2
  <2> QED
    BY <2>1, <2>2, <2>3
<1>2. CASE D[m] <= s + W /\ s2 = s /\ t2 = t + 1 /\ t2 <= L
  <2>1. ASSUME NEW i \in 1..m PROVE D[i] <= s2 + W
    <3>1. CASE i = m
      BY <1>2, <3>1
    <3>2. CASE i \in 1..n
      BY <1>2, <3>2
    <3> QED
      BY <3>1, <3>2
  <2>2. ASSUME NEW i \in 1..m, i <= m - t2 PROVE D[i] < s2
    <3>1. i \in 1..n /\ i <= n - t
      BY <1>2, <2>2
    <3> QED
      BY <1>2, <3>1
  <2>3. ASSUME NEW i \in 1..m, i <= m - t2 - L PROVE D[i] + W < s2
    <3>1. i \in 1..n /\ i <= n - t - L
      BY <1>2, <2>3
    <3> QED
      BY <1>2, <3>1
  <2> QED
    BY <2>1, <2>2, <2>3
<1> QED
  BY <1>1, <1>2

\* A login reaches the counter of its account.
LEMMA EmailHit ==
  ASSUME ThrottleInv, TypeOK', NEW r \in Requests, LoginHitsEmail(r)
  PROVE  /\ \A u \in Users : CounterExplains(u)'
         /\ TriesAreBounded'
<1>1. PICK u \in Users, now \in Nat : u = request[r].user /\ now = request[r].now
  BY DEF LoginHitsEmail, ThrottleInv, TypeOK, LoginPcs
<1>2. now <= clock /\ clock \in Nat
  BY <1>1, LimitAssumption DEF LoginHitsEmail, ThrottleInv, TimesArePast, TypeOK
<1>3. clock' = clock
  BY DEF LoginHitsEmail
<1>4. throttle'[u] = Counted(u, now) /\ \A v \in Users : v # u => throttle'[v] = throttle[v]
  BY <1>1 DEF LoginHitsEmail, Hit, ThrottleInv, TypeOK, Keys
<1> DEFINE try == [now |-> now, at |-> clock]
<1>5. \/ Admitted(u, now) /\ tries' = [tries EXCEPT ![u] = Append(tries[u], try)]
      \/ ~Admitted(u, now) /\ tries' = tries
  BY <1>1 DEF LoginHitsEmail, ThrottleInv, TypeOK
<1>6. Admitted(u, now) <=> throttle'[u].attempts <= LoginEmailLimit
  BY <1>4, UserAssumption DEF Admitted, LimitOf
<1>7. \A v \in Users : v # u => tries'[v] = tries[v]
  BY <1>5 DEF ThrottleInv, TypeOK
<1>8. /\ tries[u] \in Seq(Dates) /\ Len(tries[u]) \in Nat
      /\ \A i \in 1..Len(tries[u]) : tries[u][i].now \in Nat /\ tries[u][i].at \in Nat
      /\ throttle[u].start \in Nat /\ throttle[u].attempts \in Nat
      /\ throttle'[u].start \in Nat /\ throttle'[u].attempts \in Nat
      /\ LoginEmailLimit \in Nat \ {0} /\ Window \in Nat
  <2>1. throttle[u] \in [start: Nat, attempts: Nat] /\ throttle'[u] \in [start: Nat, attempts: Nat]
    BY DEF ThrottleInv, TypeOK, Keys
  <2> QED
    BY <2>1, TryDates, LimitAssumption DEF ThrottleInv
<1>9. CounterExplains(u)
  BY DEF ThrottleInv
<1>10. \/ /\ throttle[u].attempts = 0 \/ throttle[u].start + Window < now
          /\ throttle'[u].start = now /\ throttle'[u].attempts = 1
       \/ /\ throttle[u].attempts > 0 /\ now <= throttle[u].start + Window
          /\ throttle'[u].start = throttle[u].start
          /\ throttle'[u].attempts =
               IF throttle[u].attempts > LoginEmailLimit THEN throttle[u].attempts
                                                         ELSE throttle[u].attempts + 1
  BY <1>4, CountedRow DEF ThrottleInv
<1>11. \A v \in Users : v # u => CounterExplains(v)'
  BY <1>2, <1>3, <1>4, <1>7, CounterKept DEF ThrottleInv
<1>12. CASE ~Admitted(u, now)
  <2>1. tries' = tries
    BY <1>5, <1>12
  <2>2. /\ throttle'[u].start = throttle[u].start /\ Taken(u)' = Taken(u)
        /\ throttle[u].attempts > 0
    BY <1>6, <1>8, <1>10, <1>12 DEF Taken
  <2>3. CounterExplains(u)'
    <3>1. throttle'[u].attempts > 0 /\ throttle'[u].attempts # 0
      BY <1>8, <1>10, <2>2
    <3>2. throttle[u].attempts # 0
      BY <1>8, <2>2
    <3> QED
      BY <1>3, <1>9, <2>1, <2>2, <3>1, <3>2 DEF CounterExplains
  <2>4. TriesAreBounded'
    BY <2>1 DEF TriesAreBounded, ThrottleInv
  <2> QED
    BY <1>11, <2>3, <2>4
<1>13. CASE Admitted(u, now)
  <2> DEFINE n == Len(tries[u])
  <2>1. tries'[u] = Append(tries[u], try)
    BY <1>5, <1>13 DEF ThrottleInv, TypeOK
  <2>2. /\ Len(tries'[u]) = n + 1 /\ tries'[u][n + 1] = try
        /\ \A i \in 1..n : tries'[u][i] = tries[u][i]
    <3>1. try \in Dates
      BY <1>2 DEF Dates
    <3> HIDE DEF try
    <3> QED
      BY <1>8, <2>1, <3>1
  <2>3. try.now = now /\ try.at = clock
    OBVIOUS
  <2> HIDE DEF try
  <2>4. throttle'[u].attempts <= LoginEmailLimit /\ throttle'[u].attempts > 0
    BY <1>6, <1>8, <1>10, <1>13
  <2>5. PICK m \in Nat, c \in Nat, L \in Nat \ {0} :
          m = n + 1 /\ c = throttle'[u].attempts /\ L = LoginEmailLimit
    BY <1>8
  <2>6. /\ throttle'[u].start <= clock
        /\ \A i \in 1..m : tries'[u][i].now <= throttle'[u].start + Window
        /\ \A i \in 1..m : i <= m - c => tries'[u][i].now < throttle'[u].start
        /\ \A i \in 1..m : i <= m - c - L => tries'[u][i].now + Window < throttle'[u].start
        /\ \A i \in 1..m : i + 2 * L = m => tries'[u][i].now + Window < clock
    <3>1. CASE throttle[u].attempts = 0
      <4>1. n = 0
        BY <1>9, <3>1 DEF CounterExplains
      <4>2. throttle'[u].start = now /\ c = 1 /\ m = 1
        BY <1>8, <1>10, <2>5, <3>1, <4>1
      <4>3. \A i \in 1..m : i = 1 /\ tries'[u][i].now = now
        BY <2>2, <2>3, <4>1, <4>2
      <4> HIDE DEF n
      <4> QED
        BY <1>2, <1>8, <4>2, <4>3
    <3>2. CASE throttle[u].attempts # 0
      <4>1. PICK D : D = [i \in 1..m |-> tries'[u][i].now]
        OBVIOUS
      <4>2. /\ \A i \in 1..m : D[i] = tries'[u][i].now
            /\ D[m] = now
            /\ \A i \in 1..n : D[i] = tries[u][i].now
        <5>1. /\ \A i \in 1..n : i \in 1..m
              /\ m \in 1..m /\ tries'[u][m] = try
          BY <1>8, <2>2, <2>5
        <5> HIDE DEF n
        <5> QED
          BY <2>2, <2>3, <4>1, <5>1
      <4>3. \A i \in 1..m : D[i] \in Nat
        <5> TAKE i \in 1..m
        <5>1. CASE i = m
          BY <4>2, <5>1
        <5>2. CASE i \in 1..n
          BY <1>8, <4>2, <5>2
        <5> QED
          BY <1>8, <2>5, <5>1, <5>2
      <4>4. PICK t \in Nat : t = Taken(u)
        BY <1>8 DEF Taken
      <4>5. PICK s \in Nat, a \in Nat \ {0}, s2 \in Nat, k \in Nat, W \in Nat, o \in Nat :
              /\ s = throttle[u].start /\ a = throttle[u].attempts /\ o = n
              /\ s2 = throttle'[u].start /\ k = clock /\ W = Window
        BY <1>2, <1>8, <3>2
      <4>6. /\ s <= k
            /\ Dated(D, o, s, t, L, W)
        <5>1. throttle[u].attempts > 0
          BY <1>8, <3>2
        <5>2. /\ throttle[u].start <= clock
              /\ \A i \in 1..n : tries[u][i].now <= throttle[u].start + Window
              /\ \A i \in 1..n : i <= n - Taken(u) => tries[u][i].now < throttle[u].start
              /\ \A i \in 1..n : i <= n - Taken(u) - LoginEmailLimit =>
                   tries[u][i].now + Window < throttle[u].start
          BY <1>9, <5>1 DEF CounterExplains
        <5> HIDE DEF n
        <5> QED
          BY <2>5, <4>2, <4>4, <4>5, <5>2 DEF Dated
      <4>7. \/ s + W < now /\ s2 = now /\ c = 1
            \/ now <= s + W /\ s2 = s /\ c = t + 1 /\ c <= L
        BY <1>10, <2>4, <2>5, <4>4, <4>5 DEF Taken
      <4>8. t <= L /\ m = o + 1 /\ now <= k
        BY <1>2, <2>5, <4>4, <4>5 DEF Taken
      <4>9. Dated(D, m, s2, c, L, W)
        <5>1. D[m] = now /\ D \in [1..m -> Nat]
          BY <4>1, <4>2, <4>3
        <5> HIDE DEF n
        <5> QED
          BY <4>6, <4>7, <4>8, <5>1, DatesAdvance
      <4>10. s2 <= k /\ s2 = throttle'[u].start /\ k = clock /\ W = Window
        BY <4>5, <4>6, <4>7, <4>8
      <4>11. \A i \in 1..m : i + 2 * L = m => D[i] + W < k
        <5> TAKE i \in 1..m
        <5> HAVE i + 2 * L = m
        <5>1. i <= m - c - L
          BY <2>4, <2>5
        <5>2. D[i] + W < s2
          BY <4>9, <5>1 DEF Dated
        <5> QED
          BY <4>3, <4>10, <5>2
      <4> HIDE DEF n
      <4> QED
        BY <4>2, <4>9, <4>10, <4>11 DEF Dated
    <3> QED
      BY <3>1, <3>2
  <2>9. CounterExplains(u)'
    <3>1. Taken(u)' = c /\ c # 0 /\ Len(tries'[u]) = m
      BY <2>2, <2>4, <2>5 DEF Taken
    <3>2. /\ throttle'[u].start <= clock'
          /\ \A i \in 1..Len(tries'[u]) : tries'[u][i].now <= throttle'[u].start + Window
          /\ \A i \in 1..Len(tries'[u]) : i <= Len(tries'[u]) - Taken(u)' =>
               tries'[u][i].now < throttle'[u].start
          /\ \A i \in 1..Len(tries'[u]) : i <= Len(tries'[u]) - Taken(u)' - LoginEmailLimit =>
               tries'[u][i].now + Window < throttle'[u].start
      <4> HIDE DEF n
      <4> QED
        BY <1>3, <2>5, <2>6, <3>1
    <3> QED
      BY <2>5, <3>1, <3>2 DEF CounterExplains
  <2>7. ASSUME NEW i \in 1..(Len(tries'[u]) - 2 * LoginEmailLimit)
        PROVE  tries'[u][i + 2 * LoginEmailLimit].at - tries'[u][i].now > Window
    <3>1. i \in 1..n /\ i + 2 * LoginEmailLimit \in 1..(n + 1) /\ i \in 1..(n + 1)
      BY <1>8, <2>2
    <3>2. CASE i + 2 * LoginEmailLimit = n + 1
      <4>1. tries'[u][i + 2 * LoginEmailLimit].at = clock
        BY <2>2, <2>3, <3>2
      <4>2. tries'[u][i].now + Window < clock /\ tries'[u][i].now \in Nat
        BY <1>8, <2>2, <2>5, <2>6, <3>1, <3>2
      <4>3. \A x, y, z \in Nat : x + y < z => z - x > y
        OBVIOUS
      <4> QED
        BY <1>2, <1>8, <4>1, <4>2, <4>3
    <3>3. CASE i + 2 * LoginEmailLimit # n + 1
      <4>1. i + 2 * LoginEmailLimit \in 1..n /\ i \in 1..(n - 2 * LoginEmailLimit)
        <5>1. n \in Nat
          BY <1>8
        <5> HIDE DEF n
        <5> QED
          BY <1>8, <3>1, <3>3, <5>1
      <4>2. tries[u][i + 2 * LoginEmailLimit].at - tries[u][i].now > Window
        BY <4>1 DEF ThrottleInv, TriesAreBounded
      <4> HIDE DEF n
      <4> QED
        BY <2>2, <3>1, <4>1, <4>2
    <3> QED
      BY <3>2, <3>3
  <2>8. TriesAreBounded'
    <3>1. ASSUME NEW v \in Users, v # u, NEW i \in 1..(Len(tries'[v]) - 2 * LoginEmailLimit)
          PROVE  tries'[v][i + 2 * LoginEmailLimit].at - tries'[v][i].now > Window
      BY <1>7, <3>1 DEF ThrottleInv, TriesAreBounded
    <3> QED
      BY <2>7, <3>1 DEF TriesAreBounded
  <2> QED
    BY <1>11, <2>8, <2>9
<1> QED
  BY <1>12, <1>13

\* Before anything has happened, no counter has counted.
LEMMA InitThrottle == Init => ThrottleInv
<1> SUFFICES ASSUME Init PROVE ThrottleInv
  OBVIOUS
<1>1. TypeOK
  BY InitTyped
<1>2. TimesArePast
  BY DEF Init, Idle, TimesArePast
<1>3. ASSUME NEW u \in Users PROVE tries[u] = << >> /\ throttle[u].attempts = 0
  BY DEF Init, Keys
<1>4. \A u \in Users : CounterExplains(u)
  BY <1>3 DEF CounterExplains
<1>5. TriesAreBounded
  <2> SUFFICES ASSUME NEW u \in Users, NEW i \in 1..(Len(tries[u]) - 2 * LoginEmailLimit)
               PROVE  FALSE
    BY DEF TriesAreBounded
  <2>1. Len(tries[u]) = 0 /\ LoginEmailLimit \in Nat
    BY <1>3, LimitAssumption
  <2> QED
    BY <2>1
<1> QED
  BY <1>1, <1>2, <1>4, <1>5 DEF ThrottleInv

\* Every step but LoginHitsEmail leaves the counters of the accounts and the tries alone.
LEMMA OthersLeaveCounters ==
  ASSUME ThrottleInv, TypeOK', tries' = tries, clock <= clock',
         \A u \in Users : throttle'[u] = throttle[u]
  PROVE  (\A u \in Users : CounterExplains(u)') /\ TriesAreBounded'
<1>1. \A u \in Users : CounterExplains(u)'
  BY CounterKept DEF ThrottleInv
<1>2. TriesAreBounded'
  BY DEF TriesAreBounded, ThrottleInv
<1> QED
  BY <1>1, <1>2

\* A request that goes to the counter of its account takes the time; nobody else's changes.
LEMMA StepKeepsWaits ==
  ASSUME ThrottleInv, clock' = clock, NEW r \in Requests, NEW q,
         request' = [request EXCEPT ![r] = q], q.pc # "email" \/ q.now = clock
  PROVE  TimesArePast'
<1>1. clock \in Nat
  BY LimitAssumption DEF ThrottleInv, TypeOK
<1>2. ASSUME NEW s \in Requests, request'[s].pc = "email"
      PROVE  request'[s].now <= clock'
  <2>1. CASE s = r
    <3>1. request'[s] = q
      BY <2>1 DEF ThrottleInv, TypeOK
    <3> QED
      BY <1>1, <1>2, <3>1
  <2>2. CASE s # r
    <3>1. request'[s] = request[s]
      BY <2>2 DEF ThrottleInv, TypeOK
    <3> QED
      BY <1>2, <3>1 DEF ThrottleInv, TimesArePast
  <2> QED
    BY <2>1, <2>2
<1> QED
  BY <1>2 DEF TimesArePast

\* What a step of a request leaves it with.
LEMMA RequestMoves ==
  ASSUME ThrottleInv, NEW r \in Requests, Starts(r) \/ GoesOn(r) \/ RollsBack(r)
  PROVE  /\ clock' = clock
         /\ \E q : /\ request' = [request EXCEPT ![r] = q]
                   /\ q.pc # "email" \/ q.now = clock
<1>1. \A pc : Goes(r, pc) => \E q : /\ request' = [request EXCEPT ![r] = q]
                                    /\ q.pc # "email" \/ q.now = clock
  <2> TAKE pc
  <2> HAVE Goes(r, pc)
  <2>1. request \in [Requests -> [pc: Pcs, token: Nat, user: Users \cup {Nobody},
                                  guess: Nat, now: Nat]]
    BY DEF ThrottleInv, TypeOK
  <2> DEFINE q == [request[r] EXCEPT !.pc = pc, !.now = IF pc = "email" THEN clock ELSE 0]
  <2>2. request' = [request EXCEPT ![r] = q]
    BY <2>1 DEF Goes
  <2>3. q.pc # "email" \/ q.now = clock
    BY <2>1
  <2> QED
    BY <2>2, <2>3
<1>2. Ends(r) => \E q : /\ request' = [request EXCEPT ![r] = q]
                        /\ q.pc # "email" \/ q.now = clock
  <2> HAVE Ends(r)
  <2>1. request' = [request EXCEPT ![r] = Idle] /\ Idle.pc # "email"
    BY DEF Ends, Idle
  <2> QED
    BY <2>1
<1>3. Starts(r) => \E q : /\ request' = [request EXCEPT ![r] = q]
                          /\ q.pc # "email" \/ q.now = clock
  <2>1. CASE AskCsrf(r)
    <3>1. PICK token : request' = [request EXCEPT ![r] =
                         [Idle EXCEPT !.pc = "csrf", !.token = token, !.now = clock]]
      BY <2>1 DEF AskCsrf
    <3>2. [Idle EXCEPT !.pc = "csrf", !.token = token, !.now = clock].pc # "email"
      BY DEF Idle
    <3> QED
      BY <3>1, <3>2
  <2>2. CASE LoginReads(r)
    <3>1. PICK token, u, guess : request' = [request EXCEPT ![r] =
            [pc |-> "ip", token |-> token, user |-> u, guess |-> guess, now |-> clock]]
      BY <2>2 DEF LoginReads
    <3>2. [pc |-> "ip", token |-> token, user |-> u, guess |-> guess, now |-> clock].pc # "email"
      OBVIOUS
    <3> QED
      BY <3>1, <3>2
  <2>3. CASE LogoutReads(r)
    <3>1. PICK token : request' = [request EXCEPT ![r] =
                         [Idle EXCEPT !.pc = "logout", !.token = token]]
      BY <2>3 DEF LogoutReads
    <3>2. [Idle EXCEPT !.pc = "logout", !.token = token].pc # "email"
      BY DEF Idle
    <3> QED
      BY <3>1, <3>2
  <2> QED
    BY <2>1, <2>2, <2>3 DEF Starts
<1> QED
  BY <1>1, <1>2, <1>3
  DEF Starts, AskCsrf, LoginReads, LogoutReads, RollsBack, GoesOn, CsrfHits, CsrfAnswers,
      LogoutCommits, LoginHitsIp, LoginHitsEmail, Verifies, LoginLocks, LoginCommits

\* The counters of the accounts are those of LoginHitsEmail.
LEMMA OtherCounters ==
  ASSUME ThrottleInv, NEW r \in Requests,
         Starts(r) \/ GoesOn(r) \/ RollsBack(r), ~LoginHitsEmail(r)
  PROVE  tries' = tries /\ \A u \in Users : throttle'[u] = throttle[u]
<1>1. \A u \in Users : u # CsrfKey /\ u # IpKey
  BY UserAssumption
<1>2. \A key \in {CsrfKey, IpKey}, now \in Nat :
        Hit(key, now) => \A u \in Users : throttle'[u] = throttle[u]
  BY <1>1 DEF Hit, ThrottleInv, TypeOK, Keys
<1>3. request[r].now \in Nat
  BY DEF ThrottleInv, TypeOK
<1> QED
  BY <1>2, <1>3
  DEF Starts, AskCsrf, LoginReads, LogoutReads, RollsBack, GoesOn, CsrfHits, CsrfAnswers,
      LogoutCommits, LoginHitsIp, Verifies, LoginLocks, LoginCommits

\* What counters say of tries survives every step.
LEMMA NextThrottle == ThrottleInv /\ [Next]_vars => ThrottleInv'
<1> SUFFICES ASSUME ThrottleInv, [Next]_vars PROVE ThrottleInv'
  OBVIOUS
<1>1. TypeOK'
  BY NextTyped DEF ThrottleInv
<1>2. ASSUME NEW r \in Requests, Starts(r) \/ GoesOn(r) \/ RollsBack(r)
      PROVE  ThrottleInv'
  <2>1. clock' = clock /\ clock \in Nat
    <3>1. clock' = clock
      BY <1>2, RequestMoves
    <3>2. clock \in 0..MaxClock /\ MaxClock \in Nat
      BY LimitAssumption DEF ThrottleInv, TypeOK
    <3> QED
      BY <3>1, <3>2
  <2>2. TimesArePast'
    BY <1>2, <2>1, RequestMoves, StepKeepsWaits
  <2>3. CASE LoginHitsEmail(r)
    BY <1>1, <2>2, <2>3, EmailHit DEF ThrottleInv
  <2>4. CASE ~LoginHitsEmail(r)
    <3>1. tries' = tries /\ \A u \in Users : throttle'[u] = throttle[u]
      BY <1>2, <2>4, OtherCounters
    <3> QED
      BY <1>1, <2>1, <2>2, <3>1, OthersLeaveCounters DEF ThrottleInv
  <2> QED
    BY <2>3, <2>4
<1>3. CASE Tick
  <2>1. clock \in Nat /\ clock' = clock + 1
    BY <1>3, LimitAssumption DEF Tick, ThrottleInv, TypeOK
  <2>2. ASSUME NEW r \in Requests, request'[r].pc = "email"
        PROVE  request'[r].now <= clock'
    <3>1. request'[r] = request[r] /\ request[r].now \in Nat
      BY <1>3 DEF Tick, ThrottleInv, TypeOK
    <3>2. request[r].now <= clock
      BY <2>2, <3>1 DEF ThrottleInv, TimesArePast
    <3> QED
      BY <2>1, <3>1, <3>2
  <2>3. TimesArePast'
    BY <2>2 DEF TimesArePast
  <2>4. tries' = tries /\ \A u \in Users : throttle'[u] = throttle[u]
    BY <1>3 DEF Tick
  <2> QED
    BY <1>1, <2>1, <2>3, <2>4, OthersLeaveCounters DEF ThrottleInv
<1>4. CASE (\E u \in Users : Deactivate(u) \/ ChangePassword(u)) \/ UNCHANGED vars
  <2>1. /\ clock' = clock /\ request' = request /\ tries' = tries /\ throttle' = throttle
        /\ clock \in Nat
    BY <1>4, LimitAssumption
    DEF Deactivate, ChangePassword, vars, ThrottleInv, TypeOK
  <2>2. TimesArePast'
    BY <2>1 DEF TimesArePast, ThrottleInv
  <2> QED
    BY <1>1, <2>1, <2>2, OthersLeaveCounters DEF ThrottleInv
<1> QED
  BY <1>2, <1>3, <1>4 DEF Next

\* Of the attempts that take the time and have their turn within one stretch as long as a
\* window, no more than twice the limit get their password checked: for any limits, windows
\* and waits, since what a window of the counter admits is dated before its end and the next
\* but one starts more than a window later (auth/security.py:99-120).
THEOREM TriesStayBounded == Spec => []TriesAreBounded
<1>1. ThrottleInv => TriesAreBounded
  BY DEF ThrottleInv
<1> QED
  BY InitThrottle, NextThrottle, <1>1, PTL DEF Spec
=============================================================================
