----------------------------- MODULE AuthSession -----------------------------
(***************************************************************************)
(* Sign-in: bootstrap sessions of GET /auth/csrf, their rotation at        *)
(* POST /auth/login, POST /auth/logout, and the throttle that counts them. *)
(*                                                                         *)
(* A session is known by its token, its index in the table; the CSRF token *)
(* is a function of it.  A password is the number of its hash, since every *)
(* change salts anew; 0 is a wrong guess.  One client address is enough:   *)
(* its counter is one key among others.                                    *)
(***************************************************************************)
EXTENDS Naturals, Sequences, FiniteSets

CONSTANTS
  Users,             \* accounts, known by their e-mail address
  Nobody,            \* the user of a bootstrap session
  Requests,          \* requests that may be under way at once
  BootstrapLimit,    \* BOOTSTRAP_LIMIT
  LoginIpLimit,      \* LOGIN_IP_LIMIT
  LoginEmailLimit,   \* LOGIN_EMAIL_LIMIT
  Window,            \* THROTTLE_WINDOW_SECONDS
  PreauthTtl,        \* preauth_ttl_seconds
  SessionTtl,        \* session_ttl_seconds
  MaxClock,          \* bound: the clock stops here
  MaxSessions,       \* bound: sessions ever created
  MaxPassword        \* bound: passwords of an account

VARIABLES
  sessions,   \* auth_sessions, in the order of their creation
  revoked,    \* the ones with a revoked_at
  active,     \* the users with is_active
  password,   \* their password_hash
  throttle,   \* auth_throttles: one row per key, zero attempts when there is none
  request,    \* what each request has read, and how far it is
  tries,      \* history: the attempts of each user whose password was checked: when they
              \* took the time, and when they had their turn at the counter
  clock

vars == <<sessions, revoked, active, password, throttle, request, tries, clock>>
accountVars == <<active, password>>

CsrfKey == "csrf"
IpKey == "ip"
Keys == Users \cup {CsrfKey, IpKey}

ASSUME UserAssumption == Nobody \notin Users /\ {CsrfKey, IpKey} \cap Users = {}
ASSUME LimitAssumption ==
  /\ {BootstrapLimit, LoginIpLimit, LoginEmailLimit} \subseteq Nat \ {0}
  /\ Window \in Nat \ {0}
  /\ {PreauthTtl, SessionTtl} \subseteq Nat \ {0}
  /\ {MaxClock, MaxSessions, MaxPassword} \subseteq Nat

Idle == [pc |-> "idle", token |-> 0, user |-> Nobody, guess |-> 0, now |-> 0]

Init ==
  /\ sessions = << >> /\ revoked = {}
  /\ active = Users /\ password = [u \in Users |-> 1]
  /\ throttle = [k \in Keys |-> [start |-> 0, attempts |-> 0]]
  /\ request = [r \in Requests |-> Idle]
  /\ tries = [u \in Users |-> << >>]
  /\ clock = 0

-----------------------------------------------------------------------------
(* Sessions.                                                               *)

\* load_session: in the table, not revoked, not expired.
Valid(token) ==
  token \in DOMAIN sessions \ revoked /\ sessions[token].expires > clock

\* get_current_user
Current(token) ==
  Valid(token) /\ sessions[token].user \in active

\* _create_session; from is the bootstrap session that a login has rotated.
Created(user, from) ==
  Append(sessions, [user |-> user, from |-> from, expires |->
    clock + (IF user = Nobody THEN PreauthTtl ELSE SessionTtl)])

\* Where a request goes on; on its way to a counter it takes the time.
Goes(r, pc) ==
  request' = [request EXCEPT ![r].pc = pc, ![r].now = IF pc = "email" THEN clock ELSE 0]
Ends(r) == request' = [request EXCEPT ![r] = Idle]

\* A session row that a login has FOR UPDATE.
Locked(token) == \E r \in Requests : request[r].pc = "locked" /\ request[r].token = token

\* Bound: sessions that are there or under way.
Room == Len(sessions) + Cardinality({r \in Requests : request[r] # Idle}) < MaxSessions

-----------------------------------------------------------------------------
(* hit_throttle                                                            *)

LimitOf(key) ==
  CASE key = CsrfKey -> BootstrapLimit
    [] key = IpKey -> LoginIpLimit
    [] key \in Users -> LoginEmailLimit

\* An attempt that is dated before the window opens another one, too.
Counted_BothWays(key, now) ==
  LET row == throttle[key]
  IN  IF row.attempts = 0 \/ now \notin row.start..(row.start + Window)
      THEN [start |-> now, attempts |-> 1]
      ELSE [row EXCEPT !.attempts = IF @ > LimitOf(key) THEN @ ELSE @ + 1]

\* The row after the upsert; more than one beyond the limit makes no difference.
Counted(key, now) ==
  LET row == throttle[key]
  IN  IF row.attempts = 0 \/ row.start + Window < now THEN [start |-> now, attempts |-> 1]
      ELSE [row EXCEPT !.attempts = IF @ > LimitOf(key) THEN @ ELSE @ + 1]

Hit(key, now) == throttle' = [throttle EXCEPT ![key] = Counted(key, now)]

\* Otherwise 429; the attempt is counted all the same.
Admitted(key, now) == Counted(key, now).attempts <= LimitOf(key)

-----------------------------------------------------------------------------
(* GET /auth/csrf                                                          *)

\* The cookie of the request, if it has one; its instant is taken before the upsert.
AskCsrf(r) ==
  /\ request[r] = Idle /\ Room
  /\ \E token \in {0} \cup DOMAIN sessions :
       request' = [request EXCEPT ![r] = [Idle EXCEPT !.pc = "csrf", !.token = token, !.now = clock]]
  /\ UNCHANGED <<sessions, revoked, accountVars, throttle, tries, clock>>

CsrfHits(r) ==
  /\ request[r].pc = "csrf"
  /\ Hit(CsrfKey, request[r].now)
  /\ IF Admitted(CsrfKey, request[r].now) THEN Goes(r, "asked") ELSE Ends(r)
  /\ UNCHANGED <<sessions, revoked, accountVars, tries, clock>>

\* A session that is still good is kept.
CsrfAnswers(r) ==
  /\ request[r].pc = "asked"
  /\ sessions' = IF Valid(request[r].token) THEN sessions ELSE Created(Nobody, 0)
  /\ Ends(r)
  /\ UNCHANGED <<revoked, accountVars, throttle, tries, clock>>

-----------------------------------------------------------------------------
(* POST /auth/login                                                        *)

\* With whatever session the cookie names.
LoginReads_Unchecked(r) ==
  /\ request[r] = Idle /\ Room
  /\ \E token \in {0} \cup DOMAIN sessions, u \in Users :
       request' = [request EXCEPT ![r] =
         [pc |-> "ip", token |-> token, user |-> u, guess |-> password[u], now |-> clock]]
  /\ UNCHANGED <<sessions, revoked, accountVars, throttle, tries, clock>>

\* _require_csrf reads the session without a lock; any other answer is 403.
LoginReads(r) ==
  /\ request[r] = Idle /\ Room
  /\ \E token \in DOMAIN sessions, u \in Users :
       /\ Valid(token)
       /\ \E guess \in {0, password[u]} :
            request' = [request EXCEPT ![r] =
              [pc |-> "ip", token |-> token, user |-> u, guess |-> guess, now |-> clock]]
  /\ UNCHANGED <<sessions, revoked, accountVars, throttle, tries, clock>>

LoginHitsIp(r) ==
  /\ request[r].pc = "ip"
  /\ Hit(IpKey, request[r].now)
  /\ IF Admitted(IpKey, request[r].now) THEN Goes(r, "email") ELSE Ends(r)
  /\ UNCHANGED <<sessions, revoked, accountVars, tries, clock>>

LoginHitsEmail(r) ==
  LET u == request[r].user
  IN  /\ request[r].pc = "email"
      /\ Hit(u, request[r].now)
      /\ IF Admitted(u, request[r].now)
         THEN /\ Goes(r, "verify")
              /\ tries' = [tries EXCEPT ![u] = Append(@, [now |-> request[r].now, at |-> clock])]
         ELSE Ends(r) /\ UNCHANGED tries
      /\ UNCHANGED <<sessions, revoked, accountVars, clock>>

\* The account is read and the password verified, with nothing locked.
Recognised(r) == request[r].user \in active /\ request[r].guess = password[request[r].user]

Verifies(r) ==
  /\ request[r].pc = "verify"
  /\ IF Recognised(r) THEN Goes(r, "verified") ELSE Ends(r)
  /\ UNCHANGED <<sessions, revoked, accountVars, throttle, tries, clock>>

\* What was read at the beginning is not looked at again.
Usable_AsRead(token) == TRUE

\* The session may be rotated: it is good and nobody's.
Usable(token) == Valid(token) /\ sessions[token].user = Nobody

\* SELECT ... FOR UPDATE of the session, and the check of what it says by now.
LoginLocks(r) ==
  /\ request[r].pc = "verified"
  /\ ~Locked(request[r].token)
  /\ IF Usable(request[r].token) THEN Goes(r, "locked") ELSE Ends(r)
  /\ UNCHANGED <<sessions, revoked, accountVars, throttle, tries, clock>>

\* Without the second look at the account; with a refusal that keeps the lock.
LoginCommits_AsVerified(r) ==
  /\ request[r].pc = "locked"
  /\ revoked' = revoked \cup {request[r].token}
  /\ sessions' = Created(request[r].user, request[r].token)
  /\ Ends(r)
  /\ UNCHANGED <<accountVars, throttle, tries, clock>>
LoginCommits_KeepsLock(r) ==
  /\ request[r].pc = "locked" /\ Recognised(r)
  /\ revoked' = revoked \cup {request[r].token}
  /\ sessions' = Created(request[r].user, request[r].token)
  /\ Ends(r)
  /\ UNCHANGED <<accountVars, throttle, tries, clock>>

\* The account FOR UPDATE and once more, then the rotation; otherwise 401.
LoginCommits(r) ==
  /\ request[r].pc = "locked"
  /\ IF Recognised(r)
     THEN /\ revoked' = revoked \cup {request[r].token}
          /\ sessions' = Created(request[r].user, request[r].token)
     ELSE UNCHANGED <<sessions, revoked>>
  /\ Ends(r)
  /\ UNCHANGED <<accountVars, throttle, tries, clock>>

-----------------------------------------------------------------------------
(* POST /auth/logout, and everything else.                                 *)

\* get_current_user and _require_csrf
LogoutReads(r) ==
  /\ request[r] = Idle
  /\ \E token \in DOMAIN sessions :
       /\ Current(token)
       /\ request' = [request EXCEPT ![r] = [Idle EXCEPT !.pc = "logout", !.token = token]]
  /\ UNCHANGED <<sessions, revoked, accountVars, throttle, tries, clock>>

\* The update waits for a login that has the row.
LogoutCommits(r) ==
  /\ request[r].pc = "logout"
  /\ ~Locked(request[r].token)
  /\ revoked' = revoked \cup {request[r].token}
  /\ Ends(r)
  /\ UNCHANGED <<sessions, accountVars, throttle, tries, clock>>

\* An error or a crash; what has been counted stays counted.
RollsBack(r) ==
  /\ request[r] # Idle
  /\ Ends(r)
  /\ UNCHANGED <<sessions, revoked, accountVars, throttle, tries, clock>>

\* The administrators of the database.
Deactivate(u) ==
  /\ u \in active
  /\ active' = active \ {u}
  /\ UNCHANGED <<sessions, revoked, password, throttle, request, tries, clock>>

ChangePassword(u) ==
  /\ password[u] < MaxPassword
  /\ password' = [password EXCEPT ![u] = @ + 1]
  /\ UNCHANGED <<sessions, revoked, active, throttle, request, tries, clock>>

\* Time passes for everybody, also for those that wait for a connection or for a row.
Tick ==
  /\ clock < MaxClock
  /\ clock' = clock + 1
  /\ UNCHANGED <<sessions, revoked, accountVars, throttle, request, tries>>

-----------------------------------------------------------------------------
Starts(r) == AskCsrf(r) \/ LoginReads(r) \/ LogoutReads(r)
GoesOn(r) ==
  \/ CsrfHits(r) \/ CsrfAnswers(r) \/ LogoutCommits(r)
  \/ LoginHitsIp(r) \/ LoginHitsEmail(r) \/ Verifies(r) \/ LoginLocks(r) \/ LoginCommits(r)

Next ==
  \/ \E r \in Requests : Starts(r) \/ GoesOn(r) \/ RollsBack(r)
  \/ \E u \in Users : Deactivate(u) \/ ChangePassword(u)
  \/ Tick

Spec == Init /\ [][Next]_vars

\* A request goes on; PostgreSQL serves those that wait for a session row in turn.
Fairness == \A r \in Requests : SF_vars(GoesOn(r))

FairSpec == Spec /\ Fairness

-----------------------------------------------------------------------------
(* Properties.                                                             *)

LoginPcs == {"ip", "email", "verify", "verified", "locked"}
Pcs == {"idle", "csrf", "asked", "logout"} \cup LoginPcs

\* The rows are sessions, counters and requests; what is revoked exists, a login under way
\* names an account, and it and a logout have found a session.
TypeOK ==
  /\ sessions \in Seq([user: Users \cup {Nobody}, from: Nat, expires: Nat])
  /\ revoked \subseteq DOMAIN sessions
  /\ active \subseteq Users /\ password \in [Users -> Nat]
  /\ throttle \in [Keys -> [start: Nat, attempts: Nat]]
  /\ \A k \in Keys : throttle[k].attempts <= LimitOf(k) + 1
  /\ request \in [Requests -> [pc: Pcs, token: Nat, user: Users \cup {Nobody},
                               guess: Nat, now: Nat]]
  /\ \A r \in Requests : request[r].pc \in LoginPcs
       => request[r].user \in Users /\ request[r].token \in DOMAIN sessions
  /\ \A r \in Requests : request[r].pc = "logout" => request[r].token \in DOMAIN sessions
  /\ tries \in [Users -> Seq([now: Nat, at: Nat])] /\ clock \in 0..MaxClock

\* A session of a user comes from a bootstrap session, which is revoked by then and from
\* which no other session comes, however many logins rotate it at once, with each other
\* or with a logout (auth/routes.py:197-224: the check without a lock is repeated with one).
BootstrapUsedOnce ==
  \A i \in DOMAIN sessions : sessions[i].user # Nobody =>
    /\ sessions[i].from \in revoked /\ sessions[sessions[i].from].user = Nobody
    /\ \A j \in DOMAIN sessions : sessions[j].from = sessions[i].from => j = i

\* At the instant at which a user gets a session, the account is active and the password
\* is still the one that was typed, whatever happened since it was verified
\* (auth/routes.py:211-220).
GrantsAreCurrent ==
  [][\A i \in DOMAIN sessions' \ DOMAIN sessions :
       LET u == sessions'[i].user
       IN  u # Nobody => /\ u \in active
                         /\ \E r \in Requests : /\ request[r].pc = "locked" /\ request[r].user = u
                                                /\ request[r].token = sessions'[i].from
                                                /\ request[r].guess = password[u]]_vars

\* Of the attempts that take the time within a stretch as long as a window and have their
\* turn in it, no more than twice the limit get their password checked, in whatever order
\* and however late attempts reach the counter: one that has waited comes on top of the
\* stretch in which it is checked, by as much as it has waited
\* (auth/security.py:99-120: the time is taken before the wait for a connection and the row).
TriesAreBounded ==
  \A u \in Users : \A i \in 1..(Len(tries[u]) - 2 * LoginEmailLimit) :
    tries[u][i + 2 * LoginEmailLimit].at - tries[u][i].now > Window

\* Every request ends: whoever has a session row gives it back (auth/routes.py:203-220
\* raises with the row locked).
RequestsEnd == \A r \in Requests : request[r] # Idle ~> request[r] = Idle
=============================================================================
