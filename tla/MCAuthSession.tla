---------------------------- MODULE MCAuthSession ----------------------------
(* AuthSession on a small instance: one account, two requests at a time.     *)
EXTENDS AuthSession

\* Bound: from the third instant on, accounts are as they were and what is under way are
\* logins; from the fourth one on only the throttle goes on: nobody has signed in or
\* out, there is one bootstrap session, and the logins guess wrong.
LateIsCalm ==
  /\ clock > 1 =>
       /\ active = Users /\ \A u \in Users : password[u] = 1
       /\ \A r \in Requests : request[r].pc \in {"idle"} \cup LoginPcs
  /\ clock > 2 =>
       /\ revoked = {} /\ Len(sessions) = 1
       /\ \A r \in Requests : request[r].guess = 0
=============================================================================
