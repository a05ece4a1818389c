-------------------------- MODULE MCTicketWorkflow --------------------------
(* Small instances of TicketWorkflow for TLC: one ticket, one customer and   *)
(* one agent, and the requests that each question is about.                  *)
EXTENDS TicketWorkflow, TLC

CONSTANTS t1, t2, cust, agent, k1, f1

Create == [kind |-> "create", actor |-> cust, ticket |-> t1, key |-> k1,
           customer |-> cust, priority |-> "LOW"]
Message(u, v, fs, k) == [kind |-> "message", actor |-> u, ticket |-> t1, key |-> k,
                         visibility |-> v, files |-> fs]
Patch(s, pr, a, why) == [kind |-> "patch", actor |-> agent, ticket |-> t1, status |-> s,
                         priority |-> pr, assignee |-> a, reason |-> why]
Move(s) == Patch(s, Keep, Keep, TRUE)

\* Status moves against replies and notes of both sides; IN_PROGRESS with a new priority,
\* and with an assignment but no reason, which reopens nothing and alone is internal.
RaceRequests ==
  {Create, Message(agent, "PUBLIC", {}, k1), Message(cust, "PUBLIC", {}, k1),
   Message(agent, "INTERNAL", {}, k1),
   Patch("IN_PROGRESS", "HIGH", Keep, TRUE), Patch("IN_PROGRESS", Keep, agent, FALSE)}
    \cup {Move(s) : s \in {"WAITING_FOR_CUSTOMER", "RESOLVED", "CLOSED"}}

\* Retries and reuse of keys: the same creation drawn twice, the same reply, the
\* same key for other content; replies that carry a file.
RetryRequests ==
  {Create, [Create EXCEPT !.ticket = t2], Message(cust, "PUBLIC", {}, k1),
   Message(cust, "PUBLIC", {f1}, k1), Message(agent, "PUBLIC", {f1}, k1)}

Symmetry == Permutations(Procs)
=============================================================================
