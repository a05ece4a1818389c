---------------------------- MODULE TicketLedger ----------------------------
(***************************************************************************)
(* What the ticket write path promises its clients, with no transactions,  *)
(* locks, retries or crashes: every ticket is a serial object.  Each step  *)
(* is one whole write of one ticket, decided and applied on its current    *)
(* value, and it obeys the policy table of ticket_policy.py.               *)
(***************************************************************************)
EXTENDS Naturals, Sequences

CONSTANTS
  Tickets,
  Staff,
  Message    \* what a message says of its sender and visibility

VARIABLES
  status,    \* status of each ticket, NULL before it exists
  version,   \* number of writes the ticket has seen
  thread     \* its messages, oldest first

ledger == <<status, version, thread>>

Follows ==
  [ OPEN |-> {"IN_PROGRESS", "WAITING_FOR_CUSTOMER", "WAITING_FOR_PROVIDER", "RESOLVED"},
    IN_PROGRESS |-> {"WAITING_FOR_CUSTOMER", "WAITING_FOR_PROVIDER", "RESOLVED"},
    WAITING_FOR_CUSTOMER |-> {"IN_PROGRESS", "WAITING_FOR_PROVIDER", "RESOLVED"},
    WAITING_FOR_PROVIDER |-> {"IN_PROGRESS", "WAITING_FOR_CUSTOMER", "RESOLVED"},
    RESOLVED |-> {"IN_PROGRESS", "CLOSED"},
    CLOSED |-> {"IN_PROGRESS"} ]

Explained(t) ==
  \E i \in 1..Len(thread[t]) :
     thread[t][i].visibility = "PUBLIC" /\ thread[t][i].sender \in Staff

Init ==
  /\ status = [t \in Tickets |-> "null"]
  /\ version = [t \in Tickets |-> 0]
  /\ thread = [t \in Tickets |-> << >>]

Count(t) == version' = [version EXCEPT ![t] = version[t] + 1]

Open(t) ==
  /\ version[t] = 0
  /\ status' = [status EXCEPT ![t] = "OPEN"]
  /\ Count(t)
  /\ UNCHANGED thread

\* Priority or assignee: the status stays.
Edit(t) ==
  /\ version[t] > 0
  /\ Count(t)
  /\ UNCHANGED <<status, thread>>

Move(t, new) ==
  /\ version[t] > 0 /\ new \in Follows[status[t]]
  /\ new = "RESOLVED" => Explained(t)
  /\ status' = [status EXCEPT ![t] = new]
  /\ Count(t)
  /\ UNCHANGED thread

\* A message joins the end of the thread.  A customer's is public and takes the
\* ticket back into work; nobody writes publicly on a closed ticket.
Post(t, m) ==
  LET back == m.sender \notin Staff /\ status[t] \in {"WAITING_FOR_CUSTOMER", "RESOLVED"}
  IN  /\ version[t] > 0
      /\ m.sender \notin Staff => m.visibility = "PUBLIC"
      /\ m.visibility = "PUBLIC" => status[t] # "CLOSED"
      /\ thread' = [thread EXCEPT ![t] = Append(thread[t], m)]
      /\ status' = [status EXCEPT ![t] = IF back THEN "IN_PROGRESS" ELSE status[t]]
      /\ Count(t)

Next ==
  \E t \in Tickets :
    \/ Open(t) \/ Edit(t)
    \/ \E new \in DOMAIN Follows : Move(t, new)
    \/ \E m \in Message : Post(t, m)

Spec == Init /\ [][Next]_ledger
=============================================================================
