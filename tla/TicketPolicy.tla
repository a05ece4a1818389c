---------------------------- MODULE TicketPolicy ----------------------------
(***************************************************************************)
(* The workflow policy that every writer of tickets.status goes by.        *)
(***************************************************************************)

Statuses == {"OPEN", "IN_PROGRESS", "WAITING_FOR_CUSTOMER",
             "WAITING_FOR_PROVIDER", "RESOLVED", "CLOSED"}
Completed == {"RESOLVED", "CLOSED"}
Priorities == {"LOW", "MEDIUM", "HIGH", "URGENT"}

ALLOWED_TRANSITIONS ==
  [ OPEN |-> {"IN_PROGRESS", "WAITING_FOR_CUSTOMER", "WAITING_FOR_PROVIDER", "RESOLVED"},
    IN_PROGRESS |-> {"WAITING_FOR_CUSTOMER", "WAITING_FOR_PROVIDER", "RESOLVED"},
    WAITING_FOR_CUSTOMER |-> {"IN_PROGRESS", "WAITING_FOR_PROVIDER", "RESOLVED"},
    WAITING_FOR_PROVIDER |-> {"IN_PROGRESS", "WAITING_FOR_CUSTOMER", "RESOLVED"},
    RESOLVED |-> {"IN_PROGRESS", "CLOSED"},
    CLOSED |-> {"IN_PROGRESS"} ]

\* A closed ticket is reopened only with a reason.
ValidTransition(old, new, reason) ==
  \/ old = new
  \/ /\ new \in ALLOWED_TRANSITIONS[old]
     /\ (old = "CLOSED" /\ new = "IN_PROGRESS") => reason
=============================================================================
