----------------------------- MODULE MCSlaCycle -----------------------------
(* SlaCycle on small instances: few ticks per target, a second of 2 ticks.    *)
EXTENDS SlaCycle

CONSTANTS t1, t2, w1, w2

Targets(high, low) ==
  [p \in Priorities |-> IF p \in {"HIGH", "URGENT"} THEN high ELSE low]

FirstTargets == Targets(2, 4)
ResolutionTargets == Targets(2, 4)

Move(s) == [kind |-> "patch", status |-> s, priority |-> Keep]
Price(p) == [kind |-> "patch", status |-> Keep, priority |-> p]
MoveAndPrice(s, p) == [kind |-> "patch", status |-> s, priority |-> p]
StaffReply == [kind |-> "staff_reply"]
CustomerReply == [kind |-> "customer_reply"]

\* Pauses, and new priorities inside and outside of them.
PricingRequests ==
  {Move("WAITING_FOR_CUSTOMER"), Move("WAITING_FOR_PROVIDER"), Price("HIGH"), Price("LOW"),
   MoveAndPrice("IN_PROGRESS", "LOW"), CustomerReply}

\* The life of a ticket with pauses, new priorities and reopenings.
LifeRequests ==
  {Move("WAITING_FOR_CUSTOMER"), Move("RESOLVED"), Move("CLOSED"),
   MoveAndPrice("IN_PROGRESS", "LOW"), Price("HIGH"), StaffReply, CustomerReply}

\* Answers and pauses against the scans of two tickets.
ProgressRequests == {Move("WAITING_FOR_CUSTOMER"), StaffReply}
=============================================================================
