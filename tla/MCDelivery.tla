----------------------------- MODULE MCDelivery -----------------------------
(* Delivery with the tab of a customer.                                      *)
EXTENDS Delivery

CONSTANTS e1, e2, cust, agent, w1, w2

OwnEvents == [e \in Events |-> cust]
=============================================================================
