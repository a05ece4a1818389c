--------------------------- MODULE MCNotifications ---------------------------
(* Notifications with an e-mail and a queue entry.                            *)
EXTENDS Notifications

CONSTANTS mail, entry, w1, w2, r1, r2
=============================================================================
