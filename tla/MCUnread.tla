------------------------------- MODULE MCUnread -------------------------------
(* Unread on a small instance.                                               *)
EXTENDS Unread
=============================================================================
