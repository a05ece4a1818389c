---------------------------- MODULE MCAttachments ----------------------------
(* Attachments with two files of one ticket and one of another.              *)
EXTENDS Attachments

CONSTANTS f1, f2, f3, t1, t2, c1, c2

Homes == [f \in Files |-> IF f = f3 THEN t2 ELSE t1]
=============================================================================
