----------------------------- MODULE MCAutoSend -----------------------------
(* AutoSend on a small instance of two outreach consumers.                 *)
EXTENDS AutoSend

CONSTANTS w1, w2

Mishaps == [b \in Booking |-> IF b = "unparsable" THEN 0 ELSE 2]
=============================================================================
