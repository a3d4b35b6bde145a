----------------------------- MODULE MCDccSend -----------------------------
(* Instances of DccSend for TLC: the constants are numbers.                *)
EXTENDS DccSend
=============================================================================
