---------------------------- MODULE MCConvQueue ----------------------------
(* Instances of ConvQueue for TLC: the classes are strings.                *)
EXTENDS ConvQueue
=============================================================================
