------------------------------ MODULE MCDccGet ------------------------------
(* Instances of DccGet for TLC.                                            *)
EXTENDS DccGet
=============================================================================
