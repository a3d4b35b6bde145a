------------------------------- MODULE MCHttp -------------------------------
(* An instance of Http for TLC.                                            *)
EXTENDS Http
=============================================================================
