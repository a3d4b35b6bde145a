---------------------------- MODULE MCDaemonFork ----------------------------
(* Instances of DaemonFork for TLC.                                        *)
EXTENDS DaemonFork, TLC

(* Connections are interchangeable, and so are user names.  Only used      *)
(* where no temporal property is checked.                                  *)
Symmetry == Permutations(Conns) \cup Permutations(Users)
=============================================================================
