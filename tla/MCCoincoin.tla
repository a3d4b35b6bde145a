----------------------------- MODULE MCCoincoin -----------------------------
(* An instance of Coincoin for TLC.                                        *)
EXTENDS Coincoin, TLC

Symmetry == Permutations(Others) \union Permutations(Reqs)
=============================================================================
