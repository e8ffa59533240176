---------------------------- MODULE MCLifetimes -----------------------------
(* The lifetimes with three workers, which are alike.                      *)
EXTENDS Lifetimes, TLC

Symmetry == Permutations(Workers)
=============================================================================
