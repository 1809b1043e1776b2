---------------------------- MODULE MCTSMEngine ----------------------------
(* TSMEngine alone, for TLC. *)
EXTENDS TSMEngine, TLC

CONSTANTS k1, k2, w1

\* Keys are interchangeable.
Symmetry == Permutations(Keys)
=============================================================================
