----------------------------- MODULE MCHHQueue -----------------------------
(* Model checking of HHQueue. *)
EXTENDS HHQueue

\* Five segments have names of one digit: what the refinement of HintFIFO assumes.
ASSUME NamesInOrder
=============================================================================
