---------------------------- MODULE MCHHService ----------------------------
(* Instances of HHService for TLC. *)
EXTENDS HHService

CONSTANTS n1, w1, w2

OneNode == {n1}
TwoWriters == {w1, w2}
OneWriter == {w1}

=============================================================================
