--------------------------- MODULE MCEpochTracker ---------------------------
(* Instances of EpochTracker for TLC. *)
EXTENDS EpochTracker

=============================================================================
