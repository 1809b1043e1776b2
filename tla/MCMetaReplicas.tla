--------------------------- MODULE MCMetaReplicas ---------------------------
(* Instances of MetaReplicas for TLC. *)
EXTENDS MetaReplicas

NoMetaIDs == <<>>
FarBeforeZero == -36

=============================================================================
