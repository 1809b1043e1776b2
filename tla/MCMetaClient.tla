---------------------------- MODULE MCMetaClient ----------------------------
(* Instances of MetaClient for TLC. *)
EXTENDS MetaClient

CONSTANTS m1, m2, a, b
OneServer == <<m1>>
TwoServers == <<m1, m2>>

=============================================================================
