----------------------------- MODULE MCStorage ------------------------------
(* The store and the engine of one shard, for TLC: each behaviour is one of Store or
   TSMEngine, as picked in MCInit; the variables of the other stay as they are. *)
EXTENDS TSMEngine, Store, TLC

CONSTANTS
    k1, k2, w1, w2

VARIABLES
    part

\* Keys are interchangeable, and so are the engine's writers, who are the store's callers
\* as well.
Symmetry == Permutations(Keys) \cup Permutations(Writers)

MCInit == part \in {"engine", "store"} /\ Init /\ StoreInit

MCNext ==
    \/ part = "engine" /\ Next /\ UNCHANGED <<part, storeVars>>
    \/ part = "store" /\ StoreNext /\ UNCHANGED <<part, vars>>

MCSpec == MCInit /\ [][MCNext]_<<part, vars, storeVars>>
=============================================================================
