------------------------------ MODULE HintFIFO ------------------------------
(***************************************************************************)
(* What the hinted-handoff queue promises: "byte slices can be appended    *)
(* and read back in-order" (services/hh/queue.go), and the oldest ones may *)
(* be dropped for their age.  Hints are numbered in the order in which     *)
(* their Append was acknowledged; one whose write failed is acknowledged   *)
(* all the same, and known to be lost.                                     *)
(***************************************************************************)
EXTENDS Integers

VARIABLES
  appended,   \* how many hints were acknowledged
  pending,    \* those that are still to be read
  lost        \* those that were never written

vars == <<appended, pending, lost>>

Init == appended = 0 /\ pending = {} /\ lost = {}

Put ==
  /\ appended' = appended + 1
  /\ pending' = pending \cup {appended + 1}
  /\ UNCHANGED lost

\* Append drops a write error.
Lose ==
  /\ appended' = appended + 1
  /\ lost' = lost \cup {appended + 1}
  /\ UNCHANGED pending

\* Only the oldest pending hint can be advanced past.
Take ==
  /\ \E h \in pending : (\A g \in pending : h <= g) /\ pending' = pending \ {h}
  /\ UNCHANGED <<appended, lost>>

\* A purge drops hints for their age: the oldest ones.
Expire ==
  /\ \E old \in SUBSET pending : /\ \A h \in old, g \in pending \ old : h < g
                                /\ pending' = pending \ old
  /\ UNCHANGED <<appended, lost>>

Next == Put \/ Lose \/ Take \/ Expire

Spec == Init /\ [][Next]_vars
=============================================================================
