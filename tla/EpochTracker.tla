---------------------------- MODULE EpochTracker ----------------------------
(***************************************************************************)
(* The epoch tracker of a shard (tsdb/epoch_tracker.go, guard.go), as      *)
(* Store.WriteToShard, DeleteSeries and DeleteMeasurement use it: a write  *)
(* and a delete that touches the same measurement do not overlap, while    *)
(* other writes and deletes run side by side.                              *)
(*                                                                         *)
(* A write is known by the measurements of its points, a guard by the      *)
(* measurements it was made for; its time range and its condition only     *)
(* narrow what it matches and are part of the choice of measurements.      *)
(***************************************************************************)
EXTENDS Naturals, FiniteSets

CONSTANTS
  Writers,    \* goroutines that call Store.WriteToShard
  Deleters,   \* goroutines that call Store.DeleteSeries or DeleteMeasurement
  Names,      \* measurements
  MaxEpoch    \* bound: epochs

ASSUME EpochAssumption == IsFiniteSet(Writers) /\ MaxEpoch \in Nat

VARIABLES
  epoch, largest, writes,   \* fields of epochTracker
  deletes,                  \* epochTracker.deletes: gen -> [names, pending]
  done,                     \* the gens of the guards whose done is set
  wr,                       \* writer -> [pc, gen, names, guards]
  dl                        \* deleter -> [pc, gen, names]
vars == <<epoch, largest, writes, deletes, done, wr, dl>>

\* guard.Matches: a guard without names matches every point.
Matches(guard, names) == guard = {} \/ guard \cap names # {}

IdleWriter == [pc |-> "idle", gen |-> 0, names |-> {}, guards |-> {}]
IdleDeleter == [pc |-> "idle", gen |-> 0, names |-> {}]

Init ==
  /\ epoch = 0 /\ largest = 0 /\ writes = 0
  /\ deletes = [g \in {} |-> [names |-> {}, pending |-> 0]]
  /\ done = {}
  /\ wr = [w \in Writers |-> IdleWriter]
  /\ dl = [d \in Deleters |-> IdleDeleter]

-----------------------------------------------------------------------------
(* Store.WriteToShard *)

\* StartWrite, and which of the guards it returns match the points.
StartWrite(w, names) ==
  /\ wr[w].pc = "idle" /\ epoch < MaxEpoch
  /\ epoch' = epoch + 1
  /\ writes' = writes + 1
  /\ wr' = [wr EXCEPT ![w] = [pc |-> "wait", gen |-> epoch + 1, names |-> names,
       guards |-> {g \in DOMAIN deletes : Matches(deletes[g].names, names)}]]
  /\ UNCHANGED <<largest, deletes, done, dl>>

\* Mutant: the write does not wait for the guards.
GuardsWaitNot(w) ==
  /\ wr[w].pc = "wait"
  /\ wr' = [wr EXCEPT ![w].pc = "write"]
  /\ UNCHANGED <<epoch, largest, writes, deletes, done, dl>>

\* guard.Wait has returned for each of them: the points are written.
GuardsWait(w) ==
  /\ wr[w].pc = "wait" /\ wr[w].guards \subseteq done
  /\ wr' = [wr EXCEPT ![w].pc = "write"]
  /\ UNCHANGED <<epoch, largest, writes, deletes, done, dl>>

\* Mutant: no delete is told.
EndWriteNever(w) ==
  /\ wr[w].pc = "write"
  /\ writes' = writes - 1
  /\ wr' = [wr EXCEPT ![w] = IdleWriter]
  /\ UNCHANGED <<epoch, largest, deletes, done, dl>>

\* EndWrite, when the write has returned, with an error or without.
EndWrite(w) ==
  /\ wr[w].pc = "write"
  /\ deletes' = IF wr[w].gen > largest THEN deletes
                ELSE [g \in DOMAIN deletes |->
                        IF wr[w].gen > g THEN deletes[g] ELSE [deletes[g] EXCEPT !.pending = @ - 1]]
  /\ writes' = writes - 1
  /\ wr' = [wr EXCEPT ![w] = IdleWriter]
  /\ UNCHANGED <<epoch, largest, done, dl>>

-----------------------------------------------------------------------------
(* Store.DeleteSeries, Store.DeleteMeasurement *)

WaitDelete(d, names) ==
  /\ dl[d].pc = "idle" /\ epoch < MaxEpoch
  /\ epoch' = epoch + 1
  /\ largest' = epoch + 1
  /\ deletes' = [g \in DOMAIN deletes \cup {epoch + 1} |->
       IF g = epoch + 1 THEN [names |-> names, pending |-> writes] ELSE deletes[g]]
  /\ dl' = [dl EXCEPT ![d] = [pc |-> "wait", gen |-> epoch + 1, names |-> names]]
  /\ UNCHANGED <<writes, done, wr>>

\* epochDeleteState.Wait returns: the series are deleted.
Wait(d) ==
  /\ dl[d].pc = "wait" /\ deletes[dl[d].gen].pending = 0
  /\ dl' = [dl EXCEPT ![d].pc = "delete"]
  /\ UNCHANGED <<epoch, largest, writes, deletes, done, wr>>

\* epochWaiter.Done takes the delete out of the tracker, and then wakes the writes
\* that wait for its guard.
Done(d) ==
  /\ dl[d].pc = "delete"
  /\ deletes' = [g \in DOMAIN deletes \ {dl[d].gen} |-> deletes[g]]
  /\ dl' = [dl EXCEPT ![d].pc = "signal"]
  /\ UNCHANGED <<epoch, largest, writes, done, wr>>

DoneSignal(d) ==
  /\ dl[d].pc = "signal"
  /\ done' = done \cup {dl[d].gen}
  /\ dl' = [dl EXCEPT ![d] = IdleDeleter]
  /\ UNCHANGED <<epoch, largest, writes, deletes, wr>>

Writer(w) == GuardsWait(w) \/ EndWrite(w)
Deleter(d) == Wait(d) \/ Done(d) \/ DoneSignal(d)
Next ==
  \/ \E w \in Writers : Writer(w) \/ \E names \in (SUBSET Names) \ {{}} : StartWrite(w, names)
  \/ \E d \in Deleters : Deleter(d) \/ \E names \in SUBSET Names : WaitDelete(d, names)

Spec == Init /\ [][Next]_vars
\* A write or a delete that is not blocked returns; nobody has to start one.
FairSpec == Spec /\ (\A w \in Writers : WF_vars(Writer(w))) /\ \A d \in Deleters : WF_vars(Deleter(d))

-----------------------------------------------------------------------------
(* Properties *)

Delete == [names : SUBSET Names, pending : Nat]
TypeOK ==
  /\ epoch \in Nat /\ largest \in Nat /\ writes \in Nat
  /\ done \subseteq 1..epoch
  /\ DOMAIN deletes \subseteq 1..epoch /\ deletes \in [DOMAIN deletes -> Delete]
  /\ wr \in [Writers -> [pc : {"idle", "wait", "write"}, gen : 0..epoch,
                         names : SUBSET Names, guards : SUBSET (1..epoch)]]
  /\ dl \in [Deleters -> [pc : {"idle", "wait", "delete", "signal"}, gen : 0..epoch, names : SUBSET Names]]

\* The count of a delete is the number of writes that were under way when it was
\* registered and still are: EndWrite decides by comparing epochs, long after, which
\* deletes counted it.  With a count too high the delete waits forever.
Earlier(g) == {w \in Writers : wr[w].pc # "idle" /\ wr[w].gen < g}
PendingExact == \A g \in DOMAIN deletes : deletes[g].pending = Cardinality(Earlier(g))

\* While the series of a measurement are deleted nothing writes to it: neither a write
\* that was under way when the delete came, nor one that came later, nor one that
\* another delete had held up.
Exclusion == \A w \in Writers, d \in Deleters :
  ~(wr[w].pc = "write" /\ dl[d].pc = "delete" /\ Matches(dl[d].names, wr[w].names))

\* Deletes of a measurement exclude each other: "the guard ensures future deletes that
\* could conflict wait for us" (store.go:1319).
DeletesApart == \A d, e \in Deleters :
  ~(d # e /\ dl[d].pc = "delete" /\ dl[e].pc = "delete" /\ dl[d].names \cap dl[e].names # {})

\* Writes that wait for deletes that wait for writes do not wait in a circle.
CallsReturn ==
  /\ \A w \in Writers : wr[w].pc = "wait" ~> wr[w].pc = "idle"
  /\ \A d \in Deleters : dl[d].pc = "wait" ~> dl[d].pc = "idle"

=============================================================================
