-------------------------- MODULE WritePathProofs ---------------------------
(***************************************************************************)
(* Proofs about the path of a write.                                       *)
(* The epoch tracker of a shard: for any number of writers, deleters and   *)
(* measurements, a delete's count is exact, and no write runs into a       *)
(* delete that touches its measurements.                                   *)
(* The points writer: for any shards with any finite number of owners, no  *)
(* goroutine of an owner blocks on its result, no owner is forgotten, and  *)
(* the answer of the request is true of the owners.                        *)
(***************************************************************************)
EXTENDS PointsWriter, EpochTracker, FiniteSetTheorems, TLAPS

(* The epoch tracker *)

Active == {w \in Writers : wr[w].pc # "idle"}
Registered(d) == dl[d].pc \in {"wait", "delete"}

\* epochTracker.writes counts the writes that are under way.
WritesCounted == writes = Cardinality(Active)

\* Epochs are handed out once: a write's is not a delete's, two deletes' differ,
\* and largest is what its comment says.
EpochsApart ==
  /\ \A w \in Active : wr[w].gen # 0 /\ wr[w].gen \notin DOMAIN deletes
  /\ \A g \in DOMAIN deletes : g <= largest
  /\ \A d \in Deleters : dl[d].pc # "idle" => dl[d].gen # 0
  /\ \A d \in Deleters : Registered(d) => \A e \in Deleters : Registered(e) /\ e # d => dl[e].gen # dl[d].gen

\* A delete that is under way is in the map with its guard, which is not done, and
\* nothing it waited for is left once it deletes.
DeletesRegistered ==
  /\ \A d \in Deleters : Registered(d) =>
       dl[d].gen \in DOMAIN deletes /\ deletes[dl[d].gen].names = dl[d].names
  /\ \A d \in Deleters : dl[d].pc = "signal" => dl[d].gen \notin DOMAIN deletes
  /\ \A d \in Deleters : dl[d].pc = "delete" => deletes[dl[d].gen].pending = 0
  /\ done \cap DOMAIN deletes = {}

\* A write that started after a delete was registered has its guard, if it matches.
GuardsKnown ==
  /\ \A w \in Active, d \in Deleters :
       Registered(d) /\ dl[d].gen < wr[w].gen /\ Matches(dl[d].names, wr[w].names) => dl[d].gen \in wr[w].guards
  /\ \A w \in Writers : wr[w].pc = "write" => wr[w].guards \subseteq done

IInv == TypeOK /\ PendingExact /\ WritesCounted /\ EpochsApart /\ DeletesRegistered /\ GuardsKnown

\* The sets that are counted are finite.
LEMMA Finite ==
  ASSUME NEW g
  PROVE  /\ IsFiniteSet(Active) /\ Cardinality(Active) \in Nat
         /\ IsFiniteSet(Earlier(g)) /\ Cardinality(Earlier(g)) \in Nat
<1>1. Active \subseteq Writers /\ Earlier(g) \subseteq Writers  BY DEF Active, Earlier
<1>2. QED  BY <1>1, EpochAssumption, FS_Subset, FS_CardinalityType

\* The initial state.
LEMMA InitIInv == Init => IInv
<1> SUFFICES ASSUME Init PROVE IInv  OBVIOUS
<1> USE DEF Init, IdleWriter, IdleDeleter
<1>1. DOMAIN deletes = {}  OBVIOUS
<1>2. TypeOK  BY <1>1 DEF TypeOK, Delete
<1>3. PendingExact  BY <1>1 DEF PendingExact
<1>4. WritesCounted
  <2>1. Active = {}  BY DEF Active
  <2> QED  BY <2>1, FS_EmptySet DEF WritesCounted
<1>5. EpochsApart  BY <1>1 DEF EpochsApart, Active, Registered
<1>6. DeletesRegistered  BY <1>1 DEF DeletesRegistered, Registered
<1>7. GuardsKnown  BY DEF GuardsKnown, Active, Registered
<1> QED  BY <1>2, <1>3, <1>4, <1>5, <1>6, <1>7 DEF IInv

\* StartWrite: the new write is later than every delete, so that it changes no count,
\* and it gets the guard of each delete that is registered.
LEMMA StartWriteIInv ==
  ASSUME IInv, NEW w \in Writers, NEW names \in SUBSET Names, StartWrite(w, names)
  PROVE  IInv'
<1> DEFINE new == [pc |-> "wait", gen |-> epoch + 1, names |-> names,
                   guards |-> {g \in DOMAIN deletes : Matches(deletes[g].names, names)}]
<1>1. /\ wr[w].pc = "idle" /\ epoch' = epoch + 1 /\ writes' = writes + 1
      /\ wr' = [wr EXCEPT ![w] = new]
      /\ largest' = largest /\ deletes' = deletes /\ done' = done /\ dl' = dl
  BY DEF StartWrite
<1>2. TypeOK
  BY DEF IInv
<1>3. wr'[w] = new /\ \A x \in Writers \ {w} : wr'[x] = wr[x]
  BY <1>1, <1>2 DEF TypeOK
<1>4. Active' = Active \cup {w} /\ w \notin Active
  BY <1>1, <1>3 DEF Active
<1>5. \A g \in DOMAIN deletes : Earlier(g)' = Earlier(g)
  BY <1>1, <1>2, <1>3 DEF TypeOK, Earlier
<1>6. TypeOK'
  <2>1. new \in [pc : {"idle", "wait", "write"}, gen : 0..epoch', names : SUBSET Names, guards : SUBSET (1..epoch')]
    BY <1>1, <1>2 DEF TypeOK
  <2> HIDE DEF new
  <2>2. \A x \in Writers : wr'[x] \in [pc : {"idle", "wait", "write"}, gen : 0..epoch', names : SUBSET Names,
                                      guards : SUBSET (1..epoch')]
    BY <2>1, <1>1, <1>2, <1>3 DEF TypeOK
  <2>3. \A d \in Deleters : dl'[d] \in [pc : {"idle", "wait", "delete", "signal"}, gen : 0..epoch', names : SUBSET Names]
    BY <1>1, <1>2 DEF TypeOK
  <2> QED
    BY <2>2, <2>3, <1>1, <1>2 DEF TypeOK, Delete
<1>7. PendingExact'
  BY <1>1, <1>5 DEF IInv, PendingExact
<1>8. WritesCounted'
  BY <1>1, <1>4, Finite, FS_AddElement, Zenon DEF IInv, WritesCounted
<1>9. EpochsApart'
  BY <1>1, <1>2, <1>3, <1>4, SMTT(30) DEF IInv, EpochsApart, Registered, TypeOK
<1>10. DeletesRegistered'
  BY <1>1, Zenon DEF IInv, DeletesRegistered, Registered
<1>11. GuardsKnown'
  <2>1. ASSUME NEW d \in Deleters, Registered(d), Matches(dl[d].names, names)
        PROVE  dl[d].gen \in new.guards
    BY <2>1, Zenon DEF IInv, DeletesRegistered
  <2> HIDE DEF new
  <2>2. new.names = names /\ new.pc = "wait"
    BY DEF new
  <2> QED
    BY <2>1, <2>2, <1>1, <1>3, <1>4, SMTT(30) DEF IInv, GuardsKnown, Registered
<1> QED
  BY <1>6, <1>7, <1>8, <1>9, <1>10, <1>11, SMTT(30) DEF IInv

\* guard.Wait: only the write's program counter moves.
LEMMA GuardsWaitIInv ==
  ASSUME IInv, NEW w \in Writers, GuardsWait(w)
  PROVE  IInv'
<1>1. /\ wr[w].pc = "wait" /\ wr[w].guards \subseteq done
      /\ wr' = [wr EXCEPT ![w].pc = "write"]
      /\ epoch' = epoch /\ writes' = writes /\ largest' = largest
      /\ deletes' = deletes /\ done' = done /\ dl' = dl
  BY DEF GuardsWait
<1>2. TypeOK
  BY DEF IInv
<1>3. /\ wr'[w].pc = "write" /\ wr'[w].gen = wr[w].gen
      /\ wr'[w].names = wr[w].names /\ wr'[w].guards = wr[w].guards
      /\ \A x \in Writers \ {w} : wr'[x] = wr[x]
  BY <1>1, <1>2 DEF TypeOK
<1>4. Active' = Active /\ \A g : Earlier(g)' = Earlier(g)
  BY <1>1, <1>3 DEF Active, Earlier
<1>5. TypeOK'
  BY <1>1, <1>2 DEF TypeOK, Delete
<1>6. PendingExact' /\ WritesCounted'
  BY <1>1, <1>4 DEF IInv, PendingExact, WritesCounted
<1>7. EpochsApart'
  BY <1>1, <1>3, <1>4 DEF IInv, EpochsApart, Registered, Active
<1>8. DeletesRegistered'
  BY <1>1 DEF IInv, DeletesRegistered, Registered
<1>9. GuardsKnown'
  BY <1>1, <1>3, <1>4 DEF IInv, GuardsKnown, Registered, Active
<1> QED
  BY <1>5, <1>6, <1>7, <1>8, <1>9 DEF IInv

\* EndWrite: the write is taken from the count of those deletes whose epoch is
\* later than its own, which are those that counted it.
LEMMA EndWriteIInv ==
  ASSUME IInv, NEW w \in Writers, EndWrite(w)
  PROVE  IInv'
<1>1. /\ wr[w].pc = "write" /\ writes' = writes - 1 /\ wr' = [wr EXCEPT ![w] = IdleWriter]
      /\ epoch' = epoch /\ largest' = largest /\ done' = done /\ dl' = dl
  BY DEF EndWrite
<1>2. TypeOK /\ w \in Active /\ wr[w].gen \in Nat /\ largest \in Nat /\ DOMAIN deletes \subseteq Nat
  BY <1>1 DEF IInv, TypeOK, Active
<1>3. wr'[w] = IdleWriter /\ \A x \in Writers \ {w} : wr'[x] = wr[x]
  BY <1>1, <1>2, SMTT(30) DEF TypeOK
<1>4. Active' = Active \ {w}
  BY <1>3, SMTT(30) DEF Active, IdleWriter
<1>5. \A g : Earlier(g)' = Earlier(g) \ {w}
  BY <1>3 DEF Earlier, IdleWriter
<1>6. /\ DOMAIN deletes' = DOMAIN deletes
      /\ deletes' = [g \in DOMAIN deletes |-> deletes'[g]]
      /\ \A g \in DOMAIN deletes :
           deletes'[g] = IF wr[w].gen > g THEN deletes[g] ELSE [deletes[g] EXCEPT !.pending = @ - 1]
  <2>1. \A g \in DOMAIN deletes : g <= largest
    BY DEF IInv, EpochsApart
  <2>2. wr[w].gen > largest => \A g \in DOMAIN deletes : wr[w].gen > g
    BY <2>1, <1>2
  <2>3. deletes = [g \in DOMAIN deletes |-> deletes[g]]
    BY <1>2 DEF TypeOK
  <2> QED
    BY <2>2, <2>3 DEF EndWrite
<1>7. \A g \in DOMAIN deletes : deletes[g] = [names |-> deletes[g].names, pending |-> deletes[g].pending]
                             /\ deletes[g].names \in SUBSET Names /\ deletes[g].pending \in Nat
  BY <1>2 DEF TypeOK, Delete
<1>8. ASSUME NEW g \in DOMAIN deletes
      PROVE  /\ deletes'[g].names = deletes[g].names
             /\ deletes'[g].pending = Cardinality(Earlier(g) \ {w})
             /\ deletes'[g] \in Delete
  <2>1. deletes[g].pending = Cardinality(Earlier(g))
    BY DEF IInv, PendingExact
  <2>2. wr[w].gen # g
    BY <1>2 DEF IInv, EpochsApart
  <2>3. w \in Earlier(g) <=> ~(wr[w].gen > g)
    BY <2>2, <1>1, <1>2 DEF Earlier
  <2>4. /\ IsFiniteSet(Earlier(g) \ {w})
        /\ Cardinality(Earlier(g) \ {w}) = IF w \in Earlier(g) THEN Cardinality(Earlier(g)) - 1 ELSE Cardinality(Earlier(g))
    BY Finite, FS_RemoveElement
  <2>5. Cardinality(Earlier(g) \ {w}) \in Nat
    BY <2>4, FS_CardinalityType
  <2>6. deletes'[g] = [names |-> deletes[g].names, pending |-> Cardinality(Earlier(g) \ {w})]
    BY <2>1, <2>3, <2>4, <2>5, <1>6, <1>7
  <2> QED
    BY <2>5, <2>6, <1>7 DEF Delete
<1>9. PendingExact'
  <2> SUFFICES ASSUME NEW g \in DOMAIN deletes PROVE deletes'[g].pending = Cardinality(Earlier(g)')
    BY <1>6 DEF PendingExact
  <2> QED
    BY <1>5, <1>8
<1>10. WritesCounted' /\ writes' \in Nat
  <2>1. IsFiniteSet(Active \ {w}) /\ Cardinality(Active \ {w}) = Cardinality(Active) - 1
    BY <1>2, Finite, FS_RemoveElement
  <2> QED
    BY <2>1, <1>1, <1>4, FS_CardinalityType DEF IInv, WritesCounted
<1>11. TypeOK'
  <2>1. IdleWriter \in [pc : {"idle", "wait", "write"}, gen : 0..epoch, names : SUBSET Names, guards : SUBSET (1..epoch)]
    BY <1>2 DEF IdleWriter, TypeOK
  <2>2. \A g \in DOMAIN deletes' : deletes'[g] \in Delete
    BY <1>6, <1>8, Zenon
  <2> QED
    BY <2>1, <2>2, <1>1, <1>2, <1>3, <1>6, <1>10 DEF TypeOK
<1>12. EpochsApart'
  BY <1>1, <1>3, <1>4, <1>6 DEF IInv, EpochsApart, Registered
<1>13. DeletesRegistered'
  <2>1. ASSUME NEW g \in DOMAIN deletes, deletes[g].pending = 0 PROVE deletes'[g].pending = 0
    <3>1. Earlier(g) = {}
      BY <2>1, Finite, FS_EmptySet DEF IInv, PendingExact
    <3>2. Earlier(g) \ {w} = {}
      BY <3>1
    <3> QED
      BY <3>2, <1>8, FS_EmptySet
  <2>2. \A g \in DOMAIN deletes : deletes'[g].names = deletes[g].names
    BY <1>8, Zenon
  <2>3. /\ \A d \in Deleters : Registered(d)' =>
             dl'[d].gen \in DOMAIN deletes' /\ deletes'[dl'[d].gen].names = dl'[d].names
    BY <2>2, <1>1, <1>6 DEF IInv, DeletesRegistered, Registered
  <2>4. \A d \in Deleters : dl'[d].pc = "delete" => deletes'[dl'[d].gen].pending = 0
    BY <2>1, <1>1, SMTT(30) DEF IInv, DeletesRegistered, Registered
  <2> QED
    BY <2>3, <2>4, <1>1, <1>6 DEF IInv, DeletesRegistered
<1>14. GuardsKnown'
  BY <1>1, <1>3, <1>4 DEF IInv, GuardsKnown, Registered, IdleWriter
<1> QED
  BY <1>9, <1>10, <1>11, <1>12, <1>13, <1>14 DEF IInv

\* WaitDelete: every write that is under way is earlier than the new delete.
LEMMA WaitDeleteIInv ==
  ASSUME IInv, NEW d \in Deleters, NEW names \in SUBSET Names, WaitDelete(d, names)
  PROVE  IInv'
<1> DEFINE new == [pc |-> "wait", gen |-> epoch + 1, names |-> names]
<1>1. /\ dl[d].pc = "idle" /\ epoch' = epoch + 1 /\ largest' = epoch + 1
      /\ dl' = [dl EXCEPT ![d] = new]
      /\ writes' = writes /\ done' = done /\ wr' = wr
  BY DEF WaitDelete
<1>2. TypeOK /\ epoch \in Nat /\ epoch + 1 \notin DOMAIN deletes
  BY DEF IInv, TypeOK
<1>3. dl'[d] = new /\ \A e \in Deleters \ {d} : dl'[e] = dl[e]
  BY <1>1, <1>2, SMTT(30) DEF TypeOK
<1>4. /\ DOMAIN deletes' = DOMAIN deletes \cup {epoch + 1}
      /\ deletes' = [g \in DOMAIN deletes' |-> deletes'[g]]
      /\ deletes'[epoch + 1] = [names |-> names, pending |-> writes]
      /\ \A g \in DOMAIN deletes : deletes'[g] = deletes[g]
  BY <1>2 DEF WaitDelete
<1>5. Active' = Active /\ \A g : Earlier(g)' = Earlier(g)
  BY <1>1 DEF Active, Earlier
<1>6. Earlier(epoch + 1) = Active
  BY <1>2 DEF Earlier, Active, TypeOK
<1>7. TypeOK'
  <2>1. new \in [pc : {"idle", "wait", "delete", "signal"}, gen : 0..epoch', names : SUBSET Names]
    BY <1>1, <1>2
  <2> HIDE DEF new
  <2>2. \A e \in Deleters : dl'[e] \in [pc : {"idle", "wait", "delete", "signal"}, gen : 0..epoch', names : SUBSET Names]
    BY <2>1, <1>1, <1>2, <1>3 DEF TypeOK
  <2>3. \A w \in Writers : wr'[w] \in [pc : {"idle", "wait", "write"}, gen : 0..epoch', names : SUBSET Names,
                                      guards : SUBSET (1..epoch')]
    BY <1>1, <1>2 DEF TypeOK
  <2>4. DOMAIN deletes' \subseteq 1..epoch' /\ \A g \in DOMAIN deletes' : deletes'[g] \in Delete
    BY <1>1, <1>2, <1>4 DEF TypeOK, Delete
  <2> QED
    BY <2>2, <2>3, <2>4, <1>1, <1>2, <1>4 DEF TypeOK
<1>8. PendingExact' /\ WritesCounted'
  BY <1>1, <1>4, <1>5, <1>6, SMTT(30) DEF IInv, PendingExact, WritesCounted
<1>9. EpochsApart'
  <2>1. \A w \in Active : wr[w].gen # epoch + 1
    BY <1>2 DEF Active, TypeOK
  <2>2. \A g \in DOMAIN deletes' : g <= largest'
    BY <1>1, <1>2, <1>4 DEF TypeOK
  <2>3. \A e \in Deleters : dl[e].gen # epoch + 1
    BY <1>2, SMTT(30) DEF TypeOK
  <2> QED
    BY <2>1, <2>2, <2>3, <1>1, <1>2, <1>3, <1>4, <1>5 DEF IInv, EpochsApart, Registered
<1>10. DeletesRegistered'
  <2>1. /\ epoch + 1 \notin done
        /\ \A e \in Deleters : dl[e].gen # epoch + 1
    BY <1>2, SMTT(30) DEF TypeOK
  <2> QED
    BY <2>1, <1>1, <1>2, <1>3, <1>4 DEF IInv, DeletesRegistered, Registered
<1>11. GuardsKnown'
  <2>1. \A w \in Writers : ~(epoch + 1 < wr[w].gen)
    BY <1>2, SMTT(30) DEF TypeOK
  <2>2. \A e \in Deleters : dl'[e].gen = epoch + 1 \/ (dl'[e] = dl[e] /\ (Registered(e)' <=> Registered(e)))
    BY <1>3, SMTT(30) DEF Registered
  <2>3. ASSUME NEW w \in Active, NEW e \in Deleters,
               Registered(e)', dl'[e].gen < wr[w].gen, Matches(dl'[e].names, wr[w].names)
        PROVE  dl'[e].gen \in wr[w].guards
    <3>1. w \in Writers
      BY SMTT(30) DEF Active
    <3>2. dl'[e] = dl[e] /\ Registered(e)
      BY <2>1, <2>2, <2>3, <3>1, SMTT(30)
    <3> QED
      BY <2>3, <3>2 DEF IInv, GuardsKnown
  <2>4. \A w \in Writers : wr'[w].pc = "write" => wr'[w].guards \subseteq done'
    BY <1>1 DEF IInv, GuardsKnown
  <2> QED
    BY <2>3, <2>4, <1>1, <1>5, Zenon DEF GuardsKnown, Matches
<1> QED
  BY <1>7, <1>8, <1>9, <1>10, <1>11, SMTT(30) DEF IInv

\* epochDeleteState.Wait: the count is zero.
LEMMA WaitIInv ==
  ASSUME IInv, NEW d \in Deleters, Wait(d)
  PROVE  IInv'
<1>1. /\ dl[d].pc = "wait" /\ deletes[dl[d].gen].pending = 0
      /\ dl' = [dl EXCEPT ![d].pc = "delete"]
      /\ epoch' = epoch /\ largest' = largest /\ writes' = writes
      /\ deletes' = deletes /\ done' = done /\ wr' = wr
  BY DEF Wait
<1>2. TypeOK
  BY DEF IInv
<1>3. /\ dl'[d].pc = "delete" /\ dl'[d].gen = dl[d].gen /\ dl'[d].names = dl[d].names
      /\ \A e \in Deleters \ {d} : dl'[e] = dl[e]
  BY <1>1, <1>2 DEF TypeOK
<1>4. Active' = Active /\ \A g : Earlier(g)' = Earlier(g)
  BY <1>1 DEF Active, Earlier
<1>5. \A e \in Deleters : (Registered(e)' <=> Registered(e)) /\ dl'[e].gen = dl[e].gen /\ dl'[e].names = dl[e].names
  BY <1>1, <1>3 DEF Registered
<1>6. TypeOK'
  BY <1>1, <1>2 DEF TypeOK, Delete
<1>7. PendingExact' /\ WritesCounted'
  BY <1>1, <1>4 DEF IInv, PendingExact, WritesCounted
<1>8. EpochsApart'
  BY <1>1, <1>3, <1>4, <1>5 DEF IInv, EpochsApart
<1>9. DeletesRegistered'
  BY <1>1, <1>3, <1>5 DEF IInv, DeletesRegistered
<1>10. GuardsKnown'
  BY <1>1, <1>4, <1>5 DEF IInv, GuardsKnown
<1> QED
  BY <1>6, <1>7, <1>8, <1>9, <1>10 DEF IInv

\* epochWaiter.Done: other deletes have other epochs and stay registered.
LEMMA DoneIInv ==
  ASSUME IInv, NEW d \in Deleters, Done(d)
  PROVE  IInv'
<1>1. /\ dl[d].pc = "delete"
      /\ deletes' = [g \in DOMAIN deletes \ {dl[d].gen} |-> deletes[g]]
      /\ dl' = [dl EXCEPT ![d].pc = "signal"]
      /\ epoch' = epoch /\ largest' = largest /\ writes' = writes
      /\ done' = done /\ wr' = wr
  BY DEF Done
<1>2. TypeOK
  BY DEF IInv
<1>3. /\ dl'[d].pc = "signal" /\ dl'[d].gen = dl[d].gen /\ dl'[d].names = dl[d].names
      /\ \A e \in Deleters \ {d} : dl'[e] = dl[e]
  BY <1>1, <1>2 DEF TypeOK
<1>4. Active' = Active /\ \A g : Earlier(g)' = Earlier(g)
  BY <1>1 DEF Active, Earlier
<1>5. /\ DOMAIN deletes' = DOMAIN deletes \ {dl[d].gen}
      /\ \A g \in DOMAIN deletes' : g \in DOMAIN deletes /\ deletes'[g] = deletes[g]
  BY <1>1
<1>6. \A e \in Deleters : Registered(e)' => e # d /\ Registered(e) /\ dl'[e] = dl[e] /\ dl[e].gen # dl[d].gen
  BY <1>1, <1>3 DEF IInv, EpochsApart, Registered
<1>7. TypeOK'
  BY <1>1, <1>2, <1>5 DEF TypeOK, Delete
<1>8. PendingExact' /\ WritesCounted'
  BY <1>1, <1>4, <1>5 DEF IInv, PendingExact, WritesCounted
<1>9. EpochsApart'
  BY <1>1, <1>3, <1>4, <1>5, <1>6, SMTT(30) DEF IInv, EpochsApart
<1>10. DeletesRegistered'
  <2>1. \A e \in Deleters : Registered(e)' =>
          dl'[e].gen \in DOMAIN deletes' /\ deletes'[dl'[e].gen] = deletes[dl[e].gen] /\ dl'[e] = dl[e] /\ Registered(e)
    BY <1>5, <1>6, Zenon DEF IInv, DeletesRegistered
  <2>2. \A e \in Deleters : dl'[e].pc = "delete" => Registered(e)' /\ dl'[e] = dl[e]
    BY <1>3 DEF Registered
  <2>3. \A e \in Deleters : dl'[e].pc = "signal" => dl'[e].gen \notin DOMAIN deletes'
    BY <1>3, <1>5, SMTT(30) DEF IInv, DeletesRegistered
  <2>4. \A e \in Deleters : Registered(e)' => deletes'[dl'[e].gen].names = dl'[e].names
    BY <2>1, Zenon DEF IInv, DeletesRegistered
  <2>5. \A e \in Deleters : dl'[e].pc = "delete" => deletes'[dl'[e].gen].pending = 0
    BY <2>1, <2>2 DEF IInv, DeletesRegistered
  <2>6. done' \cap DOMAIN deletes' = {}
    BY <1>1, <1>5 DEF IInv, DeletesRegistered
  <2> QED
    BY <2>1, <2>3, <2>4, <2>5, <2>6, SMTT(30) DEF DeletesRegistered
<1>11. GuardsKnown'
  BY <1>1, <1>4, <1>6 DEF IInv, GuardsKnown
<1> QED
  BY <1>7, <1>8, <1>9, <1>10, <1>11 DEF IInv

\* guard.Done: the epoch is no longer that of a registered delete.
LEMMA DoneSignalIInv ==
  ASSUME IInv, NEW d \in Deleters, DoneSignal(d)
  PROVE  IInv'
<1>1. /\ dl[d].pc = "signal" /\ done' = done \cup {dl[d].gen} /\ dl' = [dl EXCEPT ![d] = IdleDeleter]
      /\ epoch' = epoch /\ largest' = largest /\ writes' = writes /\ deletes' = deletes /\ wr' = wr
  BY DEF DoneSignal
<1>2. TypeOK
  BY DEF IInv
<1>3. dl'[d] = IdleDeleter /\ \A e \in Deleters \ {d} : dl'[e] = dl[e]
  BY <1>1, <1>2 DEF TypeOK
<1>4. Active' = Active /\ \A g : Earlier(g)' = Earlier(g)
  BY <1>1 DEF Active, Earlier
<1>5. dl[d].gen \in 1..epoch /\ dl[d].gen \notin DOMAIN deletes
  BY <1>1, <1>2 DEF IInv, TypeOK, EpochsApart, DeletesRegistered
<1>6. \A e \in Deleters : Registered(e)' => Registered(e) /\ dl'[e] = dl[e]
  BY <1>3 DEF Registered, IdleDeleter
<1>7. TypeOK'
  BY <1>1, <1>2, <1>5 DEF TypeOK, Delete, IdleDeleter
<1>8. PendingExact' /\ WritesCounted'
  BY <1>1, <1>4, SMTT(30) DEF IInv, PendingExact, WritesCounted
<1>9. EpochsApart'
  BY <1>1, <1>3, <1>4, <1>6, SMTT(30) DEF IInv, EpochsApart, IdleDeleter
<1>10. DeletesRegistered'
  BY <1>1, <1>3, <1>5, <1>6, SMTT(30) DEF IInv, DeletesRegistered, IdleDeleter
<1>11. GuardsKnown'
  BY <1>1, <1>4, <1>6, Zenon DEF IInv, GuardsKnown
<1> QED
  BY <1>7, <1>8, <1>9, <1>10, <1>11 DEF IInv

\* Every step keeps the invariant.
LEMMA NextIInv == IInv /\ [Next]_vars => IInv'
<1> SUFFICES ASSUME IInv, [Next]_vars PROVE IInv'
  OBVIOUS
<1>1. CASE UNCHANGED vars
  <2>1. TypeOK' /\ WritesCounted' /\ PendingExact'
    BY <1>1 DEF IInv, TypeOK, PendingExact, WritesCounted, Active, Earlier, vars
  <2>2. EpochsApart' /\ DeletesRegistered'
    BY <1>1 DEF IInv, EpochsApart, DeletesRegistered, Active, Registered, vars
  <2>3. GuardsKnown'
    BY <1>1 DEF IInv, GuardsKnown, Active, Registered, vars
  <2> QED
    BY <2>1, <2>2, <2>3 DEF IInv
<1>2. ASSUME NEW w \in Writers, Writer(w) PROVE IInv'
  BY <1>2, GuardsWaitIInv, EndWriteIInv DEF Writer
<1>3. ASSUME NEW d \in Deleters, Deleter(d) PROVE IInv'
  BY <1>3, WaitIInv, DoneIInv, DoneSignalIInv DEF Deleter
<1> QED
  BY <1>1, <1>2, <1>3, StartWriteIInv, WaitDeleteIInv DEF Next

\* A delete under way whose count is zero has no write before it, and a later one
\* that matches waits for its guard, which is not done.
LEMMA IInvExclusion == IInv => Exclusion
<1> SUFFICES ASSUME IInv, NEW w \in Writers, NEW d \in Deleters,
                    wr[w].pc = "write", dl[d].pc = "delete", Matches(dl[d].names, wr[w].names)
             PROVE  FALSE
  BY DEF Exclusion
<1>1. Registered(d) /\ w \in Active
  BY SMTT(30) DEF Registered, Active
<1>2. /\ dl[d].gen \in DOMAIN deletes /\ deletes[dl[d].gen].pending = 0
      /\ done \cap DOMAIN deletes = {}
  BY <1>1, Zenon DEF IInv, DeletesRegistered
<1>3. Cardinality(Earlier(dl[d].gen)) = 0
  BY <1>2 DEF IInv, PendingExact
<1>4. Earlier(dl[d].gen) = {}
  BY <1>3, Finite, FS_EmptySet
<1>5. ~(wr[w].gen < dl[d].gen)
  BY <1>4 DEF Earlier
<1>6. wr[w].gen # dl[d].gen
  BY <1>1, <1>2 DEF IInv, EpochsApart
<1>7. wr[w].gen \in Nat /\ dl[d].gen \in Nat
  BY SMTT(30) DEF IInv, TypeOK
<1>8. dl[d].gen < wr[w].gen
  BY <1>5, <1>6, <1>7
<1>9. dl[d].gen \in wr[w].guards /\ wr[w].guards \subseteq done
  BY <1>1, <1>8 DEF IInv, GuardsKnown
<1> QED
  BY <1>2, <1>9

\* The fields of the tracker keep their types; no count becomes negative.
THEOREM TypeCorrect == Spec => []TypeOK
<1>1. IInv => TypeOK
  BY DEF IInv
<1> QED
  BY <1>1, InitIInv, NextIInv, PTL DEF Spec

\* A delete waits for exactly the writes that were under way before it.
THEOREM CountsExact == Spec => []PendingExact
<1>1. IInv => PendingExact
  BY DEF IInv
<1> QED
  BY <1>1, InitIInv, NextIInv, PTL DEF Spec

\* No write to a measurement runs while its series are deleted.
THEOREM WritesExcluded == Spec => []Exclusion
BY IInvExclusion, InitIInv, NextIInv, PTL DEF Spec

-----------------------------------------------------------------------------
(* The points writer *)

\* A shard group has finitely many shards, and a shard finitely many owners.
FiniteOwners == IsFiniteSet(Shards) /\ \A s \in Shards : IsFiniteSet(Owners[s])

Replies == {"nil"} \cup Errors

PointsTypeOK ==
  /\ level \in Levels
  /\ request \in {"map", "wait"} \cup Returned
  /\ shard \in [Shards -> [pc : {"idle", "wait", "sent"} \cup Replies, wrote : Nat, got : Nat, failed : BOOLEAN]]
  /\ owner \in [Goroutines -> {"idle", "write", "hint", "ok", "fail", "done"}]
  /\ results \in [Shards -> Seq(BOOLEAN)]
  /\ replies \in Seq(Replies)

\* Nothing was started before MapShards returned.
Unstarted ==
  request = "map" =>
    /\ \A s \in Shards : shard[s].pc = "idle"
    /\ \A g \in Goroutines : owner[g] = "idle"

\* The places in a channel that hold v.
Places(q, v) == {i \in DOMAIN q : q[i] = v}

DoneOf(s) == {o \in Owners[s] : owner[<<s, o>>] = "done"}
Oks(s) == Places(results[s], TRUE)

\* An owner that ended has its result in the channel, or it was taken.
ResultsCounted == \A s \in Shards : shard[s].got + Len(results[s]) = Cardinality(DoneOf(s))

\* The results without error come from owners that count.
OksCount ==
  /\ \A g \in Goroutines : owner[g] = "ok" => g[2] \in Counting(g[1])
  /\ \A s \in Shards : shard[s].wrote + Cardinality(Oks(s)) <= Cardinality(DoneOf(s) \cap Counting(s))

\* The end of a remote owner's write leaves a trace, before its result is sent.
Accounted ==
  \A g \in Goroutines :
    owner[g] \in {"ok", "fail", "done"} /\ g[2] # Local =>
      g \in stored \cup hinted \cup refused \cup unsaved \cup orphaned

Met(s) == shard[s].wrote >= Required(s)
Partly(s) == shard[s].wrote > 0 /\ shard[s].wrote < Required(s)

\* What writeToShard returns fits its counts.
ShardsTrue ==
  \A s \in Shards :
    /\ shard[s].pc \in {"idle", "wait"} => shard[s].wrote = 0 \/ Partly(s)
    /\ shard[s].pc = "nil" => Met(s)
    /\ shard[s].pc = "partial" => Partly(s)

\* While the request waits, a shard that did not meet the level is known by an error
\* that is still to be taken; once it has returned nil, there is none.
RepliesTrue ==
  /\ request = "wait" =>
       \A s \in Sent : Met(s) \/ \E i \in DOMAIN replies : replies[i] # "nil"
  /\ request \in {"nil", "beyond"} => Mapped = Sent /\ \A s \in Sent : Met(s)
  /\ request = "partial" \/ (\E i \in DOMAIN replies : replies[i] = "partial") =>
       \E s \in Sent : Partly(s)

PointsInv == PointsTypeOK /\ Unstarted /\ ResultsCounted /\ OksCount /\ Accounted /\ ShardsTrue /\ RepliesTrue

-----------------------------------------------------------------------------
(* Goroutines, cardinalities, channels                                     *)

\* The goroutines are the pairs of a shard and one of its owners.
LEMMA GoroutinePairs ==
  /\ \A g \in Goroutines : g[1] \in Shards /\ g[2] \in Owners[g[1]] /\ g = <<g[1], g[2]>>
  /\ \A s \in Shards : \A o \in Owners[s] : <<s, o>> \in Goroutines
<1>1. ASSUME NEW g \in Goroutines
      PROVE  g[1] \in Shards /\ g[2] \in Owners[g[1]] /\ g = <<g[1], g[2]>>
  <2>1. PICK s \in Shards : g \in {s} \X Owners[s]  BY DEF Goroutines
  <2>2. QED  BY <2>1
<1>2. ASSUME NEW s \in Shards, NEW o \in Owners[s]
      PROVE  <<s, o>> \in Goroutines
  BY DEF Goroutines
<1>3. QED  BY <1>1, <1>2

\* A set of owners of a shard is finite, and a larger one is not smaller.
LEMMA OwnerSets ==
  ASSUME FiniteOwners, NEW s \in Shards, NEW S \in SUBSET Owners[s], NEW T \in SUBSET S
  PROVE  /\ IsFiniteSet(S) /\ Cardinality(S) \in Nat
         /\ IsFiniteSet(T) /\ Cardinality(T) \in Nat
         /\ Cardinality(T) <= Cardinality(S)
         /\ Cardinality(T) = Cardinality(S) => T = S
<1>1. IsFiniteSet(Owners[s])  BY DEF FiniteOwners
<1>2. IsFiniteSet(S)  BY <1>1, FS_Subset
<1>3. QED  BY <1>2, FS_Subset, FS_CardinalityType

\* The places of a channel's values are finitely many.
LEMMA PlacesFinite ==
  ASSUME NEW S, NEW q \in Seq(S), NEW v
  PROVE  IsFiniteSet(Places(q, v)) /\ Cardinality(Places(q, v)) \in Nat
<1>1. Places(q, v) \subseteq 1 .. Len(q)  BY DEF Places
<1>2. IsFiniteSet(1 .. Len(q))  BY FS_Interval
<1>3. QED  BY <1>1, <1>2, FS_Subset, FS_CardinalityType

\* A result that is sent is one more of its kind.
LEMMA PlacesAppend ==
  ASSUME NEW S, NEW q \in Seq(S), NEW v, NEW b \in S
  PROVE  Cardinality(Places(Append(q, b), v)) = Cardinality(Places(q, v)) + (IF b = v THEN 1 ELSE 0)
<1>1. /\ DOMAIN Append(q, b) = 1 .. Len(q) + 1 /\ DOMAIN q = 1 .. Len(q) /\ Len(q) \in Nat
      /\ \A i \in 1 .. Len(q) : Append(q, b)[i] = q[i]
      /\ Append(q, b)[Len(q) + 1] = b
  OBVIOUS
<1>2. CASE b = v
  <2>1. Places(Append(q, b), v) = Places(q, v) \cup {Len(q) + 1}  BY <1>1, <1>2 DEF Places
  <2>2. Len(q) + 1 \notin Places(q, v)  BY <1>1 DEF Places
  <2>3. QED  BY <2>1, <2>2, <1>2, PlacesFinite, FS_AddElement, Zenon
<1>3. CASE b # v
  <2>1. Places(Append(q, b), v) = Places(q, v)  BY <1>1, <1>3 DEF Places
  <2>2. QED  BY <2>1, <1>3, PlacesFinite
<1>4. QED  BY <1>2, <1>3

\* A result that is taken is one less of its kind.
LEMMA PlacesTail ==
  ASSUME NEW S, NEW q \in Seq(S), NEW v, q # <<>>
  PROVE  Cardinality(Places(q, v)) = Cardinality(Places(Tail(q), v)) + (IF Head(q) = v THEN 1 ELSE 0)
<1> DEFINE rest == Places(q, v) \ {1}
           f == [i \in Places(Tail(q), v) |-> i + 1]
<1>1. /\ Len(q) \in Nat /\ Len(q) > 0 /\ DOMAIN q = 1 .. Len(q) /\ Head(q) = q[1]
      /\ Tail(q) \in Seq(S) /\ DOMAIN Tail(q) = 1 .. Len(q) - 1
      /\ \A i \in 1 .. Len(q) - 1 : Tail(q)[i] = q[i + 1]
  OBVIOUS
<1>2. IsFiniteSet(rest)
      /\ Cardinality(rest) = IF Head(q) = v THEN Cardinality(Places(q, v)) - 1 ELSE Cardinality(Places(q, v))
  <2>1. 1 \in Places(q, v) <=> Head(q) = v  BY <1>1 DEF Places
  <2>2. QED  BY <2>1, PlacesFinite, FS_RemoveElement
<1>3. Cardinality(rest) = Cardinality(Places(Tail(q), v))
  <2>1. \A i \in Places(Tail(q), v) : i \in Int /\ i + 1 \in rest  BY <1>1 DEF Places
  <2>2. \A j \in rest : j - 1 \in Places(Tail(q), v) /\ j \in Int  BY <1>1 DEF Places
  <2>3. f \in Bijection(Places(Tail(q), v), rest)
    <3>1. f \in [Places(Tail(q), v) -> rest]  BY <2>1
    <3>2. \A i, j \in Places(Tail(q), v) : f[i] = f[j] => i = j  BY <2>1
    <3>3. \A j \in rest : \E i \in Places(Tail(q), v) : f[i] = j
      <4> TAKE j \in rest
      <4>1. f[j - 1] = j  BY <2>2
      <4> QED  BY <4>1, <2>2
    <3>4. QED  BY <3>1, <3>2, <3>3 DEF Bijection, Injection, Surjection, IsInjective
  <2>4. ExistsBijection(Places(Tail(q), v), rest)  BY <2>3, Zenon DEF ExistsBijection
  <2>5. IsFiniteSet(Places(Tail(q), v))  BY <1>1, PlacesFinite, Zenon
  <2>6. QED  BY <2>4, <2>5, FS_Bijection
<1>4. Cardinality(Places(q, v)) \in Nat  BY PlacesFinite
<1>5. QED  BY <1>2, <1>3, <1>4

-----------------------------------------------------------------------------
(* The invariant holds at first and is kept by every step                  *)

\* Nothing is started, sent or stored at first.
LEMMA PointsInitInv ==
  ASSUME PointsInit
  PROVE  PointsInv
<1> USE DEF PointsInit
<1>1. \A s \in Shards : DoneOf(s) = {} /\ Oks(s) = {}
  BY GoroutinePairs DEF DoneOf, Oks, Places
<1>2. Sent = {}  BY DEF Sent
<1>3. PointsTypeOK  BY DEF PointsTypeOK, Replies, Errors, Returned
<1>4. Unstarted /\ Accounted  BY DEF Unstarted, Accounted
<1>5. \A s \in Shards : /\ shard[s].got = 0 /\ shard[s].wrote = 0 /\ Len(results[s]) = 0
                        /\ Cardinality(DoneOf(s)) = 0 /\ Cardinality(Oks(s)) = 0
                        /\ Cardinality(DoneOf(s) \cap Counting(s)) = 0
                        /\ shard[s].got + Len(results[s]) = Cardinality(DoneOf(s))
  <2> TAKE s \in Shards
  <2>1. DoneOf(s) = {} /\ Oks(s) = {} /\ DoneOf(s) \cap Counting(s) = {}  BY <1>1
  <2>2. Cardinality(DoneOf(s)) = 0 /\ Cardinality(Oks(s)) = 0 /\ Cardinality(DoneOf(s) \cap Counting(s)) = 0
    BY <2>1, FS_EmptySet, Zenon
  <2>3. QED  BY <2>2
<1>6. \A g \in Goroutines : owner[g] # "ok"  OBVIOUS
<1>7. ShardsTrue  BY DEF ShardsTrue
<1>8. RepliesTrue  BY <1>2 DEF RepliesTrue
<1> HIDE DEF PointsInit
<1>9. ResultsCounted  BY <1>5, Zenon DEF ResultsCounted
<1>10. OksCount  BY <1>5, <1>6 DEF OksCount
<1>11. QED  BY <1>3, <1>4, <1>7, <1>8, <1>9, <1>10 DEF PointsInv

\* More owners count as more is stored and queued.
LEMMA CountingGrows ==
  ASSUME FiniteOwners, NEW s \in Shards,
         level' = level, stored \subseteq stored', hinted \subseteq hinted', orphaned \subseteq orphaned',
         DoneOf(s) \subseteq DoneOf(s)'
  PROVE  /\ Counting(s) \subseteq Counting(s)'
         /\ Cardinality(DoneOf(s) \cap Counting(s)) \in Nat
         /\ Cardinality((DoneOf(s) \cap Counting(s))') \in Nat
         /\ Cardinality(DoneOf(s) \cap Counting(s)) <= Cardinality((DoneOf(s) \cap Counting(s))')
<1>1. Counting(s) \subseteq Counting(s)'  BY DEF Counting, OwnersIn
<1>2. (DoneOf(s) \cap Counting(s))' \in SUBSET Owners[s]  BY DEF DoneOf
<1>3. DoneOf(s) \cap Counting(s) \in SUBSET ((DoneOf(s) \cap Counting(s))')  BY <1>1
<1>4. QED  BY <1>1, <1>2, <1>3, OwnerSets

\* The steps of an owner before it sends its result leave the channels alone.
LEMMA WriteIInv ==
  ASSUME FiniteOwners, PointsInv, NEW g \in Goroutines, WriteLocal(g) \/ WriteRemote(g) \/ QueueHint(g)
  PROVE  PointsInv'
<1>1. /\ UNCHANGED <<level, request, shard, replies, closing, results>>
      /\ \E pc \in {"hint", "ok", "fail"} : owner' = [owner EXCEPT ![g] = pc]
      /\ stored \subseteq stored' /\ hinted \subseteq hinted' /\ orphaned \subseteq orphaned'
      /\ refused \subseteq refused' /\ unsaved \subseteq unsaved'
      /\ owner[g] \in {"write", "hint"}
  BY DEF WriteLocal, WriteRemote, QueueHint, OwnerFrame, Becomes
<1>2. owner' \in [Goroutines -> {"idle", "write", "hint", "ok", "fail", "done"}] /\ owner'[g] # "done"
      /\ \A h \in Goroutines : h # g => owner'[h] = owner[h]
  BY <1>1 DEF PointsInv, PointsTypeOK
<1>3. \A s \in Shards : DoneOf(s)' = DoneOf(s) /\ Oks(s)' = Oks(s)
  BY <1>1, <1>2, GoroutinePairs DEF DoneOf, Oks
<1>4. PointsTypeOK'  BY <1>1, <1>2 DEF PointsInv, PointsTypeOK
<1>5. Unstarted'
  BY <1>1, <1>2 DEF PointsInv, Unstarted
<1>6. ResultsCounted'  BY <1>1, <1>3 DEF PointsInv, ResultsCounted
<1>7. OksCount'
  <2>1. ASSUME NEW h \in Goroutines, owner'[h] = "ok"
        PROVE  h[2] \in Counting(h[1])'
    <3>1. h[1] \in Shards /\ h[2] \in Owners[h[1]] /\ h = <<h[1], h[2]>>  BY GoroutinePairs
    <3>2. CASE h # g
      <4>1. h[2] \in Counting(h[1])  BY <2>1, <3>2, <1>2 DEF PointsInv, OksCount
      <4>2. QED  BY <4>1, <3>1, <1>1, <1>3, CountingGrows, Zenon
    <3>3. CASE h = g
      <4>1. g \in stored' \/ g \in orphaned' \/ (level = "any" /\ g \in hinted')
        BY <2>1, <3>3, <1>2 DEF WriteLocal, WriteRemote, QueueHint, Becomes, PointsInv, PointsTypeOK
      <4>2. QED  BY <4>1, <3>1, <3>3, <1>1 DEF Counting, OwnersIn
    <3>4. QED  BY <3>2, <3>3
  <2>2. ASSUME NEW s \in Shards
        PROVE  shard'[s].wrote + Cardinality(Oks(s)') <= Cardinality((DoneOf(s) \cap Counting(s))')
    <3>1. /\ Cardinality(DoneOf(s) \cap Counting(s)) \in Nat
          /\ Cardinality((DoneOf(s) \cap Counting(s))') \in Nat
          /\ Cardinality(DoneOf(s) \cap Counting(s)) <= Cardinality((DoneOf(s) \cap Counting(s))')
      BY <1>1, <1>3, CountingGrows, Zenon
    <3>2. shard[s].wrote + Cardinality(Oks(s)) <= Cardinality(DoneOf(s) \cap Counting(s))
      BY DEF PointsInv, OksCount
    <3>3. shard[s].wrote \in Nat /\ Cardinality(Oks(s)) \in Nat
      BY PlacesFinite, Zenon DEF PointsInv, PointsTypeOK, Oks
    <3>4. QED  BY <3>1, <3>2, <3>3, <1>1, <1>3
  <2>3. QED  BY <2>1, <2>2 DEF OksCount
<1>8. Accounted'
  <2> SUFFICES ASSUME NEW h \in Goroutines, owner'[h] \in {"ok", "fail", "done"}, h[2] # Local
               PROVE  h \in stored' \cup hinted' \cup refused' \cup unsaved' \cup orphaned'
    BY DEF Accounted
  <2>1. CASE h # g  BY <2>1, <1>1, <1>2 DEF PointsInv, Accounted
  <2>2. CASE h = g
    BY <2>2, <1>2 DEF WriteLocal, WriteRemote, QueueHint, Becomes, PointsInv, PointsTypeOK
  <2>3. QED  BY <2>1, <2>2
<1>9. ShardsTrue'  BY <1>1, Zenon DEF PointsInv, ShardsTrue, Partly, Met, Required
<1>10. RepliesTrue'  BY <1>1, Zenon DEF PointsInv, RepliesTrue, Partly, Met, Required, Sent, Mapped
<1>11. QED  BY <1>4, <1>5, <1>6, <1>7, <1>8, <1>9, <1>10 DEF PointsInv

\* An owner that sends its result is one more that has ended.
LEMMA SendIInv ==
  ASSUME FiniteOwners, PointsInv, NEW g \in Goroutines, SendResult(g)
  PROVE  PointsInv'
<1> DEFINE t == g[1]
           b == owner[g] = "ok"
<1>0. b \in BOOLEAN /\ (b = TRUE <=> owner[g] = "ok")  OBVIOUS
<1>1. t \in Shards /\ g[2] \in Owners[t] /\ g = <<t, g[2]>>  BY GoroutinePairs
<1>2. /\ UNCHANGED <<level, request, shard, replies, closing, disks>>
      /\ results' = [results EXCEPT ![t] = Append(@, b)]
      /\ owner' = [owner EXCEPT ![g] = "done"]
      /\ owner[g] \in {"ok", "fail"}
  BY DEF SendResult, OwnerFrame, Becomes
<1> HIDE DEF b
<1>3. results \in [Shards -> Seq(BOOLEAN)] /\ owner \in [Goroutines -> {"idle", "write", "hint", "ok", "fail", "done"}]
      /\ \A s \in Shards : shard[s].wrote \in Nat /\ shard[s].got \in Nat
  BY DEF PointsInv, PointsTypeOK
<1>4. /\ results' \in [Shards -> Seq(BOOLEAN)]
      /\ results'[t] = Append(results[t], b)
      /\ \A s \in Shards : s # t => results'[s] = results[s]
      /\ owner' \in [Goroutines -> {"idle", "write", "hint", "ok", "fail", "done"}]
      /\ owner'[g] = "done" /\ \A h \in Goroutines : h # g => owner'[h] = owner[h]
  BY <1>0, <1>1, <1>2, <1>3
<1>5. /\ DoneOf(t)' = DoneOf(t) \cup {g[2]} /\ g[2] \notin DoneOf(t)
      /\ \A s \in Shards : s # t => DoneOf(s)' = DoneOf(s)
  <2>1. \A s \in Shards : \A o \in Owners[s] :
          IF s = t /\ o = g[2] THEN <<s, o>> = g ELSE <<s, o>> # g /\ <<s, o>> \in Goroutines
    BY <1>1, GoroutinePairs, Zenon
  <2>2. \A s \in Shards : s # t => DoneOf(s)' = DoneOf(s)  BY <2>1, <1>4 DEF DoneOf
  <2>3. g[2] \notin DoneOf(t)  BY <1>1, <1>2 DEF DoneOf
  <2>4. \A o \in Owners[t] : owner'[<<t, o>>] = "done" <=> owner[<<t, o>>] = "done" \/ o = g[2]
    BY <2>1, <1>1, <1>4, Zenon
  <2>5. DoneOf(t)' = DoneOf(t) \cup {g[2]}  BY <2>4, <1>1 DEF DoneOf
  <2>6. QED  BY <2>2, <2>3, <2>5
<1>6. \A s : Counting(s)' = Counting(s)  BY <1>2 DEF Counting, OwnersIn, disks
<1>7. /\ IsFiniteSet(DoneOf(t)) /\ Cardinality(DoneOf(t)) \in Nat
      /\ IsFiniteSet(DoneOf(t) \cap Counting(t)) /\ Cardinality(DoneOf(t) \cap Counting(t)) \in Nat
  <2>1. DoneOf(t) \in SUBSET Owners[t] /\ DoneOf(t) \cap Counting(t) \in SUBSET DoneOf(t)  BY DEF DoneOf
  <2>2. QED  BY <1>1, <2>1, OwnerSets
<1>8. PointsTypeOK'  BY <1>2, <1>4 DEF PointsInv, PointsTypeOK
<1>9. Unstarted'  BY <1>2, <1>4 DEF PointsInv, Unstarted
<1>10. ResultsCounted'
  <2> SUFFICES ASSUME NEW s \in Shards
               PROVE  shard'[s].got + Len(results'[s]) = Cardinality(DoneOf(s)')
    BY DEF ResultsCounted
  <2>1. shard[s].got + Len(results[s]) = Cardinality(DoneOf(s))  BY DEF PointsInv, ResultsCounted
  <2>2. CASE s # t  BY <2>1, <2>2, <1>2, <1>4, <1>5
  <2>3. CASE s = t
    <3>1. Len(results'[t]) = Len(results[t]) + 1 /\ Len(results[t]) \in Nat  BY <1>0, <1>1, <1>3, <1>4
    <3>2. Cardinality(DoneOf(t)') = Cardinality(DoneOf(t)) + 1  BY <1>5, <1>7, FS_AddElement, Zenon
    <3>3. shard[t].got + Len(results[t]) = Cardinality(DoneOf(t))  BY <2>1, <2>3
    <3>4. shard'[t].got = shard[t].got /\ shard[t].got \in Nat  BY <1>1, <1>2, <1>3
    <3>5. shard'[t].got + Len(results'[t]) = Cardinality(DoneOf(t)')  BY <3>1, <3>2, <3>3, <3>4, <1>7
    <3>6. DoneOf(s)' = DoneOf(t)'  BY <2>3 DEF DoneOf
    <3>7. QED  BY <2>3, <3>5, <3>6
  <2>4. QED  BY <2>2, <2>3
<1>11. OksCount'
  <2>1. ASSUME NEW h \in Goroutines, owner'[h] = "ok" PROVE h[2] \in Counting(h[1])'
    BY <2>1, <1>4, <1>6 DEF PointsInv, OksCount
  <2>2. ASSUME NEW s \in Shards
        PROVE  shard'[s].wrote + Cardinality(Oks(s)') <= Cardinality((DoneOf(s) \cap Counting(s))')
    <3>1. shard[s].wrote + Cardinality(Oks(s)) <= Cardinality(DoneOf(s) \cap Counting(s))
      BY DEF PointsInv, OksCount
    <3>2. CASE s # t
      <4>1. Oks(s)' = Oks(s) /\ (DoneOf(s) \cap Counting(s))' = DoneOf(s) \cap Counting(s)
        BY <3>2, <1>4, <1>5, <1>6, Zenon DEF Oks
      <4>2. QED  BY <3>1, <4>1, <1>2, Zenon
    <3>3. CASE s = t
      <4>1. Cardinality(Oks(t)) \in Nat  BY <1>1, <1>3, PlacesFinite, Zenon DEF Oks
      <4>2. Cardinality(Oks(t)') = Cardinality(Oks(t)) + (IF owner[g] = "ok" THEN 1 ELSE 0)
        <5>1. Cardinality(Places(Append(results[t], b), TRUE))
                = Cardinality(Places(results[t], TRUE)) + (IF b = TRUE THEN 1 ELSE 0)
          <6>1. results[t] \in Seq(BOOLEAN)  BY <1>1, <1>3
          <6>2. QED  BY <6>1, <1>0, PlacesAppend, Zenon
        <5>2. QED  BY <5>1, <1>0, <1>4, Zenon DEF Oks
      <4>3. (DoneOf(t) \cap Counting(t))' = (DoneOf(t) \cap Counting(t)) \cup ({g[2]} \cap Counting(t))
        BY <1>5, <1>6
      <4>4. CASE owner[g] = "ok"
        <5>1. g[2] \in Counting(t)  BY <4>4 DEF PointsInv, OksCount
        <5>2. (DoneOf(t) \cap Counting(t))' = (DoneOf(t) \cap Counting(t)) \cup {g[2]}  BY <4>3, <5>1
        <5>3. Cardinality((DoneOf(t) \cap Counting(t))') = Cardinality(DoneOf(t) \cap Counting(t)) + 1
          BY <5>2, <1>5, <1>7, FS_AddElement, Zenon
        <5>4. QED  BY <3>1, <3>3, <4>1, <4>2, <4>4, <5>3, <1>1, <1>2, <1>3, <1>7
      <4>5. CASE owner[g] # "ok"
        <5>1. /\ Cardinality((DoneOf(t) \cap Counting(t))') \in Nat
              /\ Cardinality(DoneOf(t) \cap Counting(t)) <= Cardinality((DoneOf(t) \cap Counting(t))')
          BY <1>1, <1>2, <1>5, CountingGrows, Zenon DEF disks
        <5>2. QED  BY <3>1, <3>3, <4>1, <4>2, <4>5, <5>1, <1>1, <1>2, <1>3, <1>7
      <4>6. QED  BY <4>4, <4>5
    <3>4. QED  BY <3>2, <3>3
  <2>3. QED  BY <2>1, <2>2 DEF OksCount
<1>12. Accounted'  BY <1>2, <1>4 DEF PointsInv, Accounted, disks
<1>13. ShardsTrue'  BY <1>2, Zenon DEF PointsInv, ShardsTrue, Partly, Met, Required
<1>14. RepliesTrue'  BY <1>2, Zenon DEF PointsInv, RepliesTrue, Partly, Met, Required, Sent, Mapped
<1>15. QED  BY <1>8, <1>9, <1>10, <1>11, <1>12, <1>13, <1>14 DEF PointsInv

\* What a channel holds after a receive.
LEMMA AfterReceive ==
  ASSUME NEW S, NEW q \in Seq(S), q # <<>>
  PROVE  Head(q) \in S /\ Tail(q) \in Seq(S) /\ Len(q) \in Nat /\ Len(Tail(q)) = Len(q) - 1
OBVIOUS

\* What writeToShard asks for is a number.
LEMMA RequiredType ==
  ASSUME FiniteOwners, PointsTypeOK, NEW s \in Shards
  PROVE  Required(s) \in Int
<1>1. Cardinality(Owners[s]) \in Nat  BY FS_CardinalityType DEF FiniteOwners
<1>2. QED  BY <1>1 DEF PointsTypeOK, Levels, Required

\* A shard's result is taken, or it gives up, or it answers the request.
LEMMA ShardIInv ==
  ASSUME FiniteOwners, PointsInv, NEW t \in Shards, Shard(t)
  PROVE  PointsInv'
<1>1. UNCHANGED <<level, request, owner, closing, disks>>
  BY Zenon DEF Shard, ShardClosing, ShardTimeout, ShardResult, ShardShort, ShardReply, ShardFrame
<1>2. /\ shard \in [Shards -> [pc : {"idle", "wait", "sent"} \cup Replies, wrote : Nat, got : Nat, failed : BOOLEAN]]
      /\ results \in [Shards -> Seq(BOOLEAN)] /\ replies \in Seq(Replies)
  BY DEF PointsInv, PointsTypeOK
<1>3. \A s \in Shards : DoneOf(s)' = DoneOf(s) /\ Counting(s)' = Counting(s) /\ Required(s)' = Required(s)
  BY <1>1 DEF DoneOf, Counting, OwnersIn, Required, disks
<1>4. request # "map"
  BY Zenon DEF Shard, ShardClosing, ShardTimeout, ShardResult, ShardShort, ShardReply, Collecting,
         PointsInv, Unstarted, Replies, Errors
<1>5. Unstarted' /\ Accounted'  BY <1>1, <1>4 DEF PointsInv, Unstarted, Accounted, disks
<1>6. \A g \in Goroutines : owner'[g] = "ok" => g[2] \in Counting(g[1])'
  BY <1>1, <1>3, GoroutinePairs DEF PointsInv, OksCount
<1>7. CASE ShardResult(t)
  <2> DEFINE ok == Head(results[t])
             won == IF ok THEN 1 ELSE 0
             pc == IF ok /\ shard[t].wrote + won >= Required(t) THEN "nil" ELSE "wait"
             bad == shard[t].failed \/ ~ok
  <2>1. /\ shard[t].pc = "wait" /\ results[t] # <<>> /\ replies' = replies
        /\ results' = [results EXCEPT ![t] = Tail(@)]
        /\ shard' = [shard EXCEPT ![t] = [pc |-> pc, wrote |-> shard[t].wrote + won,
                                              got |-> @.got + 1, failed |-> bad]]
    BY <1>7, <1>2, Zenon DEF ShardResult, Collecting
  <2>2. ok \in BOOLEAN /\ bad \in BOOLEAN
    <3>1. results[t] \in Seq(BOOLEAN)  BY <1>2
    <3>2. ok \in BOOLEAN  BY <2>1, <3>1, AfterReceive, Zenon
    <3>3. QED  BY <3>2, Zenon
  <2>3. /\ won = IF ok = TRUE THEN 1 ELSE 0
        /\ \/ pc = "nil" /\ shard[t].wrote + won >= Required(t)
           \/ pc = "wait" /\ (won = 0 \/ ~(shard[t].wrote + won >= Required(t)))
    <3>1. won = IF ok = TRUE THEN 1 ELSE 0
      <4>1. CASE ok  BY <4>1, <2>2, Zenon
      <4>2. CASE ~ok  BY <4>2, <2>2, Zenon
      <4>3. QED  BY <4>1, <4>2, Zenon
    <3>2. ok \/ won = 0  BY Zenon
    <3> HIDE DEF ok, won
    <3>3. CASE ok /\ shard[t].wrote + won >= Required(t)
      <4>1. pc = "nil"  BY <3>3, Zenon
      <4> HIDE DEF pc
      <4>2. shard[t].wrote + won >= Required(t)  BY <3>3, Zenon
      <4>3. pc = "nil" /\ shard[t].wrote + won >= Required(t)  BY <4>1, <4>2
      <4>4. QED  BY <3>1, <4>3
    <3>4. CASE ~(ok /\ shard[t].wrote + won >= Required(t))
      <4>1. pc = "wait"  BY <3>4, Zenon
      <4> HIDE DEF pc
      <4>2. QED  BY <3>1, <3>2, <3>4, <4>1, Zenon
    <3>5. QED  BY <3>3, <3>4, Zenon
  <2> HIDE DEF ok, won, pc, bad
  <2>4. won \in Nat /\ (won = 0 \/ won = 1) /\ pc \in {"idle", "wait", "sent"} \cup Replies
        /\ shard[t].wrote \in Nat /\ shard[t].got \in Nat
    BY <1>2, <2>3 DEF Replies
  <2>5. /\ shard' \in [Shards -> [pc : {"idle", "wait", "sent"} \cup Replies, wrote : Nat, got : Nat, failed : BOOLEAN]]
        /\ shard'[t].pc = pc /\ shard'[t].wrote = shard[t].wrote + won /\ shard'[t].got = shard[t].got + 1
        /\ \A s \in Shards : s # t => shard'[s] = shard[s]
    <3>1. shard[t].wrote + won \in Nat  BY <2>4
    <3> DEFINE P == {"idle", "wait", "sent"} \cup Replies
               F == BOOLEAN
    <3>2. shard \in [Shards -> [pc : P, wrote : Nat, got : Nat, failed : F]] /\ pc \in P /\ bad \in F
      BY <1>2, <2>2, <2>4
    <3> HIDE DEF P, F
    <3>3. /\ shard' \in [Shards -> [pc : P, wrote : Nat, got : Nat, failed : F]]
          /\ shard'[t].pc = pc /\ shard'[t].wrote = shard[t].wrote + won /\ shard'[t].got = shard[t].got + 1
          /\ \A s \in Shards : s # t => shard'[s] = shard[s]
      BY <2>1, <3>1, <3>2
    <3>4. QED  BY <3>3, Zenon DEF P, F
  <2>6. /\ results' \in [Shards -> Seq(BOOLEAN)] /\ results'[t] = Tail(results[t])
        /\ \A s \in Shards : s # t => results'[s] = results[s]
    <3>1. results[t] \in Seq(BOOLEAN)  BY <1>2
    <3>2. Tail(results[t]) \in Seq(BOOLEAN)  BY <3>1, <2>1, AfterReceive, Zenon
    <3>3. QED  BY <1>2, <2>1, <3>2
  <2>7. PointsTypeOK'  BY <1>1, <2>1, <2>5, <2>6 DEF PointsInv, PointsTypeOK
  <2>8. ResultsCounted'
    <3> SUFFICES ASSUME NEW s \in Shards
                 PROVE  shard'[s].got + Len(results'[s]) = Cardinality(DoneOf(s)')
      BY DEF ResultsCounted
    <3>1. shard[s].got + Len(results[s]) = Cardinality(DoneOf(s))  BY DEF PointsInv, ResultsCounted
    <3>2. CASE s # t
      <4>1. shard'[s] = shard[s] /\ results'[s] = results[s] /\ DoneOf(s)' = DoneOf(s)  BY <3>2, <2>5, <2>6, <1>3
      <4>2. QED  BY <3>1, <4>1
    <3>3. CASE s = t
      <4>1. results[t] \in Seq(BOOLEAN)  BY <1>2
      <4>2. Len(Tail(results[t])) = Len(results[t]) - 1 /\ Len(results[t]) \in Nat  BY <2>1, <4>1, AfterReceive, Zenon
      <4>3. shard'[s].got = shard[s].got + 1 /\ Len(results'[s]) = Len(results[s]) - 1 /\ Len(results[s]) \in Nat
        BY <3>3, <4>2, <2>5, <2>6
      <4>4. shard[s].got \in Nat  BY <3>3, <2>4
      <4>5. DoneOf(s)' = DoneOf(s)  BY <1>3
      <4>6. QED  BY <3>1, <4>3, <4>4, <4>5
    <3>4. QED  BY <3>2, <3>3
  <2>9. OksCount'
    <3>1. ASSUME NEW s \in Shards
          PROVE  shard'[s].wrote + Cardinality(Oks(s)') <= Cardinality((DoneOf(s) \cap Counting(s))')
      <4>1. shard[s].wrote + Cardinality(Oks(s)) <= Cardinality(DoneOf(s) \cap Counting(s))
        BY DEF PointsInv, OksCount
      <4>2. (DoneOf(s) \cap Counting(s))' = DoneOf(s) \cap Counting(s)  BY <1>3
      <4>3. CASE s # t
        <5>1. Oks(s)' = Oks(s)  BY <4>3, <2>6, Zenon DEF Oks
        <5>2. shard'[s] = shard[s]  BY <4>3, <2>5
        <5>3. QED  BY <4>1, <4>2, <5>1, <5>2, Zenon
      <4>4. CASE s = t
        <5>0. results[t] \in Seq(BOOLEAN)  BY <1>2
        <5>1. Cardinality(Places(results[t], TRUE)) = Cardinality(Places(Tail(results[t]), TRUE)) + won
          BY <2>1, <2>3, <5>0, PlacesTail, Zenon DEF ok
        <5>2. Oks(s)' = Places(Tail(results[t]), TRUE) /\ Oks(s) = Places(results[t], TRUE)
          BY <4>4, <2>6 DEF Oks
        <5>3. Cardinality(Places(Tail(results[t]), TRUE)) \in Nat
          <6>1. Tail(results[t]) \in Seq(BOOLEAN)  BY <5>0, <2>1, AfterReceive, Zenon
          <6>2. QED  BY <6>1, PlacesFinite, Zenon
        <5>4. shard'[s].wrote = shard[s].wrote + won /\ shard[s].wrote \in Nat  BY <4>4, <2>5, <2>4
        <5>5. shard'[s].wrote + Cardinality(Oks(s)') = shard[s].wrote + Cardinality(Oks(s))
          <6>1. Cardinality(Oks(s)) = Cardinality(Oks(s)') + won /\ Cardinality(Oks(s)') \in Nat
            BY <5>1, <5>2, <5>3, Zenon
          <6>2. QED  BY <6>1, <5>4, <2>4
        <5>6. QED  BY <4>1, <4>2, <5>5
      <4>5. QED  BY <4>3, <4>4
    <3>2. QED  BY <3>1, <1>6 DEF OksCount
  <2>10. ShardsTrue'
    <3> SUFFICES ASSUME NEW s \in Shards
                 PROVE  /\ shard'[s].pc \in {"idle", "wait"} => shard'[s].wrote = 0 \/ Partly(s)'
                        /\ shard'[s].pc = "nil" => Met(s)'
                        /\ shard'[s].pc = "partial" => Partly(s)'
      BY Zenon DEF ShardsTrue
    <3>1. CASE s # t  BY <3>1, <2>5, <1>3 DEF PointsInv, ShardsTrue, Met, Partly
    <3>2. CASE s = t
      <4>1. shard[t].wrote = 0 \/ Partly(t)  BY <2>1 DEF PointsInv, ShardsTrue
      <4>2. Required(t) \in Int  BY RequiredType DEF PointsInv
      <4>3. Required(t)' = Required(t)  BY <1>3
      <4>4. QED  BY <3>2, <4>1, <4>2, <4>3, <2>3, <2>4, <2>5 DEF Met, Partly
    <3>3. QED  BY <3>1, <3>2
  <2>11. RepliesTrue'
    <3>1. t \notin Sent /\ t \in Mapped /\ Sent' = Sent /\ Mapped' = Mapped
      BY <2>1, <2>3, <2>5, Zenon DEF Sent, Mapped
    <3>2. \A s \in Sent : (Met(s)' <=> Met(s)) /\ (Partly(s)' <=> Partly(s))
      BY <3>1, <2>5, <1>3 DEF Sent, Met, Partly
    <3>3. QED  BY <3>1, <3>2, <2>1, <1>1, Zenon DEF PointsInv, RepliesTrue
  <2>12. QED  BY <2>7, <2>8, <2>9, <2>10, <2>11, <1>5 DEF PointsInv
<1>8. CASE ~ShardResult(t)
  <2>1. results' = results
    BY <1>8 DEF Shard, ShardClosing, ShardTimeout, ShardShort, ShardReply
  <2>2. PICK pc \in {"sent"} \cup Errors :
          /\ shard' = [shard EXCEPT ![t].pc = pc]
          /\ shard[t].pc # "idle" /\ shard[t].pc # "sent"
          /\ \/ /\ pc # "sent" /\ replies' = replies /\ shard[t].pc = "wait"
                /\ pc = "partial" => shard[t].wrote > 0
             \/ /\ pc = "sent" /\ shard[t].pc \in Replies /\ replies' = Append(replies, shard[t].pc)
    BY <1>8 DEF Shard, ShardClosing, ShardTimeout, ShardShort, ShardReply, Collecting, Errors, Replies
  <2>3. /\ shard'[t].pc = pc /\ shard'[t].wrote = shard[t].wrote /\ shard'[t].got = shard[t].got
        /\ \A s \in Shards : s # t => shard'[s] = shard[s]
        /\ \A s \in Shards : shard'[s].wrote = shard[s].wrote /\ shard'[s].got = shard[s].got
    BY <1>2, <2>2
  <2>4. PointsTypeOK'
    <3>1. shard' \in [Shards -> [pc : {"idle", "wait", "sent"} \cup Replies, wrote : Nat, got : Nat, failed : BOOLEAN]]
      BY <1>2, <2>2, ZenonT(30) DEF Replies
    <3>2. replies' \in Seq(Replies)
      <4>1. CASE replies' = replies  BY <4>1, <1>2
      <4>2. CASE replies' = Append(replies, shard[t].pc) /\ shard[t].pc \in Replies  BY <4>2, <1>2
      <4>3. QED  BY <4>1, <4>2, <2>2
    <3>3. QED  BY <3>1, <3>2, <1>1, <2>1 DEF PointsInv, PointsTypeOK
  <2>5. ResultsCounted'
    <3>1. \A s \in Shards : shard'[s].got = shard[s].got /\ results'[s] = results[s] /\ DoneOf(s)' = DoneOf(s)
      BY <1>3, <2>1, <2>3, Zenon
    <3>2. QED  BY <3>1 DEF PointsInv, ResultsCounted
  <2>6. OksCount'
    <3>1. \A s \in Shards : Oks(s)' = Oks(s) /\ (DoneOf(s) \cap Counting(s))' = DoneOf(s) \cap Counting(s)
      BY <1>3, <2>1, Zenon DEF Oks
    <3>2. QED  BY <3>1, <1>6, <2>3 DEF PointsInv, OksCount
  <2>7. ShardsTrue'
    <3>1. \A s \in Shards : (Met(s)' <=> Met(s)) /\ (Partly(s)' <=> Partly(s))  BY <2>3, <1>3 DEF Met, Partly
    <3>2. pc # "idle" /\ pc # "wait" /\ pc # "nil"  BY DEF Errors
    <3>3. pc = "partial" => Partly(t)  BY <1>2, <2>2 DEF PointsInv, ShardsTrue
    <3>4. QED  BY <3>1, <3>2, <3>3, <2>3 DEF PointsInv, ShardsTrue
  <2>8. RepliesTrue'
    <3>1. \A s \in Shards : (Met(s)' <=> Met(s)) /\ (Partly(s)' <=> Partly(s))  BY <2>3, <1>3 DEF Met, Partly
    <3>2. t \in Mapped /\ t \notin Sent  BY <2>2 DEF Mapped, Sent
    <3>3. request \notin {"nil", "beyond"}  BY <3>2 DEF PointsInv, RepliesTrue
    <3>4. CASE pc # "sent"
      <4>1. Sent' = Sent  BY <3>2, <3>4, <2>3 DEF Sent
      <4>2. QED  BY <4>1, <3>1, <3>3, <3>4, <2>2, <1>1 DEF PointsInv, RepliesTrue, Sent
    <3>5. CASE pc = "sent"
      <4>1. Sent' = Sent \cup {t}  BY <3>5, <2>3 DEF Sent
      <4>2. replies' = Append(replies, shard[t].pc) /\ shard[t].pc \in Replies  BY <3>5, <2>2 DEF Errors
      <4>3. /\ DOMAIN replies' = DOMAIN replies \cup {Len(replies) + 1}
            /\ \A i \in DOMAIN replies : replies'[i] = replies[i]
            /\ replies'[Len(replies) + 1] = shard[t].pc
        BY <4>2, <1>2
      <4>4. shard[t].pc = "nil" => Met(t)  BY DEF PointsInv, ShardsTrue
      <4>5. shard[t].pc = "partial" => Partly(t)  BY DEF PointsInv, ShardsTrue
      <4>6. ASSUME request = "wait", NEW s \in Sent'
            PROVE  Met(s)' \/ \E i \in DOMAIN replies' : replies'[i] # "nil"
        <5>1. s \in Shards  BY <4>1 DEF Sent
        <5>2. CASE s = t  BY <5>2, <4>3, <4>4, <3>1
        <5>3. CASE s # t
          <6>1. Met(s) \/ \E i \in DOMAIN replies : replies[i] # "nil"
            BY <5>3, <4>1, <4>6 DEF PointsInv, RepliesTrue
          <6>2. QED  BY <6>1, <5>1, <4>3, <3>1
        <5>4. QED  BY <5>2, <5>3
      <4>7. ASSUME request = "partial" \/ \E i \in DOMAIN replies' : replies'[i] = "partial"
            PROVE  \E s \in Sent' : Partly(s)'
        <5>1. CASE shard[t].pc = "partial"  BY <5>1, <4>1, <4>5, <3>1
        <5>2. CASE shard[t].pc # "partial"
          <6>1. request = "partial" \/ \E i \in DOMAIN replies : replies[i] = "partial"
            BY <4>7, <5>2, <4>3
          <6>2. PICK s \in Sent : Partly(s)  BY <6>1 DEF PointsInv, RepliesTrue
          <6>3. QED  BY <6>2, <4>1, <3>1 DEF Sent
        <5>3. QED  BY <5>1, <5>2
      <4>8. QED  BY <4>6, <4>7, <3>3, <1>1 DEF RepliesTrue
    <3>6. QED  BY <3>4, <3>5
  <2>9. QED  BY <2>4, <2>5, <2>6, <2>7, <2>8, <1>5 DEF PointsInv
<1>9. QED  BY <1>7, <1>8

\* The request starts the goroutines, takes a shard's answer, or returns.
LEMMA RequestIInv ==
  ASSUME FiniteOwners, PointsInv, Request
  PROVE  PointsInv'
<1>1. UNCHANGED <<level, results, closing, disks>>
  BY DEF Request, MapFails, MapShards, RequestClosing, RequestTimeout, RequestReply, RequestDone, RequestFrame
<1>2. /\ shard \in [Shards -> [pc : {"idle", "wait", "sent"} \cup Replies, wrote : Nat, got : Nat, failed : BOOLEAN]]
      /\ replies \in Seq(Replies)
  BY DEF PointsInv, PointsTypeOK
<1>3. \A s : Counting(s)' = Counting(s) /\ Required(s)' = Required(s)
  BY <1>1 DEF Counting, OwnersIn, Required, disks
<1>4. CASE MapShards
  <2>1. PICK M \in Batches :
          /\ shard' = [s \in Shards |-> IF s \in M THEN [shard[s] EXCEPT !.pc = "wait"] ELSE shard[s]]
          /\ owner' = [g \in Goroutines |-> IF g[1] \in M THEN "write" ELSE "idle"]
    BY <1>4 DEF MapShards
  <2>2. request = "map" /\ request' = "wait" /\ replies' = replies  BY <1>4 DEF MapShards
  <2>3. /\ \A s \in Shards : shard[s].pc = "idle"
        /\ \A g \in Goroutines : owner[g] = "idle"
    BY <2>2 DEF PointsInv, Unstarted
  <2>4. \A s \in Shards : /\ shard'[s].pc \in {"idle", "wait"}
                          /\ shard'[s].wrote = shard[s].wrote /\ shard'[s].got = shard[s].got
    BY <1>2, <2>1, <2>3
  <2>5. \A g \in Goroutines : owner'[g] \in {"write", "idle"}  BY <2>1
  <2>6. \A s \in Shards : DoneOf(s)' = {} /\ DoneOf(s) = {}
    BY <2>3, <2>5, GoroutinePairs DEF DoneOf
  <2>7. PointsTypeOK'
    <3>1. shard' \in [Shards -> [pc : {"idle", "wait", "sent"} \cup Replies, wrote : Nat, got : Nat, failed : BOOLEAN]]
      BY <1>2, <2>1, Zenon
    <3>2. owner' \in [Goroutines -> {"idle", "write", "hint", "ok", "fail", "done"}]  BY <2>1
    <3>3. QED  BY <3>1, <3>2, <1>1, <2>2 DEF PointsInv, PointsTypeOK
  <2>8. ResultsCounted'
    <3>1. \A s \in Shards : shard'[s].got = shard[s].got /\ results'[s] = results[s] /\ DoneOf(s)' = DoneOf(s)
      BY <1>1, <2>4, <2>6
    <3>2. QED  BY <3>1 DEF PointsInv, ResultsCounted
  <2>9. OksCount'
    <3>1. \A s \in Shards : /\ Oks(s)' = Oks(s) /\ shard'[s].wrote = shard[s].wrote
                            /\ (DoneOf(s) \cap Counting(s))' = DoneOf(s) \cap Counting(s)
      BY <1>1, <1>3, <2>4, <2>6 DEF Oks
    <3>2. QED  BY <3>1, <2>5 DEF PointsInv, OksCount
  <2>10. ShardsTrue'
    <3>1. \A s \in Shards : shard[s].wrote = 0 \/ Partly(s)  BY <2>3 DEF PointsInv, ShardsTrue
    <3>2. \A s \in Shards : shard'[s].wrote = 0 \/ Partly(s)'  BY <3>1, <2>4, <1>3 DEF Partly
    <3>3. QED  BY <3>2, <2>4 DEF ShardsTrue
  <2>11. RepliesTrue'
    <3>1. Sent = {} /\ Sent' = {}  BY <2>3, <2>4 DEF Sent
    <3>2. \A i \in DOMAIN replies : replies[i] # "partial"  BY <3>1 DEF PointsInv, RepliesTrue
    <3>3. QED  BY <3>1, <3>2, <2>2 DEF RepliesTrue
  <2>12. Accounted' /\ Unstarted'  BY <2>2, <2>5 DEF Accounted, Unstarted
  <2>13. QED  BY <2>7, <2>8, <2>9, <2>10, <2>11, <2>12 DEF PointsInv
<1>5. CASE ~MapShards
  <2>1. UNCHANGED <<shard, owner>>
    BY <1>5 DEF Request, MapFails, RequestClosing, RequestTimeout, RequestReply, RequestDone, RequestFrame
  <2>2. \A s : /\ DoneOf(s)' = DoneOf(s) /\ Oks(s)' = Oks(s)
               /\ (Met(s)' <=> Met(s)) /\ (Partly(s)' <=> Partly(s))
    BY <2>1, <1>1, <1>3, Zenon DEF DoneOf, Oks, Met, Partly
  <2>3. ResultsCounted' /\ ShardsTrue' /\ Accounted'
    BY <2>1, <2>2, <1>1, Zenon DEF PointsInv, ResultsCounted, ShardsTrue, Accounted, disks
  <2>4. OksCount'
    <3>1. \A s : (DoneOf(s) \cap Counting(s))' = DoneOf(s) \cap Counting(s)  BY <2>2, <1>3
    <3>2. QED  BY <3>1, <2>1, <2>2, <1>3, Zenon DEF PointsInv, OksCount
  <2>5. Sent' = Sent /\ Mapped' = Mapped  BY <2>1 DEF Sent, Mapped
  <2>6. request' # "map"
    BY <1>5, <1>2 DEF Request, MapFails, RequestClosing, RequestTimeout, RequestReply, RequestDone, Replies, Errors
  <2>7. CASE RequestReply
    <3>1. request = "wait" /\ replies # <<>> /\ replies' = Tail(replies)
          /\ request' = IF Head(replies) = "nil" THEN "wait" ELSE Head(replies)
      BY <2>7 DEF RequestReply, Waiting
    <3>2. /\ Head(replies) \in Replies /\ Tail(replies) \in Seq(Replies)
          /\ Head(replies) = replies[1] /\ 1 \in DOMAIN replies
          /\ \A i \in DOMAIN replies' : i + 1 \in DOMAIN replies /\ replies'[i] = replies[i + 1]
          /\ \A i \in DOMAIN replies : i = 1 \/ (i - 1 \in DOMAIN replies' /\ replies'[i - 1] = replies[i])
      BY <1>2, <3>1
    <3>3. PointsTypeOK'  BY <1>1, <2>1, <3>1, <3>2 DEF PointsInv, PointsTypeOK, Replies, Returned
    <3>4. RepliesTrue'
      <4>1. ASSUME request' = "wait", NEW s \in Sent'
            PROVE  Met(s)' \/ \E i \in DOMAIN replies' : replies'[i] # "nil"
        <5>1. replies[1] = "nil"  BY <4>1, <3>1, <3>2 DEF Replies, Errors
        <5>2. Met(s) \/ \E i \in DOMAIN replies : replies[i] # "nil"
          BY <4>1, <3>1, <2>5 DEF PointsInv, RepliesTrue
        <5>3. CASE Met(s)  BY <5>3, <2>2
        <5>4. CASE \E i \in DOMAIN replies : replies[i] # "nil"
          <6>1. PICK i \in DOMAIN replies : replies[i] # "nil"  BY <5>4
          <6>2. i - 1 \in DOMAIN replies' /\ replies'[i - 1] # "nil"  BY <5>1, <6>1, <3>2
          <6>3. QED  BY <6>2
        <5>5. QED  BY <5>2, <5>3, <5>4
      <4>2. request' \notin {"nil", "beyond"}  BY <3>1, <3>2 DEF Replies, Errors
      <4>3. ASSUME request' = "partial" \/ \E i \in DOMAIN replies' : replies'[i] = "partial"
            PROVE  \E s \in Sent' : Partly(s)'
        <5>1. \E i \in DOMAIN replies : replies[i] = "partial"
          <6>1. CASE request' = "partial"  BY <6>1, <3>1, <3>2
          <6>2. CASE \E i \in DOMAIN replies' : replies'[i] = "partial"  BY <6>2, <3>2
          <6>3. QED  BY <4>3, <6>1, <6>2
        <5>2. PICK s \in Sent : Partly(s)  BY <5>1 DEF PointsInv, RepliesTrue
        <5>3. QED  BY <5>2, <2>2, <2>5
      <4>4. QED  BY <4>1, <4>2, <4>3 DEF RepliesTrue
    <3>5. QED  BY <3>3, <3>4, <2>3, <2>4, <2>6 DEF PointsInv, Unstarted
  <2>8. CASE RequestDone
    <3>1. request = "wait" /\ ~Waiting /\ request' \in {"nil", "beyond"} /\ replies' = replies
      BY <2>8 DEF RequestDone
    <3>2. PointsTypeOK'  BY <1>1, <2>1, <3>1 DEF PointsInv, PointsTypeOK, Returned
    <3>3. Sent \subseteq Mapped /\ Mapped \subseteq Shards  BY DEF Sent, Mapped
    <3>4. IsFiniteSet(Mapped) /\ Cardinality(Mapped) \in Nat /\ Cardinality(Sent) \in Nat
          /\ Cardinality(Sent) <= Cardinality(Mapped) /\ (Cardinality(Sent) = Cardinality(Mapped) => Sent = Mapped)
      <4>1. IsFiniteSet(Mapped)  BY <3>3, FS_Subset DEF FiniteOwners
      <4>2. QED  BY <3>3, <4>1, FS_Subset, FS_CardinalityType
    <3>5. Len(replies) \in Nat  BY <1>2
    <3>6. Cardinality(Sent) - Len(replies) >= Cardinality(Mapped)
      BY <3>1, <3>4, <3>5 DEF Waiting, Received
    <3>7. Len(replies) = 0 /\ Sent = Mapped  BY <3>4, <3>5, <3>6
    <3>8. DOMAIN replies = {}  BY <3>7, <1>2
    <3>9. \A s \in Sent : Met(s)  BY <3>1, <3>8 DEF PointsInv, RepliesTrue
    <3>10. RepliesTrue'  BY <3>1, <3>7, <3>8, <3>9, <2>2, <2>5 DEF RepliesTrue
    <3>11. QED  BY <3>2, <3>10, <2>3, <2>4, <2>6 DEF PointsInv, Unstarted
  <2>9. CASE MapFails \/ RequestClosing \/ RequestTimeout
    <3>1. request' \in {"maperror", "failed", "timeout"} /\ replies' = replies
      BY <2>9 DEF MapFails, RequestClosing, RequestTimeout
    <3>2. PointsTypeOK'  BY <1>1, <2>1, <3>1 DEF PointsInv, PointsTypeOK, Returned, Errors
    <3>3. RepliesTrue'  BY <3>1, <2>2, <2>5 DEF PointsInv, RepliesTrue
    <3>4. QED  BY <3>2, <3>3, <2>3, <2>4, <2>6 DEF PointsInv, Unstarted
  <2>10. QED  BY <1>5, <2>7, <2>8, <2>9 DEF Request
<1>6. QED  BY <1>4, <1>5

\* Close, and a step that changes none of this.
LEMMA QuietIInv ==
  ASSUME PointsInv, UNCHANGED <<level, request, shard, owner, results, replies, disks>>
  PROVE  PointsInv'
<1>1. /\ PointsTypeOK' /\ Unstarted'
      /\ \A s : /\ DoneOf(s)' = DoneOf(s) /\ Oks(s)' = Oks(s) /\ Counting(s)' = Counting(s)
                /\ Required(s)' = Required(s)
      /\ Sent' = Sent /\ Mapped' = Mapped
  BY DEF PointsInv, PointsTypeOK, Unstarted, DoneOf, Oks, Counting, OwnersIn, Required, Sent, Mapped, disks
<1>2. ResultsCounted' /\ Accounted'  BY <1>1 DEF PointsInv, ResultsCounted, Accounted, disks
<1>3. OksCount'
  <2>1. \A s : (DoneOf(s) \cap Counting(s))' = DoneOf(s) \cap Counting(s)  BY <1>1, Zenon
  <2>2. QED  BY <1>1, <2>1 DEF PointsInv, OksCount
<1>4. ShardsTrue' /\ RepliesTrue'  BY <1>1 DEF PointsInv, ShardsTrue, RepliesTrue, Met, Partly
<1>5. QED  BY <1>1, <1>2, <1>3, <1>4 DEF PointsInv

\* PointsInv holds in every reachable state of a clustered write.
THEOREM PointsInvariance ==
  ASSUME FiniteOwners
  PROVE  PointsSpec => []PointsInv
<1>1. PointsInit => PointsInv  BY PointsInitInv
<1>2. PointsInv /\ [PointsNext]_pointsVars => PointsInv'
  <2> SUFFICES ASSUME PointsInv, [PointsNext]_pointsVars PROVE PointsInv'  OBVIOUS
  <2>1. CASE Request  BY <2>1, RequestIInv
  <2>2. CASE Close  BY <2>2, QuietIInv DEF Close
  <2>3. ASSUME NEW s \in Shards, Shard(s) PROVE PointsInv'  BY <2>3, ShardIInv
  <2>4. ASSUME NEW g \in Goroutines, Owner(g) PROVE PointsInv'  BY <2>4, WriteIInv, SendIInv DEF Owner
  <2>5. CASE UNCHANGED pointsVars  BY <2>5, QuietIInv DEF pointsVars
  <2>6. QED  BY <2>1, <2>2, <2>3, <2>4, <2>5 DEF PointsNext
<1>3. QED  BY <1>1, <1>2, PTL DEF PointsSpec

\* writeToShard's channel has room for the result of an owner that has not sent it.
THEOREM SendersNeverBlockThm ==
  ASSUME FiniteOwners
  PROVE  PointsSpec => []SendersNeverBlock
<1>1. PointsInv => SendersNeverBlock
  <2> SUFFICES ASSUME PointsInv, NEW g \in Goroutines, owner[g] \in {"ok", "fail"}
               PROVE  Len(results[g[1]]) < Capacity(g[1])
    BY DEF SendersNeverBlock
  <2>1. g[1] \in Shards /\ g[2] \in Owners[g[1]] /\ g = <<g[1], g[2]>>  BY GoroutinePairs
  <2>2. DoneOf(g[1]) \in SUBSET Owners[g[1]] /\ DoneOf(g[1]) # Owners[g[1]]  BY <2>1 DEF DoneOf
  <2>3. /\ Cardinality(DoneOf(g[1])) \in Nat /\ Cardinality(Owners[g[1]]) \in Nat
        /\ Cardinality(DoneOf(g[1])) < Cardinality(Owners[g[1]])
    <3>1. Owners[g[1]] \in SUBSET Owners[g[1]]  OBVIOUS
    <3>2. QED  BY <2>1, <2>2, <3>1, OwnerSets
  <2>4. shard[g[1]].got + Len(results[g[1]]) = Cardinality(DoneOf(g[1]))  BY <2>1 DEF PointsInv, ResultsCounted
  <2>5. shard[g[1]].got \in Nat /\ results[g[1]] \in Seq(BOOLEAN)  BY <2>1 DEF PointsInv, PointsTypeOK
  <2>6. Len(results[g[1]]) \in Nat  BY <2>5
  <2>7. QED  BY <2>3, <2>4, <2>5, <2>6 DEF Capacity
<1>2. QED  BY <1>1, PointsInvariance, PTL

\* The goroutine of a remote owner does not end before the points are stored, queued or refused.
THEOREM NobodyForgottenThm ==
  ASSUME FiniteOwners
  PROVE  PointsSpec => []NobodyForgotten
<1>1. PointsInv => NobodyForgotten  BY DEF PointsInv, Accounted, NobodyForgotten
<1>2. QED  BY <1>1, PointsInvariance, PTL

\* A nil answer means that enough owners of every shard count for the level, a partial
\* one that some do and the level asks for more.
THEOREM LevelMetThm ==
  ASSUME FiniteOwners
  PROVE  PointsSpec => []LevelMet
<1>1. ASSUME PointsInv, NEW s \in Shards
      PROVE  /\ Met(s) => Enough(Cardinality(Counting(s)), Cardinality(Owners[s]))
             /\ Partly(s) => Counting(s) # {} /\ ~Enough(1, Cardinality(Owners[s]))
  <2> DEFINE n == Cardinality(Owners[s])
             k == Cardinality(Counting(s))
  <2>1. Counting(s) \in SUBSET Owners[s] /\ DoneOf(s) \cap Counting(s) \in SUBSET Counting(s)
    BY DEF Counting, OwnersIn
  <2>2. n \in Nat /\ k \in Nat /\ k <= n /\ Cardinality(DoneOf(s) \cap Counting(s)) \in Nat
        /\ Cardinality(DoneOf(s) \cap Counting(s)) <= k
    <3>1. Owners[s] \in SUBSET Owners[s]  BY Zenon
    <3>2. QED  BY <2>1, <3>1, OwnerSets
  <2>4. shard[s].wrote \in Nat /\ shard[s].wrote <= k
    <3>1. shard[s].wrote + Cardinality(Oks(s)) <= Cardinality(DoneOf(s) \cap Counting(s))
      BY <1>1 DEF PointsInv, OksCount
    <3>2. shard[s].wrote \in Nat /\ Cardinality(Oks(s)) \in Nat
      BY <1>1, PlacesFinite, Zenon DEF PointsInv, PointsTypeOK, Oks
    <3>3. QED  BY <3>1, <3>2, <2>2
  <2>5. level \in Levels  BY <1>1 DEF PointsInv, PointsTypeOK
  <2> HIDE DEF n, k
  <2>6. Required(s) = CASE level \in {"any", "one"} -> 1 [] level = "quorum" -> n \div 2 + 1 [] level = "all" -> n
    BY DEF Required, n
  <2>7. (Met(s) => Enough(k, n)) /\ (Partly(s) => k > 0 /\ ~Enough(1, n))
    <3>1. CASE level \in {"any", "one"}
      <4>1. Required(s) = 1  BY <2>6, <3>1
      <4>2. Enough(k, n) <=> k > 0  BY <3>1, Zenon DEF Enough
      <4>3. QED  BY <4>1, <4>2, <2>2, <2>4 DEF Met, Partly
    <3>2. CASE level = "quorum"
      <4>1. Required(s) = n \div 2 + 1 /\ (Enough(k, n) <=> 2 * k > n) /\ (Enough(1, n) <=> 2 * 1 > n)
        BY <2>6, <3>2 DEF Enough
      <4>2. QED  BY <4>1, <2>2, <2>4 DEF Met, Partly
    <3>3. CASE level = "all"
      <4>1. Required(s) = n /\ (Enough(k, n) <=> k = n) /\ (Enough(1, n) <=> 1 = n)  BY <2>6, <3>3 DEF Enough
      <4>2. QED  BY <4>1, <2>2, <2>4 DEF Met, Partly
    <3>4. QED  BY <3>1, <3>2, <3>3, <2>5, Zenon DEF Levels
  <2>8. k > 0 => Counting(s) # {}  BY FS_EmptySet DEF k
  <2>9. QED  BY <2>7, <2>8 DEF n, k
<1>2. PointsInv => LevelMet
  <2> SUFFICES ASSUME PointsInv PROVE LevelMet  OBVIOUS
  <2>1. Sent \subseteq Shards /\ Mapped \subseteq Shards /\ Sent \subseteq Mapped  BY Zenon DEF Sent, Mapped
  <2>2. ASSUME request \in {"nil", "beyond"}, NEW s \in Mapped
        PROVE  Enough(Cardinality(Counting(s)), Cardinality(Owners[s]))
    BY <2>1, <2>2, <1>1, Zenon DEF PointsInv, RepliesTrue
  <2>3. ASSUME request = "partial"
        PROVE  \E s \in Mapped : Counting(s) # {} /\ ~Enough(1, Cardinality(Owners[s]))
    <3>1. PICK s \in Sent : Partly(s)  BY <2>3 DEF PointsInv, RepliesTrue
    <3>2. QED  BY <3>1, <2>1, <1>1, Zenon
  <2>4. QED  BY <2>2, <2>3, Zenon DEF LevelMet
<1>3. QED  BY <1>2, PointsInvariance, PTL

=============================================================================
