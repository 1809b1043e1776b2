---------------------------- MODULE StoreProofs -----------------------------
(***************************************************************************)
(* The store: what a listed shard has on disk, that one engine at a time   *)
(* is open on a directory, and that the series of listed shards stay in    *)
(* the series file, for any ids, series and callers.  First the inductive  *)
(* invariant, then lemmas about a change of one call, then one lemma per   *)
(* step of a caller.                                                       *)
(***************************************************************************)
EXTENDS Store, TLAPS

ShardObjects == [id : Ids, engine : {"open", "closed"}, enabled : BOOLEAN, index : SUBSET Series]
Points == [by : Callers, series : Series]
Deleting == {"series", "dropSeries", "close", "remove", "unmark"}
OfShard == {"writeEpoch", "write", "unlist"} \cup Deleting
OfDrop == {"dbClose", "dbRemove", "rpClose", "rpRemove", "rpUnlist"}
Calls == [pc : {"idle"} \cup OfShard \cup OfDrop, id : Ids \cup {NoShard}, obj : Nat \cup {NoShard},
          list : SUBSET Nat, set : SUBSET Series]

StoreTypeOK ==
  /\ objs \in Seq(ShardObjects)
  /\ shards \in [Ids -> Nat \cup {NoShard}]
  /\ pending \subseteq Ids
  /\ sfile = NoShard \/ sfile \in SUBSET Series
  /\ disk \in [Ids -> [dir : BOOLEAN, points : SUBSET Points]]
  /\ call \in [Callers -> Calls]
  /\ acked \subseteq [id : Ids, obj : Nat, point : Points]

\* The map leads to objects of its ids, and a call keeps an object of the id it was made
\* for; an acknowledged write was made through an object.
Handles ==
  /\ \A i \in Ids : shards[i] # NoShard => shards[i] \in DOMAIN objs /\ objs[shards[i]].id = i
  /\ \A c \in Callers : call[c].pc \in OfShard =>
       call[c].id \in Ids /\ call[c].obj \in DOMAIN objs /\ objs[call[c].obj].id = call[c].id
  /\ \A c \in Callers : call[c].list \subseteq DOMAIN objs
  /\ \A a \in acked : a.obj \in 0 .. Len(objs)

\* pendingShardDeletes has the ids that are being deleted: they are not in the map, and
\* one call at a time deletes each.
PendingHeld ==
  /\ \A i \in pending : shards[i] = NoShard
  /\ \A c \in Callers : call[c].pc \in Deleting => call[c].id \in pending
  /\ \A c, d \in Callers :
       call[c].pc \in Deleting /\ call[d].pc \in Deleting /\ call[c].id = call[d].id => c = d

\* An engine that is open is in the map, or a DeleteShard is about to close it.
EnginesHeld ==
  \A o \in DOMAIN objs : Open(o) /\ Sound(o) =>
    \/ shards[objs[o].id] = o
    \/ \E c \in Callers : call[c].pc \in {"series", "dropSeries", "close"} /\ call[c].obj = o

AckedBy(i, o) == {a.point : a \in {b \in acked : b.id = i /\ b.obj = o}}
SeriesOn(i) == {p.series : p \in disk[i].points}

\* While the directory of a listed shard is there, it has what was acknowledged through the
\* shard, and the shard's series are in the series file.
ShardKept(i) ==
  /\ Open(shards[i]) => disk[i].dir
  /\ disk[i].dir =>
       /\ disk[i].points = AckedBy(i, shards[i])
       /\ SeriesOn(i) \subseteq objs[shards[i]].index
       /\ objs[shards[i]].index \subseteq Live
       /\ sfile # NoShard

\* A directory that belongs to no listed shard is being deleted.
DisksKept ==
  /\ \A i \in Ids : ~disk[i].dir => disk[i].points = {}
  /\ \A i \in Ids \ touched : shards[i] # NoShard => ShardKept(i)
  /\ \A i \in Ids \ touched : shards[i] = NoShard /\ i \notin pending => ~disk[i].dir
  /\ \A c \in Callers : call[c].pc = "unmark" => call[c].id \in touched \/ ~disk[call[c].id].dir

\* A call that drops the database or the policy has listed every shard, closes them before
\* it removes the directories, and removes the directories before it forgets the shards.
DropsCover ==
  \A c \in Callers : call[c].pc \in OfDrop =>
    /\ \A i \in Ids \ touched : shards[i] # NoShard => shards[i] \in call[c].list
    /\ call[c].pc \in {"dbRemove", "rpRemove", "rpUnlist"} => \A o \in call[c].list : ~Open(o)
    /\ call[c].pc = "rpUnlist" => \A i \in Ids \ touched : ~disk[i].dir

\* The series that a DeleteShard takes out of the series file are in no listed shard.
DropsUnused ==
  \A c \in Callers : call[c].pc = "dropSeries" =>
    \A i \in Ids \ touched : shards[i] # NoShard => objs[shards[i]].index \cap call[c].set = {}

StoreInv == StoreTypeOK /\ Handles /\ PendingHeld /\ EnginesHeld /\ DisksKept /\ DropsCover /\ DropsUnused

Pcs == {"idle"} \cup OfShard \cup OfDrop

LEMMA CallOf ==
  ASSUME StoreTypeOK, NEW c \in Callers, NEW r \in Calls, call' = [call EXCEPT ![c] = r]
  PROVE  /\ call' \in [Callers -> Calls]
         /\ call'[c] = r
         /\ \A d \in Callers : d # c => call'[d] = call[d]
BY DEF StoreTypeOK

LEMMA Moved ==
  ASSUME NEW r \in Calls, NEW pc \in Pcs
  PROVE  LET m == [r EXCEPT !.pc = pc]
         IN  /\ m \in Calls
             /\ m.pc = pc /\ m.id = r.id /\ m.obj = r.obj /\ m.list = r.list /\ m.set = r.set
BY DEF Calls, Pcs

\* What a call may become, when nothing but the calls and the touched ids change.
MayBecome(c, r) ==
  /\ r.pc \in OfShard => r.id \in Ids /\ r.obj \in DOMAIN objs /\ objs[r.obj].id = r.id
  /\ r.list \subseteq DOMAIN objs
  /\ r.pc \in Deleting => call[c].pc \in Deleting /\ r.id = call[c].id
  /\ call[c].pc \in {"series", "dropSeries", "close"} =>
       \/ r.pc \in {"series", "dropSeries", "close"} /\ r.obj = call[c].obj
       \/ call[c].id \in touched'
  /\ r.pc = "unmark" => r.id \in touched'
  /\ r.pc \in OfDrop =>
       /\ r.pc \in {"dbClose", "rpClose"}
       /\ \A i \in Ids : shards[i] # NoShard => shards[i] \in r.list
  /\ r.pc = "dropSeries" =>
       \A i \in Ids \ touched' : shards[i] # NoShard => objs[shards[i]].index \cap r.set = {}

LEMMA CallStep ==
  ASSUME StoreInv, NEW c \in Callers, NEW r \in Calls, call' = [call EXCEPT ![c] = r],
         UNCHANGED <<shards, objs, pending, sfile, disk, acked>>, touched \subseteq touched',
         MayBecome(c, r)
  PROVE  StoreInv'
<1> USE DEF StoreInv, Open, Sound
<1>1. /\ call' \in [Callers -> Calls]
      /\ call'[c] = r
      /\ \A d \in Callers : d # c => call'[d] = call[d]
  BY CallOf, Zenon
<1>2. StoreTypeOK'
  BY <1>1 DEF StoreTypeOK
<1>3. Handles'
  BY <1>1 DEF Handles, MayBecome
<1>4. PendingHeld'
  BY <1>1 DEF PendingHeld, MayBecome
<1>5. EnginesHeld'
  BY <1>1 DEF EnginesHeld, MayBecome, Handles, Deleting, OfShard
<1>6. DisksKept'
  <2>1. ASSUME NEW i \in Ids \ touched', shards[i] # NoShard PROVE ShardKept(i)'
    <3>1. ShardKept(i)
      BY <2>1 DEF DisksKept
    <3> QED
      BY <3>1 DEF ShardKept, AckedBy, SeriesOn, Live
  <2>2. \A d \in Callers : call'[d].pc = "unmark" => call'[d].id \in touched' \/ ~disk[call'[d].id].dir
    BY <1>1 DEF DisksKept, MayBecome
  <2> QED
    BY <2>1, <2>2 DEF DisksKept
<1>7. DropsCover'
  BY <1>1 DEF DropsCover, MayBecome
<1>8. DropsUnused'
  BY <1>1 DEF DropsUnused, MayBecome
<1> QED
  BY <1>2, <1>3, <1>4, <1>5, <1>6, <1>7, <1>8

LEMMA TypesOf ==
  ASSUME StoreInv
  PROVE  /\ \A c \in Callers : call[c] \in Calls
         /\ Len(objs) \in Nat /\ DOMAIN objs = 1 .. Len(objs)
         /\ \A o \in DOMAIN objs : objs[o] \in ShardObjects
         /\ \A i \in Ids : disk[i] \in [dir : BOOLEAN, points : SUBSET Points]
BY DEF StoreInv, StoreTypeOK

LEMMA IdleCall ==
  /\ Idle \in Calls
  /\ Idle.pc = "idle" /\ Idle.list = {}
BY DEF Idle, Calls

\* A call that looks up a shard, or that returns, keeps the invariant.
LEMMA LookupInv ==
  ASSUME StoreInv, NEW c \in Callers, NEW id \in Ids, WriteLookup(c, id) \/ DeleteLookup(c, id)
  PROVE  StoreInv'
<1> DEFINE r(pc) == [Idle EXCEPT !.pc = pc, !.id = id, !.obj = shards[id]]
<1>1. shards[id] # NoShard /\ shards[id] \in DOMAIN objs /\ objs[shards[id]].id = id
      /\ shards[id] \in Nat /\ call[c].pc = "idle"
  BY DEF StoreInv, StoreTypeOK, Handles, WriteLookup, DeleteLookup, May
<1>2. ASSUME NEW pc \in {"writeEpoch", "unlist"}
      PROVE  r(pc) \in Calls /\ MayBecome(c, r(pc))
  <2>1. /\ r(pc) \in Calls
        /\ r(pc).pc = pc /\ r(pc).id = id /\ r(pc).obj = shards[id] /\ r(pc).list = {}
    BY <1>1, Zenon DEF Idle, Calls, OfShard
  <2> QED
    BY <1>1, <2>1 DEF MayBecome, OfShard, OfDrop, Deleting
<1>3. PICK pc \in {"writeEpoch", "unlist"} : call' = [call EXCEPT ![c] = r(pc)]
  BY DEF WriteLookup, DeleteLookup
<1>4. UNCHANGED <<shards, objs, pending, sfile, disk, acked, touched>>
  BY DEF WriteLookup, DeleteLookup
<1> HIDE DEF r
<1> QED
  BY <1>2, <1>3, <1>4, CallStep, Zenon

LEMMA DropListInv ==
  ASSUME StoreInv, NEW c \in Callers, DropList(c, "dbClose") \/ DropList(c, "rpClose")
  PROVE  StoreInv'
<1> DEFINE r(pc) == [Idle EXCEPT !.pc = pc, !.list = Registered]
<1>1. Registered \subseteq DOMAIN objs /\ Registered \subseteq Nat /\ call[c].pc = "idle"
      /\ \A i \in Ids : shards[i] # NoShard => shards[i] \in Registered
  BY DEF StoreInv, StoreTypeOK, Handles, DropList, May, Registered
<1>2. ASSUME NEW pc \in {"dbClose", "rpClose"}
      PROVE  r(pc) \in Calls /\ MayBecome(c, r(pc))
  <2>1. r(pc) \in Calls /\ r(pc).pc = pc /\ r(pc).list = Registered
    BY <1>1, Zenon DEF Idle, Calls, OfDrop
  <2> QED
    BY <1>1, <2>1 DEF MayBecome, OfShard, OfDrop, Deleting
<1>3. PICK pc \in {"dbClose", "rpClose"} : call' = [call EXCEPT ![c] = r(pc)]
  BY DEF DropList
<1>4. UNCHANGED <<shards, objs, pending, sfile, disk, acked, touched>>
  BY DEF DropList
<1> HIDE DEF r
<1> QED
  BY <1>2, <1>3, <1>4, CallStep, Zenon

\* Returning is safe for a call that is not in the middle of deleting a shard.
LEMMA ReturnInv ==
  ASSUME StoreInv, NEW c \in Callers, call[c].pc \in {"writeEpoch", "write", "unlist"}, Return(c),
         UNCHANGED <<shards, objs, pending, sfile, disk, acked, touched>>
  PROVE  StoreInv'
<1>1. MayBecome(c, Idle)
  BY IdleCall DEF MayBecome, OfShard, OfDrop, Deleting
<1> QED
  BY <1>1, IdleCall, CallStep, Zenon DEF Return

LEMMA WriteEpochInv ==
  ASSUME StoreInv, NEW c \in Callers, WriteEpoch(c)
  PROVE  StoreInv'
<1> DEFINE m(pc) == [call[c] EXCEPT !.pc = pc]
<1>1. call[c].pc = "writeEpoch" /\ call[c] \in Calls /\ call \in [Callers -> Calls]
  BY DEF StoreInv, StoreTypeOK, WriteEpoch, At
<1>2. ASSUME NEW pc \in {"writeEpoch", "write"} PROVE m(pc) \in Calls /\ MayBecome(c, m(pc))
  <2>1. /\ m(pc) \in Calls
        /\ m(pc).pc = pc /\ m(pc).id = call[c].id /\ m(pc).obj = call[c].obj /\ m(pc).list = call[c].list
    BY <1>1, Moved DEF Pcs, OfShard
  <2> QED
    BY <1>1, <2>1 DEF MayBecome, StoreInv, Handles, OfShard, OfDrop, Deleting
<1>3. PICK pc \in {"writeEpoch", "write"} : call' = [call EXCEPT ![c] = m(pc)]
  <2>1. CASE call' = call
    <3>1. m("writeEpoch") = call[c]
      BY <1>1 DEF Calls
    <3> QED
      BY <1>1, <2>1, <3>1
  <2>2. CASE Goto(c, "write")
    BY <2>2 DEF Goto
  <2> QED
    BY <2>1, <2>2 DEF WriteEpoch
<1>4. UNCHANGED <<shards, objs, pending, sfile, disk, acked, touched>>
  BY DEF WriteEpoch
<1> HIDE DEF m
<1> QED
  BY <1>2, <1>3, <1>4, CallStep, Zenon

LEMMA SeriesDiffInv ==
  ASSUME StoreInv, NEW c \in Callers, SeriesDiff(c)
  PROVE  StoreInv'
<1> DEFINE o == call[c].obj
           cut == OnlyIn(o, call[c].list)
           d == [call[c] EXCEPT !.pc = "dropSeries", !.set = cut]
           u == [call[c] EXCEPT !.pc = "unmark"]
<1>1. /\ call[c].pc = "series" /\ call[c] \in Calls
      /\ o \in DOMAIN objs /\ objs[o].id = call[c].id /\ objs[o].index \subseteq Series /\ call[c].id \in Ids
      /\ call[c].list \subseteq DOMAIN objs
  BY TypesOf DEF StoreInv, Handles, SeriesDiff, At, OfShard, Deleting, ShardObjects
<1>2. UNCHANGED <<shards, objs, pending, sfile, disk, acked>> /\ touched \subseteq touched'
  BY DEF SeriesDiff
<1>3. CASE Ready(o)
  <2>1. cut \subseteq Series
    BY <1>1 DEF OnlyIn
  <2> HIDE DEF cut
  <2>2. /\ d \in Calls
        /\ d.pc = "dropSeries" /\ d.id = call[c].id /\ d.obj = o /\ d.list = call[c].list /\ d.set = cut
    BY <1>1, <2>1, Zenon DEF Calls, OfShard, Deleting
  <2>3. call' = [call EXCEPT ![c] = d]
    BY <1>3, Zenon DEF SeriesDiff, cut
  <2>4. ASSUME NEW i \in Ids \ touched', shards[i] # NoShard
        PROVE  objs[shards[i]].index \cap cut = {}
    <3>1. shards[i] \in Registered /\ objs[shards[i]].id = i
      BY <2>4 DEF Registered, StoreInv, Handles
    <3>2. shards[i] \in call[c].list /\ Ready(shards[i])
      BY <1>3, <2>4, <3>1 DEF SeriesDiff
    <3> QED
      BY <3>2 DEF cut, OnlyIn
  <2> HIDE DEF d
  <2>5. MayBecome(c, d)
    BY <1>1, <2>2, <2>4 DEF MayBecome, OfShard, OfDrop, Deleting
  <2> QED
    BY <1>2, <2>2, <2>3, <2>5, CallStep, Zenon
<1>4. CASE ~Ready(o)
  <2>1. /\ u \in Calls
        /\ u.pc = "unmark" /\ u.id = call[c].id /\ u.obj = o /\ u.list = call[c].list
    BY <1>1, Moved DEF Pcs, OfShard, Deleting
  <2>2. call' = [call EXCEPT ![c] = u] /\ call[c].id \in touched'
    BY <1>4 DEF SeriesDiff, Goto
  <2> HIDE DEF u
  <2>3. MayBecome(c, u)
    BY <1>1, <2>1, <2>2 DEF MayBecome, OfShard, OfDrop, Deleting
  <2> QED
    BY <1>2, <2>1, <2>2, <2>3, CallStep, Zenon
<1> QED
  BY <1>3, <1>4

\* The fields of a Shard object after an assignment to one of them.
LEMMA ObjectFields ==
  ASSUME NEW x \in ShardObjects
  PROVE  /\ \A e \in BOOLEAN : LET y == [x EXCEPT !.enabled = e]
                               IN  y \in ShardObjects /\ y.id = x.id /\ y.engine = x.engine /\ y.index = x.index
         /\ LET y == [x EXCEPT !.engine = "closed"]
            IN  y \in ShardObjects /\ y.id = x.id /\ y.engine = "closed" /\ y.index = x.index
         /\ \A t \in SUBSET Series : LET y == [x EXCEPT !.index = t]
                                     IN  y \in ShardObjects /\ y.id = x.id /\ y.engine = x.engine /\ y.index = t
BY DEF ShardObjects

LEMMA Replaced ==
  ASSUME NEW q \in Seq(ShardObjects), NEW o \in DOMAIN q, NEW x \in ShardObjects
  PROVE  LET r == [q EXCEPT ![o] = x]
         IN  /\ r \in Seq(ShardObjects) /\ Len(r) = Len(q) /\ DOMAIN r = DOMAIN q
             /\ r[o] = x /\ \A p \in DOMAIN q : p # o => r[p] = q[p]
OBVIOUS

\* A shard is created where no directory is left, unless a known defect left one.
LEMMA CreateShardInv ==
  ASSUME StoreInv, NEW c \in Callers, NEW id \in Ids, CreateShard(c, id)
  PROVE  StoreInv'
<1>0. PICK n : n = Len(objs) + 1
  OBVIOUS
<1> USE DEF Open, Sound
<1>1. /\ shards[id] = NoShard /\ id \notin pending
      /\ objs' = Append(objs, NewShard(id)) /\ shards' = [shards EXCEPT ![id] = Len(objs')]
      /\ sfile' = Live /\ disk' = [disk EXCEPT ![id].dir = TRUE]
      /\ touched' = IF Dropping THEN touched \cup {id} ELSE touched
      /\ UNCHANGED <<pending, call, acked>>
  BY DEF CreateShard, Creatable
<1>2. /\ \A d \in Callers : call[d] \in Calls
      /\ Len(objs) \in Nat /\ DOMAIN objs = 1 .. Len(objs)
      /\ \A o \in DOMAIN objs : objs[o] \in ShardObjects
      /\ \A i \in Ids : disk[i] \in [dir : BOOLEAN, points : SUBSET Points]
  BY TypesOf
<1>3. NewShard(id) \in ShardObjects /\ NewShard(id).id = id
      /\ NewShard(id).index = SeriesOn(id)
  BY <1>2 DEF NewShard, ShardObjects, SeriesOn, Points
<1>4. /\ objs' \in Seq(ShardObjects) /\ DOMAIN objs' = 1 .. n /\ Len(objs') = n
      /\ objs'[n] = NewShard(id)
      /\ \A o \in DOMAIN objs : objs'[o] = objs[o] /\ o \in DOMAIN objs' /\ o # n
  BY <1>0, <1>1, <1>2, <1>3 DEF StoreInv, StoreTypeOK
<1>5. /\ shards' \in [Ids -> Nat \cup {NoShard}] /\ shards'[id] = n /\ n # NoShard /\ n \in Nat
      /\ \A i \in Ids : i # id => shards'[i] = shards[i]
  BY <1>0, <1>1, <1>2, <1>4, StoreAssumption DEF StoreInv, StoreTypeOK
<1>6. /\ disk' \in [Ids -> [dir : BOOLEAN, points : SUBSET Points]]
      /\ disk'[id].dir /\ disk'[id].points = disk[id].points
      /\ \A i \in Ids : i # id => disk'[i] = disk[i]
  BY <1>1, <1>2, Zenon DEF StoreInv, StoreTypeOK
<1>7. Live \in SUBSET Series /\ sfile' # NoShard /\ Live' = Live
  BY <1>1, StoreAssumption DEF StoreInv, StoreTypeOK, Live
<1>8. touched \subseteq touched'
  BY <1>1
<1>9. id \notin touched' => disk[id].points = {} /\ SeriesOn(id) = {}
  BY <1>1, <1>8 DEF StoreInv, DisksKept, SeriesOn
<1>10. \A o \in DOMAIN objs : o \in Nat /\ o # NoShard
  BY <1>2, StoreAssumption
<1>11. StoreTypeOK'
  BY <1>1, <1>4, <1>5, <1>6, <1>7, Zenon DEF StoreInv, StoreTypeOK
<1>12. Handles'
  <2>1. \A a \in acked : a.obj \in 0 .. n
    BY <1>0, <1>2 DEF StoreInv, Handles
  <2> QED
    BY <1>1, <1>3, <1>4, <1>5, <2>1 DEF StoreInv, Handles
<1>13. PendingHeld'
  BY <1>1, <1>5 DEF StoreInv, PendingHeld, StoreTypeOK
<1>14. EnginesHeld'
  <2> SUFFICES ASSUME NEW o \in DOMAIN objs', Open(o)', Sound(o)'
               PROVE  \/ shards'[objs'[o].id] = o
                      \/ \E d \in Callers : call'[d].pc \in {"series", "dropSeries", "close"} /\ call'[d].obj = o
    BY DEF EnginesHeld
  <2>1. CASE o = n
    BY <2>1, <1>3, <1>4, <1>5
  <2>2. CASE o \in DOMAIN objs
    BY <2>2, <1>1, <1>2, <1>4, <1>5, <1>8, <1>10 DEF StoreInv, EnginesHeld, ShardObjects
  <2> QED
    BY <1>0, <2>1, <2>2, <1>2, <1>4
<1>15. DisksKept'
  <2>1. \A i \in Ids : ~disk'[i].dir => disk'[i].points = {}
    BY <1>6 DEF StoreInv, DisksKept
  <2>2. ASSUME NEW i \in Ids \ touched', shards'[i] # NoShard PROVE ShardKept(i)'
    <3>1. CASE i = id
      <4>1. AckedBy(id, n)' = {}
        <5>1. \A a \in acked : a.obj # n
          BY <1>0, <1>2 DEF StoreInv, Handles
        <5> QED
          BY <1>1, <5>1 DEF AckedBy
      <4>2. SeriesOn(id)' = {}
        BY <1>6, <1>9, <2>2, <3>1 DEF SeriesOn
      <4> QED
        BY <3>1, <4>1, <4>2, <1>3, <1>4, <1>5, <1>6, <1>7, <1>9, <2>2, Zenon DEF ShardKept
    <3>2. CASE i # id
      <4>1. shards[i] # NoShard /\ ShardKept(i) /\ shards[i] \in DOMAIN objs /\ shards'[i] = shards[i]
        BY <2>2, <3>2, <1>5, <1>8 DEF StoreInv, DisksKept, Handles
      <4>2. AckedBy(i, shards[i])' = AckedBy(i, shards[i]) /\ SeriesOn(i)' = SeriesOn(i)
        BY <1>1, <1>6, <3>2, <4>1 DEF AckedBy, SeriesOn
      <4> QED
        BY <4>1, <4>2, <3>2, <1>4, <1>6, <1>7 DEF ShardKept
    <3> QED
      BY <3>1, <3>2
  <2>3. \A i \in Ids \ touched' : shards'[i] = NoShard /\ i \notin pending' => ~disk'[i].dir
    BY <1>1, <1>5, <1>6, <1>8 DEF StoreInv, DisksKept
  <2>4. \A d \in Callers : call'[d].pc = "unmark" => call'[d].id \in touched' \/ ~disk'[call'[d].id].dir
    <3> SUFFICES ASSUME NEW d \in Callers, call[d].pc = "unmark"
                 PROVE  call[d].id \in touched' \/ ~disk'[call[d].id].dir
      BY <1>1
    <3>1. call[d].id \in pending /\ call[d].id \in Ids
      BY DEF StoreInv, PendingHeld, Deleting, StoreTypeOK
    <3> QED
      BY <3>1, <1>1, <1>6, <1>8 DEF StoreInv, DisksKept
  <2> QED
    BY <2>1, <2>2, <2>3, <2>4 DEF DisksKept
<1>16. DropsCover'
  <2>1. ASSUME NEW d \in Callers, call[d].pc \in OfDrop PROVE id \in touched'
    BY <1>1, <2>1 DEF Dropping, OfDrop
  <2> QED
    BY <2>1, <1>1, <1>4, <1>5, <1>6, <1>8 DEF StoreInv, DropsCover, Handles
<1>17. DropsUnused'
  BY <1>1, <1>3, <1>4, <1>5, <1>8, <1>9 DEF StoreInv, DropsUnused, Handles
<1> QED
  BY <1>11, <1>12, <1>13, <1>14, <1>15, <1>16, <1>17 DEF StoreInv

LEMMA SetShardEnabledInv ==
  ASSUME StoreInv, NEW c \in Callers, NEW id \in Ids, NEW e \in BOOLEAN, SetShardEnabled(c, id, e)
  PROVE  StoreInv'
<1> USE DEF Open, Sound
<1> DEFINE s == shards[id]
<1>1. /\ s # NoShard /\ objs' = [objs EXCEPT ![s].enabled = e]
      /\ UNCHANGED <<shards, pending, sfile, disk, call, acked, touched>>
  BY DEF SetShardEnabled
<1>2. /\ s \in DOMAIN objs
      /\ Len(objs) \in Nat /\ DOMAIN objs = 1 .. Len(objs)
      /\ \A o \in DOMAIN objs : objs[o] \in ShardObjects
  BY <1>1, TypesOf DEF StoreInv, Handles
<1>3. /\ objs' \in Seq(ShardObjects) /\ Len(objs') = Len(objs) /\ DOMAIN objs' = DOMAIN objs
      /\ \A o \in DOMAIN objs : objs'[o].id = objs[o].id /\ objs'[o].engine = objs[o].engine
                                /\ objs'[o].index = objs[o].index
  <2>1. [objs[s] EXCEPT !.enabled = e] \in ShardObjects
    BY <1>2, ObjectFields, Zenon
  <2> QED
    BY <1>1, <1>2, <2>1, ObjectFields, Replaced DEF StoreInv, StoreTypeOK
<1> HIDE DEF s
<1>4. StoreTypeOK'
  BY <1>1, <1>3 DEF StoreInv, StoreTypeOK
<1>5. Handles'
  BY <1>1, <1>3 DEF StoreInv, Handles
<1>6. PendingHeld'
  BY <1>1 DEF StoreInv, PendingHeld
<1>7. EnginesHeld'
  BY <1>1, <1>3 DEF StoreInv, EnginesHeld
<1>8. DisksKept'
  BY <1>1, <1>3 DEF StoreInv, DisksKept, ShardKept, AckedBy, SeriesOn, Live, Handles
<1>9. DropsCover'
  BY <1>1, <1>3 DEF StoreInv, DropsCover, Handles
<1>10. DropsUnused'
  BY <1>1, <1>3 DEF StoreInv, DropsUnused, Handles
<1> QED
  BY <1>4, <1>5, <1>6, <1>7, <1>8, <1>9, <1>10 DEF StoreInv

\* A write through an object that is open reaches the directory of that object.
LEMMA WritePointsInv ==
  ASSUME StoreInv, NEW c \in Callers, NEW s \in Series, WritePoints(c, s)
  PROVE  StoreInv'
<1> USE DEF Open, Sound
<1>1. PICK o, id : o = call[c].obj /\ id = call[c].id
  OBVIOUS
<1>2. call[c].pc = "write" /\ Return(c) /\ UNCHANGED <<shards, pending>>
  BY DEF WritePoints, At
<1>3. CASE ~Ready(o)
  BY <1>1, <1>2, <1>3, ReturnInv DEF WritePoints
<1>4. CASE Ready(o)
  <2>1. PICK point : point = [by |-> c, series |-> s]
    BY Zenon
  <2> DEFINE raced == \E d \in Callers : call[d].pc = "dropSeries" /\ s \in call[d].set
  <2>2. /\ objs' = [objs EXCEPT ![o].index = @ \cup {s}]
        /\ sfile' = IF sfile = NoShard THEN NoShard ELSE sfile \cup {s}
        /\ disk' = IF disk[id].dir THEN [disk EXCEPT ![id].points = @ \cup {point}] ELSE disk
        /\ acked' = acked \cup {[id |-> id, obj |-> o, point |-> point]}
        /\ touched' = IF raced THEN touched \cup {id} ELSE touched
    BY <1>1, <1>4, <2>1 DEF WritePoints
  <2>3. /\ \A d \in Callers : call[d] \in Calls
        /\ Len(objs) \in Nat /\ DOMAIN objs = 1 .. Len(objs)
        /\ \A p \in DOMAIN objs : objs[p] \in ShardObjects
        /\ \A i \in Ids : disk[i] \in [dir : BOOLEAN, points : SUBSET Points]
    BY TypesOf
  <2>4. id \in Ids /\ o \in DOMAIN objs /\ objs[o].id = id /\ o \in Nat
    BY <1>1, <1>2, <2>3 DEF StoreInv, Handles, OfShard
  <2>5. objs[o].index \cup {s} \in SUBSET Series
    BY <2>3, <2>4 DEF ShardObjects
  <2>6. /\ objs' \in Seq(ShardObjects) /\ Len(objs') = Len(objs) /\ DOMAIN objs' = DOMAIN objs
        /\ \A p \in DOMAIN objs : objs'[p].id = objs[p].id /\ objs'[p].engine = objs[p].engine
        /\ objs'[o].index = objs[o].index \cup {s}
        /\ \A p \in DOMAIN objs : p # o => objs'[p].index = objs[p].index
    <3>1. PICK t, y : t = objs[o].index \cup {s} /\ y = [objs[o] EXCEPT !.index = t]
      BY Zenon
    <3>2. y \in ShardObjects /\ y.id = objs[o].id /\ y.engine = objs[o].engine /\ y.index = objs[o].index \cup {s}
      <4>1. t \in SUBSET Series /\ objs[o] \in ShardObjects
        BY <2>3, <2>4, <2>5, <3>1
      <4> QED
        BY <3>1, <4>1, ObjectFields, Zenon
    <3>3. objs' = [objs EXCEPT ![o] = y] /\ objs \in Seq(ShardObjects)
      BY <2>2, <2>4, <3>1 DEF StoreInv, StoreTypeOK
    <3> QED
      BY <2>4, <3>2, <3>3, Replaced
  <2>7. point \in Points /\ point.series = s
    BY <2>1 DEF Points
  <2>8. /\ disk' \in [Ids -> [dir : BOOLEAN, points : SUBSET Points]]
        /\ \A i \in Ids : disk'[i].dir = disk[i].dir
        /\ disk[id].dir => disk'[id].points = disk[id].points \cup {point}
        /\ ~disk[id].dir => disk'[id].points = disk[id].points
        /\ \A i \in Ids : i # id => disk'[i].points = disk[i].points
    <3>1. CASE disk[id].dir
      BY <2>2, <2>3, <2>4, <2>7, <3>1 DEF StoreInv, StoreTypeOK
    <3>2. CASE ~disk[id].dir
      BY <2>2, <3>2 DEF StoreInv, StoreTypeOK
    <3> QED
      BY <3>1, <3>2
  <2>9. /\ call' \in [Callers -> Calls] /\ call'[c].pc = "idle" /\ call'[c].list = {}
        /\ \A d \in Callers : d # c => call'[d] = call[d]
    BY <1>2, IdleCall, CallOf, Zenon DEF Return, StoreInv
  <2>10. touched \subseteq touched' /\ (raced => id \in touched')
    BY <2>2
  <2>11. Live \subseteq Live' /\ (sfile # NoShard => s \in Live' /\ sfile' # NoShard)
    BY <2>2, StoreAssumption DEF Live, StoreInv, StoreTypeOK
  <2>12. StoreTypeOK'
    BY <1>2, <2>2, <2>4, <2>6, <2>7, <2>8, <2>9 DEF StoreInv, StoreTypeOK
  <2>13. Handles'
    <3>1. \A a \in acked' : a.obj \in 0 .. Len(objs)
      BY <2>2, <2>3, <2>4 DEF StoreInv, Handles
    <3> QED
      BY <1>2, <2>6, <2>9, <3>1 DEF StoreInv, Handles, OfShard, Deleting
  <2>14. PendingHeld'
    BY <1>2, <2>9 DEF StoreInv, PendingHeld, Deleting
  <2>15. EnginesHeld'
    BY <1>2, <2>6, <2>9, <2>10 DEF StoreInv, EnginesHeld
  <2>16. ASSUME id \notin touched', shards[id] # NoShard
         PROVE  shards[id] = o
    <3>1. shards[id] = o \/ \E d \in Callers : call[d].pc \in {"series", "dropSeries", "close"} /\ call[d].obj = o
      BY <1>4, <2>4, <2>10, <2>16 DEF Ready, StoreInv, EnginesHeld
    <3>2. \A d \in Callers : call[d].pc \in {"series", "dropSeries", "close"} /\ call[d].obj = o => FALSE
      BY <2>4, <2>16 DEF StoreInv, Handles, PendingHeld, OfShard, Deleting
    <3> QED
      BY <3>1, <3>2
  <2>17. DisksKept'
    <3>1. \A i \in Ids : ~disk'[i].dir => disk'[i].points = {}
      BY <2>8 DEF StoreInv, DisksKept
    <3>2. ASSUME NEW i \in Ids \ touched', shards'[i] # NoShard PROVE ShardKept(i)'
      <4>1. shards'[i] = shards[i] /\ shards[i] # NoShard /\ ShardKept(i) /\ shards[i] \in DOMAIN objs
            /\ objs[shards[i]].id = i
        BY <3>2, <1>2, <2>10 DEF StoreInv, DisksKept, Handles
      <4>2. CASE i = id
        <5>1. shards[i] = o /\ disk[i].dir /\ disk'[i].dir
          BY <1>4, <2>8, <2>16, <3>2, <4>1, <4>2 DEF Ready, ShardKept
        <5>2. AckedBy(i, shards[i])' = AckedBy(i, shards[i]) \cup {point}
          <6>1. PICK a : a = [id |-> id, obj |-> o, point |-> point]
            BY Zenon
          <6>2. a.id = id /\ a.obj = o /\ a.point = point
            BY <6>1
          <6>3. {b \in acked' : b.id = i /\ b.obj = shards'[i]} = {b \in acked : b.id = i /\ b.obj = shards[i]} \cup {a}
            BY <2>2, <4>1, <4>2, <5>1, <6>1, <6>2
          <6> QED
            BY <6>2, <6>3 DEF AckedBy
        <5>3. SeriesOn(i)' = SeriesOn(i) \cup {s}
          BY <2>7, <2>8, <4>2, <5>1 DEF SeriesOn
        <5> QED
          <6>1. disk[i].points = AckedBy(i, o) /\ SeriesOn(i) \subseteq objs[o].index /\ objs[o].index \subseteq Live
                /\ sfile # NoShard
            BY <4>1, <5>1 DEF ShardKept
          <6>2. disk'[i].points = AckedBy(i, shards[i])'
            BY <2>8, <4>2, <5>1, <5>2, <6>1
          <6>3. SeriesOn(i)' \subseteq objs'[o].index /\ objs'[o].index \subseteq Live' /\ sfile' # NoShard
            BY <2>6, <2>11, <5>3, <6>1
          <6> QED
            BY <4>1, <5>1, <6>2, <6>3 DEF ShardKept
      <4>3. CASE i # id
        <5>1. AckedBy(i, shards[i])' = AckedBy(i, shards[i]) /\ SeriesOn(i)' = SeriesOn(i)
          BY <2>2, <2>8, <4>1, <4>3 DEF AckedBy, SeriesOn
        <5>2. shards[i] # o
          BY <2>4, <4>1, <4>3
        <5> QED
          BY <2>6, <2>8, <2>11, <4>1, <4>3, <5>1, <5>2 DEF ShardKept
      <4> QED
        BY <4>2, <4>3
    <3>3. \A i \in Ids \ touched' : shards'[i] = NoShard /\ i \notin pending' => ~disk'[i].dir
      BY <1>2, <2>8, <2>10, Zenon DEF StoreInv, DisksKept
    <3>4. \A d \in Callers : call'[d].pc = "unmark" => call'[d].id \in touched' \/ ~disk'[call'[d].id].dir
      BY <2>8, <2>9, <2>10, SMTT(30) DEF StoreInv, DisksKept, Handles, OfShard, Deleting
    <3> QED
      BY <3>1, <3>2, <3>3, <3>4 DEF DisksKept
  <2>18. DropsCover'
    BY <1>2, <2>6, <2>8, <2>9, <2>10, SMTT(30) DEF StoreInv, DropsCover, Handles, OfDrop
  <2>19. DropsUnused'
    <3> SUFFICES ASSUME NEW d \in Callers, call'[d].pc = "dropSeries", NEW i \in Ids \ touched', shards'[i] # NoShard
                 PROVE  objs'[shards'[i]].index \cap call'[d].set = {}
      BY DEF DropsUnused
    <3>1. d # c /\ call'[d] = call[d] /\ shards'[i] = shards[i] /\ shards[i] \in DOMAIN objs
          /\ objs[shards[i]].id = i /\ objs[shards[i]].index \cap call[d].set = {}
      BY <1>2, <2>9, <2>10 DEF StoreInv, DropsUnused, Handles
    <3>2. CASE shards[i] = o
      BY <2>4, <2>6, <2>10, <3>1, <3>2
    <3>3. CASE shards[i] # o
      BY <2>6, <3>1, <3>3
    <3> QED
      BY <3>2, <3>3
  <2> QED
    BY <2>12, <2>13, <2>14, <2>15, <2>17, <2>18, <2>19 DEF StoreInv
<1> QED
  BY <1>3, <1>4

\* What a call of DeleteShard or of a drop becomes when it moves on.
LEMMA GotoCall ==
  ASSUME StoreInv, NEW c \in Callers, NEW pc \in Pcs, Goto(c, pc)
  PROVE  /\ call' \in [Callers -> Calls]
         /\ call'[c].pc = pc /\ call'[c].id = call[c].id /\ call'[c].obj = call[c].obj
         /\ call'[c].list = call[c].list /\ call'[c].set = call[c].set
         /\ \A d \in Callers : d # c => call'[d] = call[d]
<1>1. PICK m : m = [call[c] EXCEPT !.pc = pc]
  BY Zenon
<1>2. /\ m \in Calls
      /\ m.pc = pc /\ m.id = call[c].id /\ m.obj = call[c].obj /\ m.list = call[c].list /\ m.set = call[c].set
  BY <1>1, TypesOf, Moved
<1>3. call' = [call EXCEPT ![c] = m]
  BY <1>1 DEF Goto
<1> QED
  BY <1>2, <1>3, CallOf, Zenon DEF StoreInv

LEMMA UnlistInv ==
  ASSUME StoreInv, NEW c \in Callers, Unlist(c)
  PROVE  StoreInv'
<1> USE DEF Open, Sound
<1>1. PICK id : id = call[c].id
  OBVIOUS
<1>2. call[c].pc = "unlist" /\ UNCHANGED <<objs, sfile, disk, acked>>
  BY DEF Unlist, At
<1>3. CASE id \in pending
  BY <1>1, <1>2, <1>3, ReturnInv DEF Unlist
<1>4. CASE id \notin pending
  <2>1. /\ call[c] \in Calls /\ id \in Ids /\ call[c].obj \in DOMAIN objs /\ objs[call[c].obj].id = id
        /\ DOMAIN objs = 1 .. Len(objs)
    BY <1>1, <1>2, TypesOf DEF StoreInv, Handles, OfShard
  <2>2. PICK rest : rest = Registered \ {shards[id]}
    BY Zenon
  <2>3. rest \subseteq DOMAIN objs /\ rest \subseteq Nat
    BY <2>1, <2>2 DEF Registered, StoreInv, Handles
  <2>4. PICK r : r = [call[c] EXCEPT !.pc = "series", !.list = rest]
    OBVIOUS
  <2>5. r \in Calls /\ r.pc = "series" /\ r.id = id /\ r.obj = call[c].obj /\ r.list = rest
    BY <1>1, <2>1, <2>3, <2>4, Zenon DEF Calls, OfShard, Deleting
  <2>6. /\ shards' = [shards EXCEPT ![id] = NoShard]
        /\ pending' = pending \cup {id}
        /\ call' = [call EXCEPT ![c] = r]
        /\ touched' = IF shards[id] \in {NoShard, call[c].obj} THEN touched ELSE touched \cup {id}
    BY <1>1, <1>4, <2>2, <2>4, Zenon DEF Unlist
  <2>7. /\ call' \in [Callers -> Calls] /\ call'[c] = r
        /\ \A d \in Callers : d # c => call'[d] = call[d]
    BY <2>5, <2>6, CallOf, Zenon DEF StoreInv
  <2>8. /\ shards' \in [Ids -> Nat \cup {NoShard}] /\ shards'[id] = NoShard
        /\ \A i \in Ids : i # id => shards'[i] = shards[i]
    BY <2>1, <2>6 DEF StoreInv, StoreTypeOK
  <2>9. touched \subseteq touched'
    BY <2>6
  <2>10. StoreTypeOK'
    BY <1>2, <2>1, <2>6, <2>7, <2>8, Zenon DEF StoreInv, StoreTypeOK
  <2>11. Handles'
    BY <1>2, <2>1, <2>3, <2>5, <2>7, <2>8 DEF StoreInv, Handles
  <2>12. PendingHeld'
    <3>1. \A i \in pending' : shards'[i] = NoShard
      BY <2>6, <2>8 DEF StoreInv, StoreTypeOK, PendingHeld
    <3> QED
      BY <1>2, <1>4, <2>5, <2>6, <2>7, <3>1 DEF StoreInv, PendingHeld, Deleting
  <2>13. EnginesHeld'
    <3> SUFFICES ASSUME NEW o \in DOMAIN objs, Open(o), objs[o].id \notin touched'
                 PROVE  \/ shards'[objs[o].id] = o
                        \/ \E d \in Callers : call'[d].pc \in {"series", "dropSeries", "close"} /\ call'[d].obj = o
      BY <1>2 DEF EnginesHeld
    <3>1. \/ shards[objs[o].id] = o
          \/ \E d \in Callers : call[d].pc \in {"series", "dropSeries", "close"} /\ call[d].obj = o
      BY <2>9 DEF StoreInv, EnginesHeld
    <3>2. objs[o].id \in Ids /\ o # NoShard
      BY <2>1, TypesOf, StoreAssumption DEF ShardObjects
    <3>3. CASE shards[objs[o].id] = o /\ objs[o].id = id
      BY <2>5, <2>6, <2>7, <3>2, <3>3
    <3>4. CASE shards[objs[o].id] = o /\ objs[o].id # id
      BY <2>8, <3>2, <3>4
    <3>5. CASE \E d \in Callers : call[d].pc \in {"series", "dropSeries", "close"} /\ call[d].obj = o
      BY <1>2, <2>7, <3>5
    <3> QED
      BY <3>1, <3>3, <3>4, <3>5
  <2>14. DisksKept'
    <3>1. ASSUME NEW i \in Ids \ touched', shards'[i] # NoShard PROVE ShardKept(i)'
      <4>1. i # id /\ shards'[i] = shards[i] /\ ShardKept(i)
        BY <2>8, <2>9, <3>1 DEF StoreInv, DisksKept
      <4> QED
        BY <1>2, <4>1 DEF ShardKept, AckedBy, SeriesOn, Live
    <3>2. \A i \in Ids \ touched' : shards'[i] = NoShard /\ i \notin pending' => ~disk'[i].dir
      BY <1>2, <2>6, <2>8, <2>9 DEF StoreInv, DisksKept
    <3> QED
      BY <1>2, <2>5, <2>7, <2>9, <3>1, <3>2, Zenon DEF StoreInv, DisksKept
  <2>15. DropsCover'
    BY <1>2, <2>5, <2>7, <2>8, <2>9 DEF StoreInv, DropsCover, OfDrop
  <2>16. DropsUnused'
    BY <1>2, <2>5, <2>7, <2>8, <2>9 DEF StoreInv, DropsUnused
  <2> QED
    BY <2>10, <2>11, <2>12, <2>13, <2>14, <2>15, <2>16 DEF StoreInv
<1> QED
  BY <1>3, <1>4

LEMMA DropSeriesInv ==
  ASSUME StoreInv, NEW c \in Callers, DropSeries(c)
  PROVE  StoreInv'
<1> USE DEF Open, Sound
<1>1. /\ call[c].pc = "dropSeries" /\ Goto(c, "close")
      /\ sfile' = IF sfile = NoShard THEN NoShard ELSE sfile \ call[c].set
      /\ UNCHANGED <<shards, objs, pending, disk, acked, touched>>
  BY DEF DropSeries, At
<1>2. /\ call' \in [Callers -> Calls]
      /\ call'[c].pc = "close" /\ call'[c].id = call[c].id /\ call'[c].obj = call[c].obj
      /\ call'[c].list = call[c].list
      /\ \A d \in Callers : d # c => call'[d] = call[d]
  BY <1>1, GotoCall DEF Pcs, OfShard, Deleting
<1>3. sfile # NoShard => sfile' # NoShard /\ Live' = Live \ call[c].set
  BY <1>1, StoreAssumption DEF StoreInv, StoreTypeOK, Live
<1>4. StoreTypeOK'
  BY <1>1, <1>2, Zenon DEF StoreInv, StoreTypeOK
<1>5. Handles'
  BY <1>1, <1>2 DEF StoreInv, Handles, OfShard, Deleting
<1>6. PendingHeld'
  BY <1>1, <1>2 DEF StoreInv, PendingHeld, Deleting
<1>7. EnginesHeld'
  BY <1>1, <1>2, SMTT(30) DEF StoreInv, EnginesHeld
<1>8. DisksKept'
  <2>1. ASSUME NEW i \in Ids \ touched, shards[i] # NoShard PROVE ShardKept(i)'
    <3>1. ShardKept(i) /\ objs[shards[i]].index \cap call[c].set = {}
      BY <1>1, <2>1 DEF StoreInv, DisksKept, DropsUnused
    <3> QED
      BY <1>1, <1>3, <3>1, Zenon DEF ShardKept, AckedBy, SeriesOn
  <2> QED
    BY <1>1, <1>2, <2>1 DEF StoreInv, DisksKept
<1>9. DropsCover'
  BY <1>1, <1>2 DEF StoreInv, DropsCover, OfDrop
<1>10. DropsUnused'
  BY <1>1, <1>2 DEF StoreInv, DropsUnused
<1> QED
  BY <1>4, <1>5, <1>6, <1>7, <1>8, <1>9, <1>10 DEF StoreInv

LEMMA CloseShardInv ==
  ASSUME StoreInv, NEW c \in Callers, CloseShard(c)
  PROVE  StoreInv'
<1> USE DEF Open, Sound
<1>1. PICK o : o = call[c].obj
  OBVIOUS
<1>2. /\ call[c].pc = "close" /\ Goto(c, "remove")
      /\ objs' = [objs EXCEPT ![o].engine = "closed"]
      /\ UNCHANGED <<shards, pending, sfile, disk, acked, touched>>
  BY <1>1 DEF CloseShard, At
<1>3. /\ call' \in [Callers -> Calls]
      /\ call'[c].pc = "remove" /\ call'[c].id = call[c].id /\ call'[c].obj = call[c].obj
      /\ call'[c].list = call[c].list
      /\ \A d \in Callers : d # c => call'[d] = call[d]
  BY <1>2, GotoCall DEF Pcs, OfShard, Deleting
<1>4. o \in DOMAIN objs
  BY <1>1, <1>2 DEF StoreInv, Handles, OfShard, Deleting
<1>5. /\ objs' \in Seq(ShardObjects) /\ Len(objs') = Len(objs) /\ DOMAIN objs' = DOMAIN objs
      /\ objs'[o].engine = "closed"
      /\ \A p \in DOMAIN objs : objs'[p].id = objs[p].id /\ objs'[p].index = objs[p].index
      /\ \A p \in DOMAIN objs : p # o => objs'[p].engine = objs[p].engine
  <2>1. PICK y : y = [objs[o] EXCEPT !.engine = "closed"]
    BY Zenon
  <2>2. y \in ShardObjects /\ y.id = objs[o].id /\ y.engine = "closed" /\ y.index = objs[o].index
    BY <1>4, <2>1, TypesOf, ObjectFields
  <2>3. objs' = [objs EXCEPT ![o] = y] /\ objs \in Seq(ShardObjects)
    BY <1>2, <2>1 DEF StoreInv, StoreTypeOK
  <2> QED
    BY <1>4, <2>2, <2>3, Replaced
<1>6. StoreTypeOK'
  BY <1>2, <1>3, <1>5 DEF StoreInv, StoreTypeOK
<1>7. Handles'
  BY <1>2, <1>3, <1>5 DEF StoreInv, Handles, OfShard, Deleting
<1>8. PendingHeld'
  BY <1>2, <1>3 DEF StoreInv, PendingHeld, Deleting
<1>9. EnginesHeld'
  BY <1>1, <1>2, <1>3, <1>5 DEF StoreInv, EnginesHeld
<1>10. DisksKept'
  <2>1. ASSUME NEW i \in Ids \ touched, shards[i] # NoShard PROVE ShardKept(i)'
    <3>1. ShardKept(i) /\ shards[i] \in DOMAIN objs
      BY <2>1 DEF StoreInv, DisksKept, Handles
    <3> QED
      BY <1>2, <1>5, <3>1 DEF ShardKept, AckedBy, SeriesOn, Live
  <2> QED
    BY <1>2, <1>3, <2>1 DEF StoreInv, DisksKept
<1>11. DropsCover'
  BY <1>2, <1>3, <1>5 DEF StoreInv, DropsCover, OfDrop, Handles
<1>12. DropsUnused'
  BY <1>2, <1>3, <1>5 DEF StoreInv, DropsUnused, Handles
<1> QED
  BY <1>6, <1>7, <1>8, <1>9, <1>10, <1>11, <1>12 DEF StoreInv

LEMMA RemoveShardInv ==
  ASSUME StoreInv, NEW c \in Callers, RemoveShard(c)
  PROVE  StoreInv'
<1> USE DEF Open, Sound
<1>1. PICK id : id = call[c].id
  OBVIOUS
<1>2. /\ call[c].pc = "remove" /\ Goto(c, "unmark")
      /\ disk' = [disk EXCEPT ![id] = NoDir]
      /\ UNCHANGED <<shards, objs, pending, sfile, acked, touched>>
  BY <1>1 DEF RemoveShard, At
<1>3. /\ call' \in [Callers -> Calls]
      /\ call'[c].pc = "unmark" /\ call'[c].id = call[c].id /\ call'[c].obj = call[c].obj
      /\ call'[c].list = call[c].list
      /\ \A d \in Callers : d # c => call'[d] = call[d]
  BY <1>2, GotoCall DEF Pcs, OfShard, Deleting
<1>4. id \in Ids /\ id \in pending /\ shards[id] = NoShard
  BY <1>1, <1>2 DEF StoreInv, StoreTypeOK, PendingHeld, Deleting
<1>5. /\ disk' \in [Ids -> [dir : BOOLEAN, points : SUBSET Points]]
      /\ ~disk'[id].dir /\ disk'[id].points = {}
      /\ \A i \in Ids : i # id => disk'[i] = disk[i]
  BY <1>2, <1>4 DEF StoreInv, StoreTypeOK, NoDir
<1>6. StoreTypeOK'
  BY <1>2, <1>3, <1>5, Zenon DEF StoreInv, StoreTypeOK
<1>7. Handles'
  BY <1>2, <1>3 DEF StoreInv, Handles, OfShard, Deleting
<1>8. PendingHeld'
  BY <1>2, <1>3 DEF StoreInv, PendingHeld, Deleting
<1>9. EnginesHeld'
  BY <1>2, <1>3 DEF StoreInv, EnginesHeld
<1>10. DisksKept'
  <2>1. ASSUME NEW i \in Ids \ touched, shards[i] # NoShard PROVE ShardKept(i)'
    <3>1. ShardKept(i) /\ i # id /\ disk'[i] = disk[i]
      BY <1>4, <1>5, <2>1 DEF StoreInv, DisksKept
    <3> QED
      BY <1>2, <3>1, Zenon DEF ShardKept, AckedBy, SeriesOn, Live
  <2>2. \A i \in Ids : ~disk'[i].dir => disk'[i].points = {}
    BY <1>5 DEF StoreInv, DisksKept
  <2>3. \A i \in Ids \ touched : shards[i] = NoShard /\ i \notin pending => ~disk'[i].dir
    BY <1>5, Zenon DEF StoreInv, DisksKept
  <2>4. \A d \in Callers : call'[d].pc = "unmark" => call'[d].id \in touched \/ ~disk'[call'[d].id].dir
    BY <1>1, <1>3, <1>5, SMTT(30) DEF StoreInv, DisksKept, Handles, OfShard, Deleting
  <2> QED
    BY <1>2, <2>1, <2>2, <2>3, <2>4, Zenon DEF DisksKept
<1>11. DropsCover'
  BY <1>2, <1>3, <1>5, SMTT(30) DEF StoreInv, DropsCover, OfDrop
<1>12. DropsUnused'
  BY <1>2, <1>3, Zenon DEF StoreInv, DropsUnused
<1> QED
  BY <1>6, <1>7, <1>8, <1>9, <1>10, <1>11, <1>12 DEF StoreInv

LEMMA UnmarkInv ==
  ASSUME StoreInv, NEW c \in Callers, Unmark(c)
  PROVE  StoreInv'
<1> USE DEF Open, Sound
<1>1. PICK id : id = call[c].id
  OBVIOUS
<1>2. /\ call[c].pc = "unmark" /\ Return(c)
      /\ pending' = pending \ {id}
      /\ UNCHANGED <<shards, objs, disk, sfile, acked, touched>>
  BY <1>1 DEF Unmark, At
<1>3. /\ call' \in [Callers -> Calls] /\ call'[c].pc = "idle" /\ call'[c].list = {}
      /\ \A d \in Callers : d # c => call'[d] = call[d]
  BY <1>2, IdleCall, CallOf, Zenon DEF Return, StoreInv
<1>4. StoreTypeOK'
  BY <1>2, <1>3, Zenon DEF StoreInv, StoreTypeOK
<1>5. Handles'
  BY <1>2, <1>3 DEF StoreInv, Handles, OfShard, Deleting
<1>6. PendingHeld'
  BY <1>1, <1>2, <1>3 DEF StoreInv, PendingHeld, Deleting
<1>7. EnginesHeld'
  BY <1>2, <1>3 DEF StoreInv, EnginesHeld
<1>8. DisksKept'
  <2>1. ASSUME NEW i \in Ids \ touched, shards[i] # NoShard PROVE ShardKept(i)'
    <3>1. ShardKept(i)
      BY <2>1 DEF StoreInv, DisksKept
    <3> QED
      BY <1>2, <3>1 DEF ShardKept, AckedBy, SeriesOn, Live
  <2>2. \A i \in Ids \ touched : shards[i] = NoShard /\ i \notin pending' => ~disk[i].dir
    BY <1>1, <1>2 DEF StoreInv, DisksKept
  <2>3. \A d \in Callers : call'[d].pc = "unmark" => call'[d].id \in touched \/ ~disk[call'[d].id].dir
    BY <1>3, Zenon DEF StoreInv, DisksKept
  <2> QED
    BY <1>2, <2>1, <2>2, <2>3, Zenon DEF StoreInv, DisksKept
<1>9. DropsCover'
  BY <1>2, <1>3 DEF StoreInv, DropsCover, OfDrop
<1>10. DropsUnused'
  BY <1>2, <1>3 DEF StoreInv, DropsUnused
<1> QED
  BY <1>4, <1>5, <1>6, <1>7, <1>8, <1>9, <1>10 DEF StoreInv

LEMMA DropCloseInv ==
  ASSUME StoreInv, NEW c \in Callers, DropClose(c)
  PROVE  StoreInv'
<1> USE DEF Open, Sound
<1>1. PICK pc \in {"dbRemove", "rpRemove"} : Goto(c, pc)
  BY DEF DropClose
<1>2. PICK list : list = call[c].list
  OBVIOUS
<1>3. /\ call[c].pc \in {"dbClose", "rpClose"}
      /\ objs' = [o \in DOMAIN objs |-> IF o \in list THEN [objs[o] EXCEPT !.engine = "closed"] ELSE objs[o]]
      /\ UNCHANGED <<shards, pending, disk, sfile, acked, touched>>
  BY <1>2 DEF DropClose
<1>4. /\ call' \in [Callers -> Calls]
      /\ call'[c].pc = pc /\ call'[c].list = list
      /\ \A d \in Callers : d # c => call'[d] = call[d]
  BY <1>1, <1>2, GotoCall DEF Pcs, OfDrop
<1>5. /\ Len(objs) \in Nat /\ DOMAIN objs = 1 .. Len(objs)
      /\ \A o \in DOMAIN objs : objs[o] \in ShardObjects
  BY TypesOf
<1>6. /\ DOMAIN objs' = DOMAIN objs
      /\ \A o \in DOMAIN objs :
           /\ objs'[o] \in ShardObjects /\ objs'[o].id = objs[o].id /\ objs'[o].index = objs[o].index
           /\ objs'[o].engine = IF o \in list THEN "closed" ELSE objs[o].engine
  <2>1. ASSUME NEW o \in DOMAIN objs
        PROVE  /\ objs'[o] \in ShardObjects /\ objs'[o].id = objs[o].id /\ objs'[o].index = objs[o].index
               /\ objs'[o].engine = IF o \in list THEN "closed" ELSE objs[o].engine
    BY <1>3, <1>5, ObjectFields
  <2> QED
    BY <1>3, <2>1
<1>7. objs' \in Seq(ShardObjects) /\ Len(objs') = Len(objs)
  <2>1. objs' \in [1 .. Len(objs) -> ShardObjects]
    BY <1>3, <1>5, <1>6
  <2> QED
    BY <1>5, <2>1
<1>8. StoreTypeOK'
  BY <1>3, <1>4, <1>7 DEF StoreInv, StoreTypeOK
<1>9. Handles'
  BY <1>1, <1>2, <1>3, <1>4, <1>6, <1>7 DEF StoreInv, Handles, OfShard, Deleting
<1>10. PendingHeld'
  BY <1>1, <1>3, <1>4 DEF StoreInv, PendingHeld, Deleting
<1>11. EnginesHeld'
  BY <1>3, <1>4, <1>6 DEF StoreInv, EnginesHeld
<1>12. DisksKept'
  <2>1. ASSUME NEW i \in Ids \ touched, shards[i] # NoShard PROVE ShardKept(i)'
    <3>1. ShardKept(i) /\ shards[i] \in DOMAIN objs
      BY <2>1 DEF StoreInv, DisksKept, Handles
    <3> QED
      BY <1>3, <1>6, <3>1 DEF ShardKept, AckedBy, SeriesOn, Live
  <2> QED
    BY <1>1, <1>3, <1>4, <2>1 DEF StoreInv, DisksKept
<1>13. DropsCover'
  BY <1>1, <1>2, <1>3, <1>4, <1>6 DEF StoreInv, DropsCover, OfDrop, Handles
<1>14. DropsUnused'
  BY <1>1, <1>3, <1>4, <1>6 DEF StoreInv, DropsUnused, Handles
<1> QED
  BY <1>8, <1>9, <1>10, <1>11, <1>12, <1>13, <1>14 DEF StoreInv

\* Every listed shard is closed when the directories go, so nothing that counts is removed.
LEMMA DropRemoveInv ==
  ASSUME StoreInv, NEW c \in Callers, DatabaseRemove(c) \/ PolicyRemove(c)
  PROVE  StoreInv'
<1> USE DEF Open, Sound
<1>1. /\ call[c].pc \in {"dbRemove", "rpRemove"}
      /\ disk' = [i \in Ids |-> NoDir]
      /\ UNCHANGED <<objs, pending, acked, touched>>
  BY DEF DatabaseRemove, PolicyRemove, At
<1>2. ASSUME NEW i \in Ids \ touched, shards[i] # NoShard
      PROVE  shards[i] \in DOMAIN objs /\ shards[i] \in call[c].list /\ ~Open(shards[i])
  BY <1>1, <1>2, Zenon DEF StoreInv, Handles, DropsCover, OfDrop
<1>3. /\ shards' \in [Ids -> Nat \cup {NoShard}]
      /\ \A i \in Ids : shards'[i] = NoShard \/ shards'[i] = shards[i]
  BY Zenon DEF DatabaseRemove, PolicyRemove, StoreInv, StoreTypeOK
<1>4. /\ disk' \in [Ids -> [dir : BOOLEAN, points : SUBSET Points]]
      /\ \A i \in Ids : ~disk'[i].dir /\ disk'[i].points = {}
  BY <1>1 DEF NoDir
<1>5. sfile' = NoShard \/ sfile' = sfile
  BY DEF DatabaseRemove, PolicyRemove
<1>6. /\ call' \in [Callers -> Calls]
      /\ \/ call'[c].pc = "idle" /\ call'[c].list = {}
         \/ call'[c].pc = "rpUnlist" /\ call'[c].list = call[c].list
      /\ \A d \in Callers : d # c => call'[d] = call[d]
  <2>1. CASE DatabaseRemove(c)
    BY <2>1, IdleCall, CallOf, Zenon DEF DatabaseRemove, Return, StoreInv
  <2>2. CASE PolicyRemove(c)
    BY <2>2, GotoCall DEF PolicyRemove, Pcs, OfDrop
  <2> QED
    BY <2>1, <2>2
<1>7. StoreTypeOK'
  BY <1>1, <1>3, <1>4, <1>5, <1>6 DEF StoreInv, StoreTypeOK
<1>8. Handles'
  BY <1>1, <1>3, <1>6 DEF StoreInv, Handles, OfShard, Deleting
<1>9. PendingHeld'
  <2>1. \A i \in pending : shards'[i] = NoShard
    BY <1>3 DEF StoreInv, StoreTypeOK, PendingHeld
  <2> QED
    BY <1>1, <1>6, <2>1 DEF StoreInv, PendingHeld, Deleting
<1>10. EnginesHeld'
  <2> SUFFICES ASSUME NEW o \in DOMAIN objs, Open(o), Sound(o)
               PROVE  \E d \in Callers : call'[d].pc \in {"series", "dropSeries", "close"} /\ call'[d].obj = o
    BY <1>1 DEF EnginesHeld
  <2>1. objs[o].id \in Ids \ touched /\ o # NoShard
    BY TypesOf, StoreAssumption DEF ShardObjects
  <2>2. shards[objs[o].id] # o
    BY <1>2, <2>1
  <2> QED
    BY <1>1, <1>6, <2>2 DEF StoreInv, EnginesHeld
<1>11. DisksKept'
  <2>1. ASSUME NEW i \in Ids \ touched, shards'[i] # NoShard PROVE ShardKept(i)'
    <3>1. shards'[i] = shards[i] /\ ~Open(shards[i])
      BY <1>2, <1>3, <2>1, Zenon
    <3> QED
      BY <1>1, <1>4, <3>1 DEF ShardKept
  <2>2. \A d \in Callers : call'[d].pc = "unmark" => call'[d].id \in Ids
    BY <1>8 DEF Handles, OfShard, Deleting
  <2> QED
    BY <1>1, <1>4, <2>1, <2>2 DEF DisksKept
<1>12. DropsCover'
  <2>1. ASSUME NEW d \in Callers, call'[d].pc \in OfDrop, NEW i \in Ids \ touched, shards'[i] # NoShard
        PROVE  shards'[i] \in call'[d].list
    BY <1>1, <1>2, <1>3, <1>6, <2>1 DEF StoreInv, DropsCover, OfDrop
  <2>2. ASSUME NEW d \in Callers, call'[d].pc \in {"dbRemove", "rpRemove", "rpUnlist"}, NEW o \in call'[d].list
        PROVE  ~Open(o)
    BY <1>1, <1>6, <2>2 DEF StoreInv, DropsCover, OfDrop
  <2> QED
    BY <1>1, <1>4, <2>1, <2>2 DEF DropsCover
<1>13. DropsUnused'
  BY <1>1, <1>3, <1>6 DEF StoreInv, DropsUnused
<1> QED
  BY <1>7, <1>8, <1>9, <1>10, <1>11, <1>12, <1>13 DEF StoreInv

LEMMA PolicyUnlistInv ==
  ASSUME StoreInv, NEW c \in Callers, PolicyUnlist(c)
  PROVE  StoreInv'
<1> USE DEF Open, Sound
<1>1. /\ call[c].pc = "rpUnlist" /\ Return(c)
      /\ shards' = [i \in Ids |-> IF i \in ListedIds(c) THEN NoShard ELSE shards[i]]
      /\ UNCHANGED <<objs, pending, disk, sfile, acked, touched>>
  BY DEF PolicyUnlist, At
<1>2. /\ call' \in [Callers -> Calls] /\ call'[c].pc = "idle" /\ call'[c].list = {}
      /\ \A d \in Callers : d # c => call'[d] = call[d]
  BY <1>1, IdleCall, CallOf, Zenon DEF Return, StoreInv
<1>3. /\ shards' \in [Ids -> Nat \cup {NoShard}]
      /\ \A i \in Ids : shards'[i] = NoShard \/ shards'[i] = shards[i]
  BY <1>1 DEF StoreInv, StoreTypeOK
<1>4. ASSUME NEW i \in Ids \ touched
      PROVE  shards'[i] = NoShard /\ ~disk[i].dir /\ (shards[i] # NoShard => ~Open(shards[i]))
  <2>1. shards[i] # NoShard => shards[i] \in call[c].list /\ ~Open(shards[i]) /\ objs[shards[i]].id = i
    BY <1>1 DEF StoreInv, DropsCover, Handles, OfDrop
  <2>2. shards[i] # NoShard => i \in ListedIds(c)
    BY <2>1, Zenon DEF ListedIds
  <2> QED
    BY <1>1, <2>1, <2>2 DEF StoreInv, DropsCover, OfDrop
<1>5. StoreTypeOK'
  BY <1>1, <1>2, <1>3, Zenon DEF StoreInv, StoreTypeOK
<1>6. Handles'
  BY <1>1, <1>2, <1>3, Zenon DEF StoreInv, Handles, OfShard, Deleting
<1>7. PendingHeld'
  <2>1. \A i \in pending : shards'[i] = NoShard
    BY <1>3 DEF StoreInv, StoreTypeOK, PendingHeld
  <2> QED
    BY <1>1, <1>2, <2>1 DEF StoreInv, PendingHeld, Deleting
<1>8. EnginesHeld'
  <2> SUFFICES ASSUME NEW o \in DOMAIN objs, Open(o), Sound(o)
               PROVE  \E d \in Callers : call'[d].pc \in {"series", "dropSeries", "close"} /\ call'[d].obj = o
    BY <1>1 DEF EnginesHeld
  <2>1. objs[o].id \in Ids \ touched /\ o # NoShard
    BY TypesOf, StoreAssumption DEF ShardObjects
  <2>2. shards[objs[o].id] # o
    BY <1>4, <2>1, Zenon
  <2> QED
    BY <1>1, <1>2, <2>2 DEF StoreInv, EnginesHeld
<1>9. DisksKept'
  BY <1>1, <1>2, <1>4, Zenon DEF StoreInv, DisksKept
<1>10. DropsCover'
  BY <1>1, <1>2, <1>4 DEF StoreInv, DropsCover, OfDrop
<1>11. DropsUnused'
  BY <1>1, <1>2, <1>4 DEF StoreInv, DropsUnused
<1> QED
  BY <1>5, <1>6, <1>7, <1>8, <1>9, <1>10, <1>11 DEF StoreInv

\* A shard that is loaded has what was acknowledged through the object it had before.
LEMMA StoreRestartInv ==
  ASSUME StoreInv, StoreRestart
  PROVE  StoreInv'
<1> USE DEF Open, Sound
<1>1. PICK n \in Len(objs) .. MaxObjs :
        \E f \in Numbered({i \in Ids : disk[i].dir}, Len(objs) + 1 .. n) : LoadShards(n, f)
  BY Zenon DEF StoreRestart
<1>2. PICK f \in Numbered({i \in Ids : disk[i].dir}, Len(objs) + 1 .. n) : LoadShards(n, f)
  BY <1>1, Zenon
<1> DEFINE found == DOMAIN f
           k == Len(objs)
<1>3. found = {i \in Ids : disk[i].dir} /\ f \in Numbered(found, k + 1 .. n)
  BY DEF Numbered
<1>4. /\ shards' = [i \in Ids |-> IF i \in found THEN f[i] ELSE NoShard]
      /\ objs' = [o \in 1 .. n |-> IF o <= k THEN [objs[o] EXCEPT !.engine = "closed"]
                                   ELSE NewShard(CHOOSE i \in found : f[i] = o)]
      /\ acked' = {[a EXCEPT !.obj = IF a.obj = shards[a.id] THEN f[a.id] ELSE 0] :
                       a \in {b \in acked : b.id \in found}}
      /\ touched' = touched \cup (found \cap pending)
  BY <1>2, Zenon DEF LoadShards
<1>5. pending' = {} /\ call' = [c \in Callers |-> Idle] /\ UNCHANGED <<sfile, disk>>
  BY DEF StoreRestart
<1>6. /\ k \in Nat /\ DOMAIN objs = 1 .. k /\ n \in Nat /\ k <= n
      /\ \A o \in DOMAIN objs : objs[o] \in ShardObjects
      /\ \A i \in Ids : disk[i] \in [dir : BOOLEAN, points : SUBSET Points]
  BY TypesOf
<1> HIDE DEF found, k
<1>7. /\ \A i \in found : i \in Ids /\ disk[i].dir /\ f[i] \in k + 1 .. n /\ f[i] \in Nat
      /\ \A o \in k + 1 .. n : \E i \in found : f[i] = o
  BY <1>3, <1>6 DEF Numbered
<1>8. \A i, j \in found : f[i] = f[j] => i = j
  <2> SUFFICES ASSUME NEW i \in found, NEW j \in found, i # j PROVE f[i] # f[j]
    OBVIOUS
  <2>1. i \in Nat /\ j \in Nat /\ f[i] \in Nat /\ f[j] \in Nat
    BY <1>7, StoreAssumption, Zenon
  <2>2. (i < j => f[i] < f[j]) /\ (j < i => f[j] < f[i])
    BY <1>3 DEF Numbered
  <2> QED
    BY <2>1, <2>2
<1>9. /\ DOMAIN objs' = 1 .. n
      /\ \A o \in 1 .. k : objs'[o] \in ShardObjects /\ objs'[o].engine = "closed" /\ objs'[o].id = objs[o].id
      /\ \A i \in found : objs'[f[i]] = NewShard(i)
  <2>1. ASSUME NEW o \in 1 .. k
        PROVE  objs'[o] \in ShardObjects /\ objs'[o].engine = "closed" /\ objs'[o].id = objs[o].id
    <3>1. objs'[o] = [objs[o] EXCEPT !.engine = "closed"] /\ objs[o] \in ShardObjects
      BY <1>4, <1>6, <2>1
    <3> QED
      BY <3>1, ObjectFields
  <2>2. ASSUME NEW i \in found PROVE objs'[f[i]] = NewShard(i)
    <3>1. f[i] \in 1 .. n /\ ~(f[i] <= k)
      BY <1>6, <1>7
    <3>2. (CHOOSE j \in found : f[j] = f[i]) = i
      BY <1>8
    <3> QED
      BY <1>4, <3>1, <3>2
  <2> QED
    BY <1>4, <2>1, <2>2, Zenon
<1>10. \A i \in found : NewShard(i) \in ShardObjects /\ NewShard(i).id = i /\ NewShard(i).index = SeriesOn(i)
  <2> SUFFICES ASSUME NEW i \in found
               PROVE  NewShard(i) \in ShardObjects /\ NewShard(i).id = i /\ NewShard(i).index = SeriesOn(i)
    OBVIOUS
  <2>1. i \in Ids /\ SeriesOn(i) \subseteq Series
    BY <1>6, <1>7 DEF SeriesOn, Points
  <2> QED
    BY <2>1 DEF NewShard, ShardObjects, SeriesOn
<1>11. objs' \in Seq(ShardObjects) /\ Len(objs') = n
  <2>1. \A o \in 1 .. n : objs'[o] \in ShardObjects
    <3> SUFFICES ASSUME NEW o \in 1 .. n PROVE objs'[o] \in ShardObjects
      OBVIOUS
    <3>1. CASE o \in 1 .. k
      BY <1>9, <3>1
    <3>2. CASE o \in k + 1 .. n
      BY <1>7, <1>9, <1>10, <3>2
    <3> QED
      BY <1>6, <3>1, <3>2
  <2>2. objs' \in [1 .. n -> ShardObjects]
    BY <1>4, <2>1, Zenon
  <2> QED
    BY <1>6, <2>2
<1>12. /\ shards' \in [Ids -> Nat \cup {NoShard}]
       /\ \A i \in found : shards'[i] = f[i] /\ shards'[i] # NoShard
       /\ \A i \in Ids \ found : shards'[i] = NoShard
  BY <1>4, <1>7, StoreAssumption
<1>13. \A c \in Callers : call'[c] = Idle
  BY <1>5
<1> DEFINE g(a) == [a EXCEPT !.obj = IF a.obj = shards[a.id] THEN f[a.id] ELSE 0]
           old == {b \in acked : b.id \in found}
<1>14. ASSUME NEW a \in old
       PROVE  /\ g(a) \in [id : Ids, obj : Nat, point : Points]
              /\ g(a).id = a.id /\ g(a).point = a.point
              /\ g(a).obj = IF a.obj = shards[a.id] THEN f[a.id] ELSE 0
  <2>1. a \in [id : Ids, obj : Nat, point : Points] /\ a.id \in found /\ f[a.id] \in Nat
    BY <1>7 DEF StoreInv, StoreTypeOK
  <2> QED
    BY <2>1
<1>15. acked' = {g(a) : a \in old}
  BY <1>4, Zenon
<1> HIDE DEF g, old
<1>16. StoreTypeOK'
  <2>1. acked' \subseteq [id : Ids, obj : Nat, point : Points]
    BY <1>14, <1>15
  <2> QED
    BY <1>5, <1>11, <1>12, <1>13, <2>1, IdleCall DEF StoreInv, StoreTypeOK
<1>17. Handles'
  <2>1. \A a \in acked' : a.obj \in 0 .. n
    <3> SUFFICES ASSUME NEW a \in old PROVE g(a).obj \in 0 .. n
      BY <1>15
    <3>1. a.id \in found
      BY Zenon DEF old
    <3> QED
      BY <1>6, <1>7, <1>14, <3>1
  <2>2. \A i \in Ids : shards'[i] # NoShard => shards'[i] \in DOMAIN objs' /\ objs'[shards'[i]].id = i
    BY <1>6, <1>7, <1>9, <1>10, <1>12
  <2> QED
    BY <1>11, <1>13, <2>1, <2>2, IdleCall DEF Handles, OfShard, Deleting
<1>18. PendingHeld'
  BY <1>5, <1>13, IdleCall, Zenon DEF PendingHeld, Deleting
<1>19. EnginesHeld'
  <2> SUFFICES ASSUME NEW o \in DOMAIN objs', Open(o)' PROVE shards'[objs'[o].id] = o
    BY DEF EnginesHeld
  <2>1. o \in k + 1 .. n
    BY <1>6, <1>9
  <2>2. PICK i \in found : f[i] = o
    BY <1>7, <2>1, Zenon
  <2> QED
    BY <1>9, <1>10, <1>12, <2>2
<1>20. DisksKept'
  <2>1. ASSUME NEW i \in Ids \ touched', shards'[i] # NoShard PROVE ShardKept(i)'
    <3>1. i \in found /\ disk[i].dir /\ i \notin touched /\ i \notin pending
      BY <1>4, <1>7, <1>12, <2>1, Zenon
    <3>2. shards[i] # NoShard /\ ShardKept(i)
      BY <3>1, Zenon DEF StoreInv, DisksKept
    <3>3. AckedBy(i, shards[i])' = AckedBy(i, shards[i])
      <4>1. f[i] # 0 /\ shards'[i] = f[i]
        BY <1>6, <1>7, <1>12, <3>1
      <4>2. ASSUME NEW x \in acked', x.id = i, x.obj = f[i]
            PROVE  x.point \in AckedBy(i, shards[i])
        <5>1. PICK a \in old : x = g(a)
          BY <1>15, Zenon
        <5>2. a \in acked /\ a.id = i /\ a.obj = shards[i] /\ a.point = x.point
          BY <1>14, <4>1, <4>2, <5>1, Zenon DEF old
        <5> QED
          BY <5>2 DEF AckedBy
      <4>3. ASSUME NEW a \in acked, a.id = i, a.obj = shards[i]
            PROVE  \E x \in acked' : x.id = i /\ x.obj = f[i] /\ x.point = a.point
        <5>1. a \in old
          BY <3>1, <4>3 DEF old
        <5> QED
          BY <1>14, <1>15, <4>3, <5>1
      <4> QED
        BY <4>1, <4>2, <4>3 DEF AckedBy
    <3>4. SeriesOn(i)' = SeriesOn(i) /\ Live' = Live
      BY <1>5, Zenon DEF SeriesOn, Live
    <3>5. objs'[shards'[i]].index = SeriesOn(i)
      BY <1>9, <1>10, <1>12, <3>1
    <3> QED
      BY <1>5, <3>1, <3>2, <3>3, <3>4, <3>5, Zenon DEF ShardKept
  <2>2. \A i \in Ids : shards'[i] = NoShard => ~disk'[i].dir
    BY <1>3, <1>5, <1>12
  <2> QED
    BY <1>5, <1>13, <2>1, <2>2, IdleCall, Zenon DEF StoreInv, DisksKept
<1>21. DropsCover' /\ DropsUnused'
  BY <1>13, IdleCall DEF DropsCover, DropsUnused, OfDrop
<1> QED
  BY <1>16, <1>17, <1>18, <1>19, <1>20, <1>21 DEF StoreInv

LEMMA StoreInitInv == StoreInit => StoreInv
<1> SUFFICES ASSUME StoreInit PROVE StoreInv
  OBVIOUS
<1> USE DEF StoreInit
<1>1. DOMAIN objs = {} /\ Len(objs) = 0
  OBVIOUS
<1>2. \A c \in Callers : call[c] = Idle
  OBVIOUS
<1>3. \A i \in Ids : shards[i] = NoShard /\ ~disk[i].dir /\ disk[i].points = {}
  BY Zenon DEF NoDir
<1>4. StoreTypeOK
  BY IdleCall DEF StoreTypeOK, NoDir
<1>5. Handles
  BY <1>2, <1>3, IdleCall DEF Handles, OfShard, Deleting
<1>6. PendingHeld /\ EnginesHeld
  BY <1>1, <1>2, IdleCall DEF PendingHeld, EnginesHeld, Deleting
<1>7. DisksKept
  BY <1>2, <1>3, IdleCall DEF DisksKept
<1>8. DropsCover /\ DropsUnused
  BY <1>2, IdleCall, Zenon DEF DropsCover, DropsUnused, OfDrop
<1> QED
  BY <1>4, <1>5, <1>6, <1>7, <1>8 DEF StoreInv

LEMMA StoreNextInv == StoreInv /\ [StoreNext]_storeVars => StoreInv'
<1> SUFFICES ASSUME StoreInv, [StoreNext]_storeVars PROVE StoreInv'
  OBVIOUS
<1>1. CASE UNCHANGED storeVars
  <2>1. UNCHANGED <<shards, objs, pending, sfile, disk, call, acked, touched>>
    BY <1>1 DEF storeVars
  <2>2. StoreTypeOK' /\ Handles' /\ PendingHeld'
    BY <2>1, Zenon DEF StoreInv, StoreTypeOK, Handles, PendingHeld
  <2>3. EnginesHeld' /\ DropsCover' /\ DropsUnused'
    BY <2>1 DEF StoreInv, EnginesHeld, DropsCover, DropsUnused, Open, Sound
  <2>4. \A i \in Ids : ShardKept(i)' <=> ShardKept(i)
    BY <2>1, Zenon DEF ShardKept, AckedBy, SeriesOn, Live, Open
  <2>5. DisksKept'
    BY <2>1, <2>4 DEF StoreInv, DisksKept
  <2> QED
    BY <2>2, <2>3, <2>5 DEF StoreInv
<1>2. ASSUME NEW c \in Callers, NEW id \in Ids,
             \/ CreateShard(c, id) \/ WriteLookup(c, id) \/ DeleteLookup(c, id)
             \/ \E e \in BOOLEAN : SetShardEnabled(c, id, e)
      PROVE  StoreInv'
  BY <1>2, CreateShardInv, LookupInv, SetShardEnabledInv
<1>3. ASSUME NEW c \in Callers,
             \/ WriteEpoch(c) \/ \E s \in Series : WritePoints(c, s)
             \/ Unlist(c) \/ SeriesDiff(c) \/ DropSeries(c) \/ CloseShard(c) \/ RemoveShard(c) \/ Unmark(c)
      PROVE  StoreInv'
  BY <1>3, WriteEpochInv, WritePointsInv, UnlistInv, SeriesDiffInv, DropSeriesInv, CloseShardInv, RemoveShardInv,
     UnmarkInv
<1>4. ASSUME NEW c \in Callers,
             \/ DropList(c, "dbClose") \/ DropList(c, "rpClose") \/ DropClose(c)
             \/ DatabaseRemove(c) \/ PolicyRemove(c) \/ PolicyUnlist(c)
      PROVE  StoreInv'
  BY <1>4, DropListInv, DropCloseInv, DropRemoveInv, PolicyUnlistInv
<1>5. CASE StoreRestart
  BY <1>5, StoreRestartInv
<1> QED
  BY <1>1, <1>2, <1>3, <1>4, <1>5 DEF StoreNext

\* The inductive invariant of the store: the map, the objects, the callers' handles, the
\* directories and the series file agree, but for the ids a known defect has touched.
THEOREM StoreInvariance == StoreSpec => []StoreInv
BY StoreInitInv, StoreNextInv, PTL DEF StoreSpec

\* However calls interleave, and wherever the process stops, a listed shard has on disk what
\* was acknowledged to it and nothing else (CreateShard, WriteToShard, DeleteShard,
\* DeleteDatabase, DeleteRetentionPolicy, loadShards).
THEOREM RegisteredKeptThm == StoreSpec => []RegisteredKept
<1>1. StoreInv => RegisteredKept
  <2> SUFFICES ASSUME StoreInv, NEW o \in Registered, Open(o), Sound(o)
               PROVE  disk[objs[o].id].points = AckedBy(objs[o].id, o)
    BY Zenon DEF RegisteredKept, AckedBy
  <2>1. PICK i \in Ids : shards[i] # NoShard /\ o = shards[i]
    BY Zenon DEF Registered
  <2>2. objs[o].id = i /\ i \notin touched
    BY <2>1 DEF StoreInv, Handles, Sound
  <2> QED
    BY <2>1, <2>2 DEF StoreInv, DisksKept, ShardKept
<1> QED
  BY <1>1, StoreInvariance, PTL

\* No two engines are open on one directory, however many callers create and delete shards:
\* CreateShard refuses the ids of pendingShardDeletes.
THEOREM OneEngineThm == StoreSpec => []OneEngine
<1>1. StoreInv => OneEngine
  <2> SUFFICES ASSUME StoreInv, NEW o \in DOMAIN objs, NEW p \in DOMAIN objs,
                      Open(o), Sound(o), Open(p), Sound(p), objs[o].id = objs[p].id
               PROVE  o = p
    BY DEF OneEngine
  <2>1. PICK i : i = objs[o].id
    OBVIOUS
  <2>2. /\ shards[i] = o \/ \E c \in Callers : call[c].pc \in {"series", "dropSeries", "close"} /\ call[c].obj = o
        /\ shards[i] = p \/ \E c \in Callers : call[c].pc \in {"series", "dropSeries", "close"} /\ call[c].obj = p
    BY <2>1, Zenon DEF StoreInv, EnginesHeld
  <2>3. ASSUME NEW c \in Callers, NEW q \in {o, p}, call[c].pc \in {"series", "dropSeries", "close"}, call[c].obj = q
        PROVE  call[c].pc \in Deleting /\ call[c].id = i /\ shards[i] = NoShard
    BY <2>1, <2>3 DEF StoreInv, Handles, PendingHeld, OfShard, Deleting
  <2>4. o # NoShard /\ p # NoShard
    BY TypesOf, StoreAssumption, SMTT(30)
  <2> QED
    BY <2>2, <2>3, <2>4 DEF StoreInv, PendingHeld
<1> QED
  BY <1>1, StoreInvariance, PTL

\* The series of a listed shard are in the series file, whichever shards are deleted
\* (DeleteShard's comparison of the shards' series).
THEOREM SeriesKeptThm == StoreSpec => []SeriesKept
<1>1. StoreInv => SeriesKept
  <2> SUFFICES ASSUME StoreInv, NEW o \in Registered, Open(o), Sound(o)
               PROVE  objs[o].index \subseteq Live
    BY Zenon DEF SeriesKept
  <2>1. PICK i \in Ids : shards[i] # NoShard /\ o = shards[i]
    BY Zenon DEF Registered
  <2>2. i \notin touched
    BY <2>1 DEF StoreInv, Handles, Sound
  <2> QED
    BY <2>1, <2>2 DEF StoreInv, DisksKept, ShardKept
<1> QED
  BY <1>1, StoreInvariance, PTL

=============================================================================
