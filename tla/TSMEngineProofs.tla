-------------------------- MODULE TSMEngineProofs ---------------------------
(***************************************************************************)
(* Proofs about the storage engine: for any keys, writers and bounds, what *)
(* the newest of a set of files says of a key, and that no step of a       *)
(* compaction changes what is read, now or after a crash.                  *)
(***************************************************************************)
EXTENDS TSMEngine, WellFoundedInduction, TLAPS

\* A set of numbers that is not empty and has a bound has a largest one.
LEMMA LargestNumber ==
  ASSUME NEW n \in Nat, NEW S, S \subseteq 0 .. n, S # {}
  PROVE  \E x \in S : \A y \in S : y <= x
<1> DEFINE T == {n - x : x \in S}
           R == OpToRel(<, Nat)
<1>1. T \subseteq Nat /\ T # {}
  <2>1. \A x \in S : n - x \in Nat
    OBVIOUS
  <2> QED
    BY <2>1, Zenon
<1>2. IsWellFoundedOn(R, Nat)
  BY NatLessThanWellFounded, Zenon
<1> HIDE DEF R
<1>3. PICK t \in T : \A u \in T : <<u, t>> \notin R
  BY <1>1, <1>2, WFMin, Zenon
<1>4. PICK x \in S : t = n - x
  OBVIOUS
<1>5. ASSUME NEW y \in S PROVE y <= x
  <2>1. n - y \in T /\ n - y \in Nat /\ n - x \in Nat
    OBVIOUS
  <2>2. ~(n - y < n - x)
    BY <1>3, <1>4, <2>1, Zenon DEF R, OpToRel
  <2> QED
    BY <2>2
<1> QED
  BY <1>5

FileIds == (1 .. MaxGen) \X (1 .. MaxSeq + 1)

\* Of a set of files, one is the newest.
LEMMA NewestFile ==
  ASSUME NEW H, H \subseteq FileIds, H # {}
  PROVE  \E f \in H : \A g \in H : g = f \/ Older(g, f)
<1>0. MaxGen \in Nat /\ MaxSeq + 1 \in Nat
  BY TSMAssumption
<1>1. \A f \in H : f = <<f[1], f[2]>> /\ f[1] \in 1 .. MaxGen /\ f[2] \in 1 .. MaxSeq + 1
  BY DEF FileIds
<1> DEFINE G == {f[1] : f \in H}
<1>2. PICK m \in G : \A y \in G : y <= m
  <2>1. G \subseteq 0 .. MaxGen /\ G # {}
    BY <1>0, <1>1
  <2> QED
    BY <1>0, <2>1, LargestNumber, Zenon
<1> DEFINE Q == {f[2] : f \in {g \in H : g[1] = m}}
<1>3. PICK q \in Q : \A y \in Q : y <= q
  <2>1. Q \subseteq 0 .. MaxSeq + 1 /\ Q # {}
    BY <1>0, <1>1
  <2> QED
    BY <1>0, <2>1, LargestNumber, Zenon
<1>4. PICK f \in H : f[1] = m /\ f[2] = q
  OBVIOUS
<1>5. ASSUME NEW g \in H PROVE g = f \/ Older(g, f)
  <2>1. g[1] <= m /\ g[1] \in Int /\ m \in Int
    BY <1>1, <1>2, <1>4
  <2>2. CASE g[1] # m
    BY <1>4, <2>1, <2>2 DEF Older
  <2>3. CASE g[1] = m
    <3>1. g[2] <= q /\ g[2] \in Int /\ q \in Int
      BY <1>1, <1>3, <1>4, <2>3
    <3>2. CASE g[2] = q
      <4>1. g = f
        BY <1>1, <1>4, <2>3, <3>2
      <4> QED
        BY <4>1
    <3>3. CASE g[2] # q
      BY <1>4, <2>3, <3>1, <3>3 DEF Older
    <3> QED
      BY <3>2, <3>3
  <2> QED
    BY <2>2, <2>3
<1> QED
  BY <1>5

\* f is the newest of the files fs that have a value of k.
Newest(ts, fs, k, f) ==
  /\ f \in fs /\ ts[f][k] # 0
  /\ \A g \in fs : ts[g][k] # 0 => g = f \/ Older(g, f)

\* ValueIn returns the value of that file, or none.
Found(ts, fs, k) == \E f \in fs : Newest(ts, fs, k, f) /\ ValueIn(ts, fs, k) = ts[f][k]
Missing(ts, fs, k) == \A f \in fs : ts[f][k] = 0

LEMMA ValueIs ==
  ASSUME NEW ts, NEW fs, fs \subseteq FileIds, NEW k, NEW f, Newest(ts, fs, k, f)
  PROVE  ValueIn(ts, fs, k) = ts[f][k]
<1> DEFINE having == {g \in fs : ts[g][k] # 0}
           best(x) == \A g \in having : g = x \/ Older(g, x)
<1>1. f \in having /\ best(f)
  BY DEF Newest
<1>2. \A x \in having : best(x) => x = f
  BY <1>1 DEF Older, FileIds
<1>3. (CHOOSE x \in having : best(x)) = f
  BY <1>1, <1>2
<1> QED
  BY <1>1, <1>3, Zenon DEF ValueIn

LEMMA ValueNone ==
  ASSUME NEW ts, NEW fs, NEW k, \A f \in fs : ts[f][k] = 0
  PROVE  ValueIn(ts, fs, k) = 0
<1>1. {f \in fs : ts[f][k] # 0} = {}
  OBVIOUS
<1> QED
  BY <1>1 DEF ValueIn

LEMMA ValueFound ==
  ASSUME NEW ts, NEW fs, fs \subseteq FileIds, NEW k
  PROVE  Missing(ts, fs, k) \/ Found(ts, fs, k)
<1> DEFINE having == {g \in fs : ts[g][k] # 0}
<1>1. CASE having = {}
  BY <1>1 DEF Missing
<1>2. CASE having # {}
  <2>1. having \subseteq FileIds
    OBVIOUS
  <2>2. PICK f \in having : \A g \in having : g = f \/ Older(g, f)
    BY <1>2, <2>1, NewestFile, Zenon
  <2>3. f \in fs /\ Newest(ts, fs, k, f)
    BY <2>2 DEF Newest
  <2> QED
    BY <2>3, ValueIs DEF Found
<1> QED
  BY <1>1, <1>2

-----------------------------------------------------------------------------
(* Compactions *)

\* Two stores of files in which the newest file with a value holds the same one.
LEMMA ValueSame ==
  ASSUME NEW ts, NEW us, NEW fs, fs \subseteq FileIds, NEW k, \A f \in fs : ts[f][k] = us[f][k]
  PROVE  ValueIn(ts, fs, k) = ValueIn(us, fs, k)
<1>1. CASE Missing(ts, fs, k)
  <2>1. \A f \in fs : us[f][k] = 0
    BY <1>1 DEF Missing
  <2> QED
    BY <1>1, <2>1, ValueNone DEF Missing
<1>2. CASE Found(ts, fs, k)
  <2>1. PICK f \in fs : Newest(ts, fs, k, f) /\ ValueIn(ts, fs, k) = ts[f][k]
    BY <1>2 DEF Found
  <2>2. Newest(us, fs, k, f)
    BY <2>1 DEF Newest
  <2>3. ValueIn(us, fs, k) = us[f][k]
    BY <2>2, ValueIs
  <2> QED
    BY <2>1, <2>3
<1> QED
  BY <1>1, <1>2, ValueFound

\* A file takes the place of a group of files when it has what they have and comes right
\* behind them; some of the group may stay.
Splices(ts, us, fs, k, group, gone, file) ==
  /\ fs \subseteq FileIds /\ group \subseteq fs /\ gone \subseteq group /\ file \in FileIds \ fs
  /\ \A f \in fs : us[f][k] = ts[f][k]
  /\ us[file][k] = ValueIn(ts, group, k)
  /\ \A g \in group : Older(g, file)
  /\ \A g \in fs \ group : Older(file, g) \/ (Older(g, file) /\ \A h \in group : Older(g, h))

LEMMA Spliced ==
  ASSUME NEW ts, NEW us, NEW fs, NEW k, NEW group, NEW gone, NEW file, Splices(ts, us, fs, k, group, gone, file)
  PROVE  ValueIn(us, (fs \ gone) \cup {file}, k) = ValueIn(ts, fs, k)
<1> USE DEF Splices
<1> DEFINE new == (fs \ gone) \cup {file}
<1>0. new \subseteq FileIds /\ group \subseteq FileIds
  OBVIOUS
<1>1. CASE Missing(ts, fs, k)
  <2>1. ValueIn(ts, fs, k) = 0
    BY <1>1, ValueNone DEF Missing
  <2>2. ValueIn(ts, group, k) = 0
    BY <1>1, ValueNone DEF Missing
  <2>3. \A f \in new : us[f][k] = 0
    BY <1>1, <2>2 DEF Missing
  <2>4. ValueIn(us, new, k) = 0
    BY <2>3, ValueNone
  <2> QED
    BY <2>1, <2>4
<1>2. CASE Found(ts, fs, k)
  <2>1. PICK f \in fs : Newest(ts, fs, k, f) /\ ValueIn(ts, fs, k) = ts[f][k]
    BY <1>2 DEF Found
  <2>2. CASE f \in group
    <3>1. ValueIn(ts, group, k) = ts[f][k]
      <4>1. Newest(ts, group, k, f)
        BY <2>1, <2>2 DEF Newest
      <4> QED
        BY <1>0, <4>1, ValueIs
    <3>2. ASSUME NEW g \in new, us[g][k] # 0 PROVE g = file \/ Older(g, file)
      <4>1. CASE g \in fs \ group
        <5>1. Older(g, f) /\ Older(f, file)
          BY <2>1, <2>2, <3>2, <4>1 DEF Newest
        <5> QED
          BY <5>1, <4>1, <1>0 DEF Older, FileIds
      <4> QED
        BY <4>1, <3>2
    <3>3. Newest(us, new, k, file)
      BY <2>1, <3>1, <3>2 DEF Newest
    <3>4. ValueIn(us, new, k) = us[file][k]
      BY <1>0, <3>3, ValueIs
    <3> QED
      BY <2>1, <3>1, <3>4
  <2>3. CASE f \notin group
    <3>1. ASSUME us[file][k] # 0 PROVE Older(file, f)
      <4>1. PICK h \in group : ts[h][k] # 0
        BY <3>1, ValueNone
      <4>2. Older(h, f)
        BY <2>1, <2>3, <4>1 DEF Newest
      <4>3. ~Older(f, h)
        BY <4>2, <1>0 DEF Older, FileIds
      <4> QED
        BY <2>3, <4>3
    <3>2. Newest(us, new, k, f) /\ us[f][k] = ts[f][k]
      BY <2>1, <2>3, <3>1 DEF Newest
    <3>3. ValueIn(us, new, k) = us[f][k]
      BY <1>0, <3>2, ValueIs
    <3> QED
      BY <2>1, <3>2, <3>3
  <2> QED
    BY <2>2, <2>3
<1> QED
  BY <1>1, <1>2, ValueFound

\* Files go unnoticed that have no value or are older than one that has.
Drops(ts, us, fs, k, gone) ==
  /\ fs \subseteq FileIds /\ gone \subseteq fs
  /\ \A f \in fs \ gone : us[f][k] = ts[f][k]
  /\ \A f \in gone : ts[f][k] = 0 \/ \E g \in fs \ gone : ts[g][k] # 0 /\ Older(f, g)

LEMMA Dropped ==
  ASSUME NEW ts, NEW us, NEW fs, NEW k, NEW gone, Drops(ts, us, fs, k, gone)
  PROVE  ValueIn(us, fs \ gone, k) = ValueIn(ts, fs, k)
<1> USE DEF Drops
<1>0. fs \ gone \subseteq FileIds
  OBVIOUS
<1>1. CASE Missing(ts, fs, k)
  <2>1. ValueIn(ts, fs, k) = 0
    BY <1>1, ValueNone DEF Missing
  <2>2. ValueIn(us, fs \ gone, k) = 0
    BY <1>1, ValueNone DEF Missing
  <2> QED
    BY <2>1, <2>2
<1>2. CASE Found(ts, fs, k)
  <2>1. PICK f \in fs : Newest(ts, fs, k, f) /\ ValueIn(ts, fs, k) = ts[f][k]
    BY <1>2 DEF Found
  <2>2. f \notin gone
    <3>1. SUFFICES ASSUME f \in gone PROVE FALSE
      OBVIOUS
    <3>2. PICK g \in fs \ gone : ts[g][k] # 0 /\ Older(f, g)
      BY <2>1, <3>1 DEF Newest
    <3>3. Older(g, f)
      BY <2>1, <3>1, <3>2 DEF Newest
    <3> QED
      BY <3>2, <3>3 DEF Older, FileIds
  <2>3. Newest(us, fs \ gone, k, f) /\ us[f][k] = ts[f][k]
    BY <2>1, <2>2 DEF Newest
  <2>4. ValueIn(us, fs \ gone, k) = us[f][k]
    BY <1>0, <2>3, ValueIs
  <2> QED
    BY <2>1, <2>3, <2>4
<1> QED
  BY <1>1, <1>2, ValueFound

-----------------------------------------------------------------------------
(* What holds between the steps of a compaction *)

\* The records of the snapshot, the compaction and the delete that are under way.
Tasks ==
  /\ sn = [pc |-> sn.pc, closed |-> sn.closed, file |-> sn.file]
  /\ comp = [pc |-> comp.pc, group |-> comp.group, vals |-> comp.vals, file |-> comp.file]
  /\ del = [pc |-> del.pc, key |-> del.key, todo |-> del.todo, found |-> del.found]
  /\ count = [ver |-> count.ver, del |-> count.del, fail |-> count.fail, crash |-> count.crash]
  /\ count.crash \in Nat

\* The files on disk.  One that is not listed is a snapshot's or a compaction's that is
\* about to be, or one that a compaction is removing.
Stored ==
  /\ gen \in Nat
  /\ DOMAIN tsm \subseteq FileIds
  /\ \A f \in DOMAIN tsm : f[1] <= gen
  /\ DOMAIN tsm = files \cup (IF sn.pc = "install" THEN {sn.file} ELSE {})
                        \cup (IF comp.pc = "swap" THEN {comp.file} \ {NoFile} ELSE {})
                        \cup (IF comp.pc = "unlink" THEN comp.group ELSE {})

\* A snapshot's file is newer than all others until it is listed.
SnapshotNewest ==
  /\ sn.pc \in {"rename", "install"} => sn.file = <<gen, 1>> /\ gen \in 1 .. MaxGen
  /\ sn.pc = "rename" => \A f \in DOMAIN tsm : f[1] < gen
  /\ sn.pc = "install" => sn.file \notin files /\ \A f \in DOMAIN tsm \ {sn.file} : f[1] < gen

\* The file a compaction makes comes right behind the newest of its group.
Behind(group, file) ==
  \E newest \in group : /\ file = <<newest[1], newest[2] + 1>>
                        /\ \A g \in group : g = newest \/ Older(g, newest)

\* Until it is swapped in, a compaction has what its group has, and nothing comes between.
Merging ==
  comp.pc \in {"merge", "rename", "swap"} =>
    /\ comp.group \subseteq files /\ Planned(comp.group)
    /\ comp.vals = Merged(comp.group)
    /\ \/ comp.vals = None /\ comp.file = NoFile
       \/ comp.vals # None /\ comp.file \in FileIds /\ Behind(comp.group, comp.file)

Swapping ==
  comp.pc = "swap" => comp.file = NoFile \/ (comp.file \in DOMAIN tsm \ files /\ tsm[comp.file] = comp.vals)

\* What is removed is not listed, and its values are not the newest.
Unlinking ==
  comp.pc = "unlink" =>
    /\ comp.group \cap files = {}
    /\ sn.pc = "install" => sn.file \notin comp.group
    /\ \A f \in comp.group, k \in Keys :
         tsm[f][k] # 0 => comp.file \in files /\ tsm[comp.file][k] # 0 /\ Older(f, comp.file)

\* A delete writes tombstones when no compaction runs, and none starts before it returns.
DeleteAlone ==
  /\ del.pc # "idle" => ~enabled
  /\ del.pc \notin {"idle", "wait"} => comp.pc = "idle"

TsmInv == Tasks /\ Stored /\ SnapshotNewest /\ Merging /\ Swapping /\ Unlinking /\ DeleteAlone

LEMMA TsmInit == Init => TsmInv
<1> SUFFICES ASSUME Init PROVE TsmInv
  OBVIOUS
<1>1. sn.pc = "idle" /\ comp.pc = "idle" /\ del.pc = "idle" /\ DOMAIN tsm = {} /\ files = {} /\ gen = 0
  BY DEF Init, SnapshotIdle, CompactIdle, DeleteIdle
<1>2. Tasks
  BY DEF Tasks, Init, SnapshotIdle, CompactIdle, DeleteIdle
<1>3. Stored
  BY <1>1 DEF Stored
<1> QED
  BY <1>1, <1>2, <1>3 DEF TsmInv, SnapshotNewest, Merging, Swapping, Unlinking, DeleteAlone

\* Where the file of a compaction stands among the others.
LEMMA FileBehind ==
  ASSUME Stored, SnapshotNewest, Merging, comp.pc \in {"merge", "rename", "swap"}, comp.file # NoFile
  PROVE  /\ comp.file \in FileIds /\ comp.file \notin files
         /\ \A g \in comp.group : Older(g, comp.file)
         /\ \A g \in files \ comp.group :
              Older(comp.file, g) \/ (Older(g, comp.file) /\ \A h \in comp.group : Older(g, h))
         /\ sn.pc \in {"rename", "install"} =>
              /\ comp.file # sn.file /\ comp.file[1] < gen
              /\ Older(comp.file, sn.file)
<1>1. /\ comp.group \subseteq files /\ Planned(comp.group)
      /\ comp.file \in FileIds /\ Behind(comp.group, comp.file)
  BY DEF Merging
<1>2. PICK newest \in comp.group : /\ comp.file = <<newest[1], newest[2] + 1>>
                                   /\ \A g \in comp.group : g = newest \/ Older(g, newest)
  BY <1>1 DEF Behind
<1>3. files \subseteq FileIds
  BY DEF Stored
<1>4. /\ newest \in FileIds /\ newest[1] \in Int /\ newest[2] \in Int /\ newest[2] >= 1
      /\ comp.file[1] = newest[1] /\ comp.file[2] = newest[2] + 1
  BY <1>1, <1>2, <1>3 DEF FileIds
<1>5. \A g \in FileIds : g[1] \in Int /\ g[2] \in Int
  BY DEF FileIds
<1>6. \A g \in comp.group : Older(g, comp.file)
  BY <1>1, <1>2, <1>3, <1>4, <1>5 DEF Older
<1>7. ASSUME NEW g \in files \ comp.group
      PROVE  Older(comp.file, g) \/ (Older(g, comp.file) /\ \A h \in comp.group : Older(g, h))
  <2>1. CASE newest[1] < g[1]
    BY <1>3, <1>4, <1>5, <2>1 DEF Older
  <2>2. CASE g[1] <= newest[1]
    <3>1. \A h \in comp.group : ~(h[1] <= g[1])
      BY <1>1, <1>2, <2>2 DEF Planned
    <3>2. \A h \in comp.group : h[1] \in Int /\ g[1] \in Int
      BY <1>1, <1>3, <1>5
    <3>3. \A h \in comp.group : g[1] < h[1]
      BY <3>1, <3>2
    <3> QED
      BY <1>2, <1>4, <3>3 DEF Older
  <2> QED
    BY <1>3, <1>4, <1>5, <2>1, <2>2
<1>8. comp.file \notin files
  <2>1. ASSUME comp.file \in comp.group PROVE FALSE
    <3>1. Older(comp.file, comp.file)
      BY <1>6, <2>1
    <3> QED
      BY <1>4, <3>1 DEF Older
  <2>2. ASSUME comp.file \in files \ comp.group PROVE FALSE
    <3>1. Older(comp.file, comp.file)
      BY <1>7, <2>2
    <3> QED
      BY <1>4, <3>1 DEF Older
  <2> QED
    BY <2>1, <2>2
<1>9. ASSUME sn.pc \in {"rename", "install"}
      PROVE  comp.file # sn.file /\ comp.file[1] < gen /\ Older(comp.file, sn.file)
  <2>1. sn.file = <<gen, 1>> /\ sn.file[1] = gen /\ sn.file[2] = 1
    BY <1>9 DEF SnapshotNewest
  <2>2. comp.file # sn.file
    BY <1>4, <2>1
  <2>3. newest \in files /\ newest \in DOMAIN tsm
    BY <1>1, <1>2 DEF Stored
  <2>4. newest[1] < gen
    BY <1>9, <2>3 DEF SnapshotNewest
  <2> QED
    BY <1>4, <2>1, <2>2, <2>4 DEF Older
<1> QED
  BY <1>1, <1>6, <1>7, <1>8, <1>9

\* Steps that leave the files and the compaction alone, and start no file.
LEMMA TsmQuiet ==
  ASSUME TsmInv, UNCHANGED <<tsm, files, comp>>, Tasks', DeleteAlone',
         \/ sn' = sn /\ gen' = gen
         \/ sn.pc # "install" /\ sn'.pc \notin {"rename", "install"} /\ gen' \in Nat /\ gen <= gen'
  PROVE  TsmInv'
<1>1. Stored'
  <2>1. gen' \in Nat /\ \A f \in DOMAIN tsm : f[1] <= gen'
    BY DEF TsmInv, Stored, FileIds
  <2>2. (sn'.pc = "install") = (sn.pc = "install") /\ (sn.pc = "install" => sn'.file = sn.file)
    OBVIOUS
  <2> QED
    BY <2>1, <2>2 DEF TsmInv, Stored
<1>2. SnapshotNewest'
  BY DEF TsmInv, SnapshotNewest
<1>3. Merging'
  BY DEF TsmInv, Merging, Planned, Merged
<1>4. Swapping' /\ Unlinking'
  BY DEF TsmInv, Swapping, Unlinking
<1> QED
  BY <1>1, <1>2, <1>3, <1>4 DEF TsmInv

LEMMA WritesKeep ==
  ASSUME TsmInv, (\E w \in Writers : (\E k \in Keys : WriteCache(w, k)) \/ WriteLog(w)) \/ SyncLog
  PROVE  TsmInv'
<1>1. UNCHANGED <<tsm, files, comp, sn, gen, enabled>>
  BY Zenon DEF WriteCache, WriteLog, SyncLog
<1>2. /\ count' = [ver |-> count'.ver, del |-> count'.del, fail |-> count'.fail, crash |-> count'.crash]
      /\ count'.crash = count.crash
  <2>1. CASE \E w \in Writers, k \in Keys : WriteCache(w, k)
    <3>1. PICK v : count' = [count EXCEPT !.ver = v]
      BY <2>1, Zenon DEF WriteCache
    <3> QED
      BY <3>1 DEF TsmInv, Tasks
  <2>2. CASE count' = count
    BY <2>2 DEF TsmInv, Tasks
  <2> QED
    BY <2>1, <2>2, Zenon DEF WriteLog, SyncLog
<1>3. del' = del \/ del' = DeleteSynced
  BY Zenon DEF WriteCache, WriteLog, SyncLog
<1>4. /\ del' = [pc |-> del'.pc, key |-> del'.key, todo |-> del'.todo, found |-> del'.found]
      /\ del'.pc = del.pc \/ (del.pc = "sync" /\ del'.pc = "enable")
  BY <1>3 DEF TsmInv, Tasks, DeleteSynced
<1>5. Tasks'
  BY <1>1, <1>2, <1>4 DEF TsmInv, Tasks
<1>6. DeleteAlone'
  BY <1>1, <1>4 DEF TsmInv, DeleteAlone
<1> QED
  BY <1>1, <1>5, <1>6, TsmQuiet

LEMMA SnapshotsKeep ==
  ASSUME TsmInv, Grab \/ GrabBusy \/ SnapshotFail \/ RemoveSegment
  PROVE  TsmInv'
<1>1. UNCHANGED <<tsm, files, comp, enabled>>
  BY DEF Grab, GrabBusy, SnapshotFail, RemoveSegment
<1>2. /\ count' = [ver |-> count'.ver, del |-> count'.del, fail |-> count'.fail, crash |-> count'.crash]
      /\ count'.crash = count.crash
  <2>1. CASE SnapshotFail
    <3>1. PICK v : count' = [count EXCEPT !.fail = v]
      BY <2>1, Zenon DEF SnapshotFail
    <3> QED
      BY <3>1 DEF TsmInv, Tasks
  <2>2. CASE count' = count
    BY <2>2 DEF TsmInv, Tasks
  <2> QED
    BY <2>1, <2>2 DEF Grab, GrabBusy, RemoveSegment
<1>3. del' = del \/ del' = DeleteSynced
  BY DEF Grab, GrabBusy, SnapshotFail, RemoveSegment
<1>4. /\ del' = [pc |-> del'.pc, key |-> del'.key, todo |-> del'.todo, found |-> del'.found]
      /\ del'.pc = del.pc \/ (del.pc = "sync" /\ del'.pc = "enable")
  BY <1>3 DEF TsmInv, Tasks, DeleteSynced
<1>5. /\ sn' = [pc |-> sn'.pc, closed |-> sn'.closed, file |-> sn'.file]
      /\ \/ sn' = sn /\ gen' = gen
         \/ sn.pc # "install" /\ sn'.pc \notin {"rename", "install"} /\ gen' \in Nat /\ gen <= gen'
  <2>1. gen \in Nat
    BY DEF TsmInv, Stored
  <2>2. CASE Grab
    <3>1. sn.pc = "idle" /\ gen' = gen /\ (sn' = sn \/ sn' = [sn EXCEPT !.pc = "write", !.closed = ClosedSegments(CloseSegment(log))])
      BY <2>2 DEF Grab
    <3>2. CASE sn' = sn
      BY <3>1, <3>2 DEF TsmInv, Tasks
    <3>3. CASE sn' # sn
      <4>1. sn' = [pc |-> "write", closed |-> ClosedSegments(CloseSegment(log)), file |-> sn.file]
        BY <3>1, <3>3, Zenon DEF TsmInv, Tasks
      <4>2. sn'.pc = "write" /\ sn' = [pc |-> sn'.pc, closed |-> sn'.closed, file |-> sn'.file]
        BY <4>1
      <4> QED
        BY <2>1, <3>1, <4>2
    <3> QED
      BY <3>2, <3>3
  <2>3. CASE GrabBusy
    BY <2>3 DEF TsmInv, Tasks, GrabBusy
  <2>4. CASE SnapshotFail
    BY <2>1, <2>4 DEF TsmInv, Tasks, SnapshotFail, SnapshotIdle
  <2>5. CASE RemoveSegment
    <3>1. sn.pc = "clean" /\ gen' = gen /\ (sn' = SnapshotIdle \/ sn' = [sn EXCEPT !.closed = @ \ {Min(sn.closed)}])
      BY <2>5 DEF RemoveSegment
    <3> QED
      BY <2>1, <3>1 DEF TsmInv, Tasks, SnapshotIdle
  <2> QED
    BY <2>2, <2>3, <2>4, <2>5
<1>6. Tasks'
  BY <1>1, <1>2, <1>4, <1>5 DEF TsmInv, Tasks
<1>7. DeleteAlone'
  BY <1>1, <1>4 DEF TsmInv, DeleteAlone
<1> QED
  BY <1>1, <1>5, <1>6, <1>7, TsmQuiet

LEMMA DeletesKeep ==
  ASSUME TsmInv,
         (\E k \in Keys : DeleteStart(k)) \/ DeleteApply \/ DeleteFind \/ DeleteCache \/ DeleteLog \/ DeleteReturn
  PROVE  TsmInv'
<1>1. UNCHANGED <<tsm, files, comp, sn, gen>>
  BY Zenon DEF DeleteStart, DeleteApply, DeleteFind, DeleteCache, DeleteLog, DeleteReturn, engine
<1>2. /\ count' = [ver |-> count'.ver, del |-> count'.del, fail |-> count'.fail, crash |-> count'.crash]
      /\ count'.crash = count.crash
  <2>1. CASE \E k \in Keys : DeleteStart(k)
    <3>1. PICK v : count' = [count EXCEPT !.del = v]
      BY <2>1, Zenon DEF DeleteStart
    <3> QED
      BY <3>1 DEF TsmInv, Tasks
  <2>2. CASE count' = count
    BY <2>2 DEF TsmInv, Tasks
  <2> QED
    BY <2>1, <2>2, Zenon DEF DeleteApply, DeleteFind, DeleteCache, DeleteLog, DeleteReturn
<1>3. del' = [pc |-> del'.pc, key |-> del'.key, todo |-> del'.todo, found |-> del'.found]
  <2>1. del = [pc |-> del.pc, key |-> del.key, todo |-> del.todo, found |-> del.found]
    BY DEF TsmInv, Tasks
  <2> QED
    BY <2>1, Zenon DEF DeleteStart, DeleteApply, DeleteFind, DeleteCache, DeleteLog, DeleteReturn, DeleteIdle
<1>4. Tasks'
  BY <1>1, <1>2, <1>3 DEF TsmInv, Tasks
<1>5. DeleteAlone'
  <2>1. del = [pc |-> del.pc, key |-> del.key, todo |-> del.todo, found |-> del.found]
    BY DEF TsmInv, Tasks
  <2>2. CASE \E k \in Keys : DeleteStart(k)
    BY <2>2 DEF DeleteStart, DeleteAlone
  <2>3. CASE DeleteApply
    BY <2>1, <2>3 DEF DeleteApply, DeleteAlone, TsmInv
  <2>4. CASE DeleteFind
    BY <2>1, <2>4 DEF DeleteFind, DeleteAlone, TsmInv
  <2>5. CASE DeleteCache
    BY <2>1, <2>5 DEF DeleteCache, DeleteAlone, TsmInv
  <2>6. CASE DeleteLog
    BY <2>1, <2>6 DEF DeleteLog, DeleteAlone, TsmInv
  <2>7. CASE DeleteReturn
    BY <2>7 DEF DeleteReturn, DeleteAlone, DeleteIdle
  <2> QED
    BY <2>2, <2>3, <2>4, <2>5, <2>6, <2>7
<1> QED
  BY <1>1, <1>4, <1>5, TsmQuiet

LEMMA SnapshotWriteKeeps == ASSUME TsmInv, SnapshotWrite PROVE TsmInv'
<1>1. /\ UNCHANGED <<tsm, files, comp, enabled, del, count>>
      /\ sn.pc = "write" /\ gen < MaxGen /\ gen' = gen + 1
      /\ sn' = [pc |-> "rename", closed |-> sn.closed, file |-> <<gen + 1, 1>>]
  BY Zenon DEF SnapshotWrite, TsmInv, Tasks
<1>2. gen \in Nat /\ MaxGen \in Nat
  BY TSMAssumption DEF TsmInv, Stored
<1>3. Tasks' /\ DeleteAlone'
  BY <1>1 DEF TsmInv, Tasks, DeleteAlone
<1>4. \A f \in DOMAIN tsm : f[1] \in Nat /\ f[1] <= gen
  BY DEF TsmInv, Stored, FileIds
<1>5. Stored'
  <2>1. \A f \in DOMAIN tsm : f[1] <= gen'
    BY <1>1, <1>2, <1>4, SMTT(30)
  <2> QED
    BY <1>1, <1>2, <2>1 DEF TsmInv, Stored
<1>6. SnapshotNewest'
  <2>1. \A f \in DOMAIN tsm : f[1] < gen'
    BY <1>1, <1>2, <1>4, SMTT(30)
  <2> QED
    BY <1>1, <1>2, <2>1, SMTT(30) DEF SnapshotNewest
<1>7. Merging'
  BY <1>1 DEF TsmInv, Merging, Planned, Merged
<1>8. Swapping' /\ Unlinking'
  BY <1>1 DEF TsmInv, Swapping, Unlinking
<1> QED
  BY <1>3, <1>5, <1>6, <1>7, <1>8 DEF TsmInv

\* A file that is added leaves what the files of a compaction hold as it is.
LEMMA MergedKept ==
  ASSUME Merging, comp' = comp, files \subseteq FileIds, \A f \in files : tsm'[f] = tsm[f],
         comp.pc \in {"merge", "rename", "swap"}
  PROVE  comp.vals = Merged(comp.group)'
<1>1. comp.group \subseteq files /\ comp.vals = Merged(comp.group)
  BY DEF Merging
<1>2. comp.group \subseteq FileIds /\ \A k \in Keys, f \in comp.group : tsm[f][k] = tsm'[f][k]
  BY <1>1
<1>3. \A k \in Keys : ValueIn(tsm, comp.group, k) = ValueIn(tsm', comp.group, k)
  BY <1>2, ValueSame
<1> QED
  BY <1>1, <1>3 DEF Merged

LEMMA SnapshotRenameKeeps == ASSUME TsmInv, SnapshotRename PROVE TsmInv'
<1>1. /\ UNCHANGED <<files, gen, comp, enabled, del, count>> /\ sn.pc = "rename"
      /\ sn' = [pc |-> "install", closed |-> sn.closed, file |-> sn.file]
      /\ DOMAIN tsm' = DOMAIN tsm \cup {sn.file} /\ \A f \in DOMAIN tsm : f # sn.file => tsm'[f] = tsm[f]
  BY DEF SnapshotRename, TsmInv, Tasks
<1>2. /\ sn.file = <<gen, 1>> /\ sn.file[1] = gen /\ gen \in 1 .. MaxGen /\ \A f \in DOMAIN tsm : f[1] < gen
      /\ sn.file \in FileIds
  <2>1. sn.file = <<gen, 1>> /\ gen \in 1 .. MaxGen /\ \A f \in DOMAIN tsm : f[1] < gen
    BY <1>1 DEF TsmInv, SnapshotNewest
  <2>2. <<gen, 1>> \in FileIds
    BY <2>1, TSMAssumption DEF FileIds
  <2> QED
    BY <2>1, <2>2
<1>3. gen \in Nat /\ DOMAIN tsm \subseteq FileIds /\ files \subseteq DOMAIN tsm
  BY DEF TsmInv, Stored
<1>4. sn.file \notin DOMAIN tsm /\ \A f \in DOMAIN tsm : tsm'[f] = tsm[f]
  BY <1>1, <1>2, <1>3
<1>5. Tasks' /\ DeleteAlone'
  BY <1>1 DEF TsmInv, Tasks, DeleteAlone
<1>6. Stored'
  <2>1. \A f \in DOMAIN tsm' : f[1] <= gen'
    BY <1>1, <1>2, <1>3 DEF TsmInv, Stored
  <2>2. DOMAIN tsm' \subseteq FileIds
    BY <1>1, <1>2, <1>3
  <2> QED
    BY <1>1, <1>3, <2>1, <2>2 DEF TsmInv, Stored
<1>7. SnapshotNewest'
  BY <1>1, <1>2, <1>3, <1>4 DEF SnapshotNewest
<1>8. Merging'
  <2> SUFFICES ASSUME comp.pc \in {"merge", "rename", "swap"} PROVE Merging'
    BY <1>1 DEF Merging
  <2>1. comp.vals = Merged(comp.group)'
    BY <1>1, <1>3, <1>4, MergedKept DEF TsmInv
  <2> QED
    BY <1>1, <2>1, Zenon DEF TsmInv, Merging, Planned
<1>9. Swapping'
  BY <1>1, <1>3, <1>4 DEF TsmInv, Swapping
<1>10. Unlinking'
  <2>1. comp.pc = "unlink" => comp.group \subseteq DOMAIN tsm
    BY DEF TsmInv, Stored
  <2> QED
    BY <1>1, <1>3, <1>4, <2>1 DEF TsmInv, Unlinking
<1> QED
  BY <1>5, <1>6, <1>7, <1>8, <1>9, <1>10 DEF TsmInv

LEMMA SnapshotInstallKeeps == ASSUME TsmInv, SnapshotInstall PROVE TsmInv'
<1>1. /\ UNCHANGED <<tsm, gen, comp, enabled, del, count>> /\ sn.pc = "install" /\ comp.pc # "unlink"
      /\ files' = files \cup {sn.file}
      /\ sn' = [pc |-> sn'.pc, closed |-> sn'.closed, file |-> sn'.file] /\ sn'.pc \in {"idle", "clean"}
  <2>1. sn' = SnapshotIdle \/ sn' = [sn EXCEPT !.pc = "clean"]
    BY DEF SnapshotInstall
  <2> QED
    BY <2>1, Zenon DEF SnapshotInstall, SnapshotIdle, TsmInv, Tasks
<1>2. /\ sn.file = <<gen, 1>> /\ sn.file[1] = gen /\ gen \in Nat
      /\ sn.file \notin files /\ \A f \in DOMAIN tsm \ {sn.file} : f[1] < gen
  BY <1>1 DEF TsmInv, SnapshotNewest
<1>3. DOMAIN tsm \subseteq FileIds /\ files \subseteq DOMAIN tsm
  BY DEF TsmInv, Stored
<1>4. Tasks' /\ DeleteAlone'
  BY <1>1 DEF TsmInv, Tasks, DeleteAlone
<1>5. Stored'
  BY <1>1 DEF TsmInv, Stored
<1>6. SnapshotNewest' /\ Unlinking'
  BY <1>1 DEF SnapshotNewest, Unlinking
<1>7. Merging'
  <2> SUFFICES ASSUME comp.pc \in {"merge", "rename", "swap"} PROVE Merging'
    BY <1>1 DEF Merging
  <2>1. comp.group \subseteq files /\ Planned(comp.group)
    BY DEF TsmInv, Merging
  <2>2. \A h \in comp.group : ~(gen <= h[1])
    BY <1>2, <1>3, <2>1 DEF FileIds
  <2>3. Planned(comp.group)'
    BY <1>1, <1>2, <2>1, <2>2 DEF Planned
  <2> QED
    BY <1>1, <2>1, <2>3 DEF TsmInv, Merging, Merged
<1>8. Swapping'
  <2> SUFFICES ASSUME comp.pc = "swap", comp.file # NoFile PROVE comp.file # sn.file
    BY <1>1 DEF TsmInv, Swapping
  <2> QED
    BY <1>1, FileBehind DEF TsmInv
<1> QED
  BY <1>4, <1>5, <1>6, <1>7, <1>8 DEF TsmInv


LEMMA CompactStartKeeps ==
  ASSUME TsmInv, NEW group \in (SUBSET files) \ {{}}, CompactStart(group)
  PROVE  TsmInv'
<1> DEFINE newest == CHOOSE f \in group : \A g \in group : g = f \/ Older(g, f)
           file == <<newest[1], newest[2] + 1>>
<1>1. /\ UNCHANGED <<tsm, files, gen, sn, enabled, del, count>> /\ comp.pc = "idle" /\ enabled
      /\ Planned(group) /\ newest[2] < MaxSeq
      /\ comp' = [pc |-> "merge", group |-> group, vals |-> Merged(group),
                  file |-> IF Merged(group) = None THEN NoFile ELSE file]
  BY DEF CompactStart, engine
<1>2. group \subseteq FileIds /\ group # {}
  BY DEF TsmInv, Stored
<1>3. newest \in group /\ \A g \in group : g = newest \/ Older(g, newest)
  BY <1>2, NewestFile
<1> HIDE DEF newest
<1>4. Behind(group, file)
  BY <1>3 DEF Behind
<1>5. file \in FileIds
  <2>1. newest[1] \in 1 .. MaxGen /\ newest[2] \in 1 .. MaxSeq + 1 /\ MaxSeq \in Nat
    BY <1>2, <1>3, TSMAssumption DEF FileIds
  <2>2. newest[2] + 1 \in 1 .. MaxSeq + 1
    BY <1>1, <2>1, SMTT(30)
  <2> QED
    BY <2>1, <2>2 DEF FileIds
<1>6. Tasks'
  BY <1>1 DEF TsmInv, Tasks
<1>7. DeleteAlone'
  BY <1>1, Zenon DEF TsmInv, DeleteAlone
<1>8. Stored' /\ SnapshotNewest'
  BY <1>1, Zenon DEF TsmInv, Stored, SnapshotNewest
<1>9. Merging'
  <2>1. Merged(group)' = Merged(group) /\ Planned(group)'
    BY <1>1 DEF Merged, Planned
  <2>2. None' = None /\ Behind(group, file)' = Behind(group, file)
    BY DEF None
  <2>3. CASE Merged(group) = None
    <3>1. comp'.pc = "merge" /\ comp'.group = group /\ comp'.vals = Merged(group) /\ comp'.file = NoFile
      BY <1>1, <2>3
    <3> QED
      BY <1>1, <2>1, <2>3, <3>1 DEF Merging
  <2>4. CASE Merged(group) # None
    <3>1. comp'.pc = "merge" /\ comp'.group = group /\ comp'.vals = Merged(group) /\ comp'.file = file
      BY <1>1, <2>4
    <3> HIDE DEF file
    <3> QED
      BY <1>1, <1>4, <1>5, <2>1, <2>4, <3>1 DEF Merging
  <2> QED
    BY <2>3, <2>4
<1>10. Swapping' /\ Unlinking'
  BY <1>1 DEF Swapping, Unlinking
<1> QED
  BY <1>6, <1>7, <1>8, <1>9, <1>10 DEF TsmInv

LEMMA CompactAbortKeeps == ASSUME TsmInv, CompactAbort PROVE TsmInv'
<1>1. /\ UNCHANGED <<tsm, files, gen, sn, enabled, del, count>> /\ comp.pc \in {"merge", "rename"}
      /\ comp' = CompactIdle /\ comp'.pc = "idle"
  BY DEF CompactAbort, CompactIdle, engine
<1>2. Tasks' /\ DeleteAlone'
  BY <1>1, Zenon DEF TsmInv, Tasks, DeleteAlone, CompactIdle
<1>3. Stored' /\ SnapshotNewest'
  BY <1>1 DEF TsmInv, Stored, SnapshotNewest
<1>4. Merging' /\ Swapping' /\ Unlinking'
  BY <1>1 DEF Merging, Swapping, Unlinking
<1> QED
  BY <1>2, <1>3, <1>4, Zenon DEF TsmInv

LEMMA CompactCheckKeeps == ASSUME TsmInv, CompactCheck PROVE TsmInv'
<1>1. /\ UNCHANGED <<tsm, files, gen, sn, enabled, del, count>> /\ comp.pc = "merge"
      /\ comp' = [pc |-> "rename", group |-> comp.group, vals |-> comp.vals, file |-> comp.file]
  BY DEF CompactCheck, engine, TsmInv, Tasks
<1>2. Tasks' /\ DeleteAlone'
  BY <1>1, Zenon DEF TsmInv, Tasks, DeleteAlone
<1>3. Stored' /\ SnapshotNewest'
  BY <1>1, Zenon DEF TsmInv, Stored, SnapshotNewest
<1>4. Merging'
  BY <1>1, Zenon DEF TsmInv, Merging, Planned, Merged
<1>5. Swapping' /\ Unlinking'
  BY <1>1 DEF Swapping, Unlinking
<1> QED
  BY <1>2, <1>3, <1>4, <1>5 DEF TsmInv


LEMMA CompactRenameKeeps == ASSUME TsmInv, CompactRename PROVE TsmInv'
<1>1. /\ UNCHANGED <<files, gen, sn, enabled, del, count>> /\ comp.pc = "rename"
      /\ comp' = [pc |-> "swap", group |-> comp.group, vals |-> comp.vals, file |-> comp.file]
  BY DEF CompactRename, TsmInv, Tasks
<1>2. gen \in Nat /\ DOMAIN tsm \subseteq FileIds /\ files \subseteq DOMAIN tsm /\ \A f \in DOMAIN tsm : f[1] <= gen
  BY DEF TsmInv, Stored
<1>3. Tasks' /\ DeleteAlone'
  BY <1>1 DEF TsmInv, Tasks, DeleteAlone
<1>4. CASE comp.file = NoFile
  <2>1. tsm' = tsm
    BY <1>4, Zenon DEF CompactRename
  <2>2. Stored' /\ SnapshotNewest'
    BY <1>1, <1>4, <2>1, Zenon DEF TsmInv, Stored, SnapshotNewest
  <2>3. Merging'
    BY <1>1, <2>1, Zenon DEF TsmInv, Merging, Planned, Merged
  <2>4. Swapping' /\ Unlinking'
    BY <1>1, <1>4, Zenon DEF Swapping, Unlinking
  <2> QED
    BY <1>3, <2>2, <2>3, <2>4 DEF TsmInv
<1>5. CASE comp.file # NoFile
  <2>1. /\ DOMAIN tsm' = DOMAIN tsm \cup {comp.file} /\ tsm'[comp.file] = comp.vals
        /\ \A f \in DOMAIN tsm : f # comp.file => tsm'[f] = tsm[f]
    BY <1>5 DEF CompactRename
  <2>2. /\ comp.file \in FileIds /\ comp.file \notin files
        /\ sn.pc \in {"rename", "install"} => comp.file # sn.file /\ comp.file[1] < gen
    BY <1>1, <1>5, FileBehind DEF TsmInv
  <2>3. comp.file \notin DOMAIN tsm
    BY <1>1, <2>2 DEF TsmInv, Stored
  <2>4. comp.file[1] <= gen
    <3>1. PICK newest \in comp.group : comp.file = <<newest[1], newest[2] + 1>>
      BY <1>1, <1>5 DEF TsmInv, Merging, Behind
    <3>2. newest \in DOMAIN tsm
      BY <1>1, <1>2, <3>1, Zenon DEF TsmInv, Merging
    <3> QED
      BY <1>2, <3>1, <3>2, SMTT(30)
  <2>5. Stored'
    <3>1. DOMAIN tsm' \subseteq FileIds /\ \A f \in DOMAIN tsm' : f[1] <= gen'
      BY <1>1, <1>2, <2>1, <2>2, <2>4, Zenon
    <3> QED
      BY <1>1, <1>2, <1>5, <2>1, <3>1, Zenon DEF TsmInv, Stored
  <2>6. SnapshotNewest'
    BY <1>1, <2>1, <2>2, Zenon DEF TsmInv, SnapshotNewest
  <2>7. Merging'
    <3>1. comp.group \subseteq files /\ comp.vals = Merged(comp.group)
      BY <1>1, Zenon DEF TsmInv, Merging
    <3>2. \A k \in Keys, f \in comp.group : tsm[f][k] = tsm'[f][k]
      BY <1>2, <2>1, <2>2, <3>1
    <3>3. \A k \in Keys : ValueIn(tsm, comp.group, k) = ValueIn(tsm', comp.group, k)
      BY <1>2, <3>1, <3>2, ValueSame
    <3>4. Merged(comp.group)' = Merged(comp.group)
      BY <1>1, <3>3, Zenon DEF Merged
    <3> QED
      BY <1>1, <3>4, Zenon DEF TsmInv, Merging, Planned
  <2>8. Swapping' /\ Unlinking'
    BY <1>1, <2>1, <2>2 DEF Swapping, Unlinking
  <2> QED
    BY <1>3, <2>5, <2>6, <2>7, <2>8 DEF TsmInv
<1> QED
  BY <1>4, <1>5

LEMMA CompactSwapKeeps == ASSUME TsmInv, CompactSwap PROVE TsmInv'
<1>1. /\ UNCHANGED <<tsm, gen, sn, enabled, del, count>> /\ comp.pc = "swap"
      /\ files' = (files \ comp.group) \cup ({comp.file} \ {NoFile})
      /\ comp' = [pc |-> "unlink", group |-> comp.group, vals |-> comp.vals, file |-> comp.file]
  BY Zenon DEF CompactSwap, TsmInv, Tasks
<1>2. /\ comp.group \subseteq files /\ comp.vals = Merged(comp.group)
      /\ files \subseteq DOMAIN tsm /\ DOMAIN tsm \subseteq FileIds
  BY <1>1 DEF TsmInv, Merging, Stored
<1>3. comp.file # NoFile => /\ comp.file \in DOMAIN tsm \ files /\ tsm[comp.file] = comp.vals
                            /\ \A g \in comp.group : Older(g, comp.file)
                            /\ sn.pc = "install" => comp.file # sn.file
  BY <1>1, FileBehind, Zenon DEF TsmInv, Swapping
<1>4. Tasks' /\ DeleteAlone'
  BY <1>1, Zenon DEF TsmInv, Tasks, DeleteAlone
<1>5. Stored'
  BY <1>1, <1>2, Zenon DEF TsmInv, Stored
<1>6. SnapshotNewest'
  BY <1>1, <1>3, Zenon DEF TsmInv, SnapshotNewest
<1>7. Merging' /\ Swapping'
  BY <1>1, Zenon DEF Merging, Swapping
<1>8. Unlinking'
  <2>1. comp.group \cap files' = {}
    BY <1>1, <1>2, <1>3
  <2>2. sn.pc = "install" => sn.file \notin comp.group
    BY <1>2 DEF TsmInv, SnapshotNewest
  <2>3. ASSUME NEW f \in comp.group, NEW k \in Keys, tsm[f][k] # 0
        PROVE  comp.file \in files' /\ tsm[comp.file][k] # 0 /\ Older(f, comp.file)
    <3>1. comp.group \subseteq FileIds
      BY <1>2
    <3>2. ValueIn(tsm, comp.group, k) # 0
      <4>1. ~Missing(tsm, comp.group, k)
        BY <2>3 DEF Missing
      <4>2. Found(tsm, comp.group, k)
        BY <3>1, <4>1, ValueFound
      <4> QED
        BY <4>2 DEF Found, Newest
    <3>3. comp.vals[k] # 0
      BY <1>2, <3>2 DEF Merged
    <3>4. comp.file # NoFile
      <4>1. comp.vals # None
        BY <3>3 DEF None
      <4>2. comp.file \in FileIds
        BY <1>1, <4>1 DEF TsmInv, Merging
      <4> QED
        BY <4>2 DEF NoFile, FileIds
    <3> QED
      BY <1>1, <1>3, <3>3, <3>4
  <2> QED
    BY <1>1, <2>1, <2>2, <2>3, Zenon DEF Unlinking
<1> QED
  BY <1>4, <1>5, <1>6, <1>7, <1>8 DEF TsmInv


LEMMA CompactUnlinkKeeps == ASSUME TsmInv, NEW f \in DOMAIN tsm, CompactUnlink(f) PROVE TsmInv'
<1>1. /\ UNCHANGED <<files, gen, sn, enabled, del, count>> /\ comp.pc = "unlink" /\ f \in comp.group
      /\ DOMAIN tsm' = DOMAIN tsm \ {f} /\ \A g \in DOMAIN tsm \ {f} : tsm'[g] = tsm[g]
  BY DEF CompactUnlink
<1>2. comp' = [pc |-> comp'.pc, group |-> comp'.group, vals |-> comp'.vals, file |-> comp'.file]
  <2>1. comp' = CompactIdle \/ comp' = [comp EXCEPT !.group = comp.group \ {f}]
    BY DEF CompactUnlink
  <2> QED
    BY <2>1 DEF CompactIdle, TsmInv, Tasks
<1>3. \/ comp.group = {f} /\ comp'.pc = "idle"
      \/ comp'.pc = "unlink" /\ comp'.group = comp.group \ {f} /\ comp'.file = comp.file
  BY <1>1, Zenon DEF CompactUnlink, CompactIdle, TsmInv, Tasks
<1>4. /\ comp.group \cap files = {} /\ (sn.pc = "install" => sn.file \notin comp.group)
      /\ comp.group \subseteq DOMAIN tsm /\ files \subseteq DOMAIN tsm
  BY <1>1, Zenon DEF TsmInv, Unlinking, Stored
<1>5. Tasks' /\ DeleteAlone'
  BY <1>1, <1>2, <1>3 DEF TsmInv, Tasks, DeleteAlone
<1>6. Stored'
  <2>1. DOMAIN tsm = files \cup (IF sn.pc = "install" THEN {sn.file} ELSE {}) \cup comp.group
    BY <1>1 DEF TsmInv, Stored
  <2>2. DOMAIN tsm' = files \cup (IF sn.pc = "install" THEN {sn.file} ELSE {}) \cup (comp.group \ {f})
    BY <1>1, <1>4, <2>1
  <2> QED
    BY <1>1, <1>3, <2>2, Zenon DEF TsmInv, Stored
<1>7. SnapshotNewest'
  BY <1>1 DEF TsmInv, SnapshotNewest
<1>8. Merging' /\ Swapping'
  BY <1>3, Zenon DEF Merging, Swapping
<1>9. Unlinking'
  BY <1>1, <1>3, <1>4 DEF TsmInv, Unlinking
<1> QED
  BY <1>5, <1>6, <1>7, <1>8, <1>9 DEF TsmInv

LEMMA TombstoneKeeps == ASSUME TsmInv, NEW f \in DOMAIN tsm, Tombstone(f) PROVE TsmInv'
<1>1. /\ UNCHANGED <<files, gen, sn, comp, enabled, count>> /\ del.pc = "tomb" /\ DOMAIN tsm' = DOMAIN tsm
      /\ del' = [del EXCEPT !.todo = @ \ {f}, !.pc = IF del.todo = {f} THEN "find" ELSE "tomb"]
  BY DEF Tombstone
<1>2. /\ del' = [pc |-> del'.pc, key |-> del'.key, todo |-> del'.todo, found |-> del'.found]
      /\ del'.pc \in {"find", "tomb"}
  BY <1>1, Zenon DEF TsmInv, Tasks
<1>3. comp.pc = "idle"
  BY <1>1 DEF TsmInv, DeleteAlone
<1>4. Tasks' /\ DeleteAlone'
  BY <1>1, <1>2 DEF TsmInv, Tasks, DeleteAlone
<1>5. Stored' /\ SnapshotNewest'
  BY <1>1, <1>3 DEF TsmInv, Stored, SnapshotNewest
<1>6. Merging' /\ Swapping' /\ Unlinking'
  BY <1>1, <1>3 DEF Merging, Swapping, Unlinking
<1> QED
  BY <1>4, <1>5, <1>6 DEF TsmInv

LEMMA RestartKeeps == ASSUME TsmInv, Restart PROVE TsmInv'
<1>1. /\ tsm' = tsm /\ files' = DOMAIN tsm /\ enabled' = TRUE
      /\ sn' = SnapshotIdle /\ comp' = CompactIdle /\ del' = DeleteIdle
      /\ count' = [count EXCEPT !.crash = @ + 1]
      /\ gen' = IF DOMAIN tsm = {} THEN 0 ELSE Max({f[1] : f \in DOMAIN tsm}) + 1
  BY DEF Restart
<1>2. sn'.pc = "idle" /\ comp'.pc = "idle" /\ del'.pc = "idle"
  BY <1>1 DEF SnapshotIdle, CompactIdle, DeleteIdle
<1>3. Tasks'
  <2>1. count' = [ver |-> count.ver, del |-> count.del, fail |-> count.fail, crash |-> count.crash + 1]
    BY <1>1, Zenon DEF TsmInv, Tasks
  <2>2. /\ count' = [ver |-> count'.ver, del |-> count'.del, fail |-> count'.fail, crash |-> count'.crash]
        /\ count'.crash \in Nat
    BY <2>1 DEF TsmInv, Tasks
  <2> QED
    BY <1>1, <2>2 DEF Tasks, SnapshotIdle, CompactIdle, DeleteIdle
<1>4. gen' \in Nat /\ \A f \in DOMAIN tsm : f[1] <= gen'
  <2>1. CASE DOMAIN tsm = {}
    BY <1>1, <2>1
  <2>2. CASE DOMAIN tsm # {}
    <3> DEFINE G == {f[1] : f \in DOMAIN tsm}
    <3>1. gen \in Nat /\ G \subseteq 0 .. gen /\ G # {}
      BY <2>2 DEF TsmInv, Stored, FileIds
    <3>2. PICK x \in G : \A y \in G : y <= x
      BY <3>1, LargestNumber, Zenon
    <3>3. x \in G /\ \A y \in G : x >= y
      BY <3>1, <3>2
    <3>4. Max(G) \in G /\ \A y \in G : Max(G) >= y
      BY <3>3 DEF Max
    <3>5. gen' = Max(G) + 1
      BY <1>1, <2>2
    <3>6. \A f \in DOMAIN tsm : f[1] \in G
      OBVIOUS
    <3> HIDE DEF G
    <3>7. Max(G) \in Nat /\ \A y \in G : y \in Nat
      <4>1. \A y \in 0 .. gen : y \in Nat
        BY <3>1
      <4> QED
        BY ONLY <3>1, <3>4, <4>1, Zenon
    <3>8. \A y \in G : y <= Max(G) + 1
      BY <3>4, <3>7
    <3> QED
      BY <3>5, <3>6, <3>7, <3>8
  <2> QED
    BY <2>1, <2>2, Zenon
<1>5. Stored'
  BY <1>1, <1>2, <1>4 DEF TsmInv, Stored
<1> QED
  BY <1>1, <1>2, <1>3, <1>5 DEF TsmInv, SnapshotNewest, Merging, Swapping, Unlinking, DeleteAlone

LEMMA TsmStep == TsmInv /\ [Next]_vars => TsmInv'
<1> SUFFICES ASSUME TsmInv, [Next]_vars PROVE TsmInv'
  OBVIOUS
<1>1. CASE (\E w \in Writers : (\E k \in Keys : WriteCache(w, k)) \/ WriteLog(w)) \/ SyncLog
  BY <1>1, WritesKeep
<1>2. CASE Grab \/ GrabBusy \/ SnapshotFail \/ RemoveSegment
  BY <1>2, SnapshotsKeep
<1>3. CASE SnapshotWrite \/ SnapshotRename \/ SnapshotInstall
  BY <1>3, SnapshotWriteKeeps, SnapshotRenameKeeps, SnapshotInstallKeeps
<1>4. CASE \E group \in (SUBSET files) \ {{}} : CompactStart(group)
  BY <1>4, CompactStartKeeps
<1>5. CASE CompactAbort \/ CompactCheck \/ CompactRename \/ CompactSwap
  BY <1>5, CompactAbortKeeps, CompactCheckKeeps, CompactRenameKeeps, CompactSwapKeeps
<1>6. CASE \E f \in DOMAIN tsm : CompactUnlink(f) \/ Tombstone(f)
  BY <1>6, CompactUnlinkKeeps, TombstoneKeeps
<1>7. CASE (\E k \in Keys : DeleteStart(k)) \/ DeleteApply \/ DeleteFind \/ DeleteCache \/ DeleteLog \/ DeleteReturn
  BY <1>7, DeletesKeep
<1>8. CASE Restart
  BY <1>8, RestartKeeps
<1>9. CASE UNCHANGED vars
  <2>1. UNCHANGED <<tsm, files, comp, sn, gen, enabled, del, count>>
    BY <1>9, Zenon DEF vars, engine
  <2>2. Tasks' /\ DeleteAlone'
    BY <2>1 DEF TsmInv, Tasks, DeleteAlone
  <2> QED
    BY <2>1, <2>2, TsmQuiet
<1> QED
  BY <1>1, <1>2, <1>3, <1>4, <1>5, <1>6, <1>7, <1>8, <1>9 DEF Next


-----------------------------------------------------------------------------
(* What a read sees of a compaction *)

LEMMA RenameInvisible ==
  ASSUME TsmInv, CompactRename, NEW k \in Keys
  PROVE  ValueIn(tsm', files', k) = ValueIn(tsm, files, k) /\ ValueIn(tsm', DOMAIN tsm', k) = ValueIn(tsm, DOMAIN tsm, k)
<1>1. files' = files /\ comp.pc = "rename"
  BY DEF CompactRename
<1>2. CASE comp.file = NoFile
  <2>1. tsm' = tsm
    BY <1>2 DEF CompactRename
  <2> QED
    BY <1>1, <2>1
<1>3. CASE comp.file # NoFile
  <2>1. /\ DOMAIN tsm' = DOMAIN tsm \cup {comp.file} /\ tsm'[comp.file] = comp.vals
        /\ \A f \in DOMAIN tsm : f # comp.file => tsm'[f] = tsm[f]
    BY <1>3, Zenon DEF CompactRename
  <2>2. /\ comp.file \in FileIds /\ comp.file \notin files
        /\ \A g \in comp.group : Older(g, comp.file)
        /\ \A g \in files \ comp.group :
             Older(comp.file, g) \/ (Older(g, comp.file) /\ \A h \in comp.group : Older(g, h))
        /\ sn.pc = "install" => comp.file # sn.file /\ Older(comp.file, sn.file)
    BY <1>1, <1>3, FileBehind DEF TsmInv
  <2>3. /\ DOMAIN tsm = files \cup (IF sn.pc = "install" THEN {sn.file} ELSE {})
        /\ DOMAIN tsm \subseteq FileIds /\ comp.group \subseteq files /\ comp.vals = Merged(comp.group)
    BY <1>1, Zenon DEF TsmInv, Stored, Merging
  <2>4. comp.file \notin DOMAIN tsm /\ \A f \in DOMAIN tsm : tsm'[f] = tsm[f]
    BY <2>1, <2>2, <2>3
  <2>5. ValueIn(tsm', files, k) = ValueIn(tsm, files, k)
    <3>1. files \subseteq FileIds /\ \A f \in files : tsm'[f][k] = tsm[f][k]
      BY <2>3, <2>4
    <3> QED
      BY <3>1, ValueSame
  <2>6. \A g \in DOMAIN tsm \ comp.group :
          Older(comp.file, g) \/ (Older(g, comp.file) /\ \A h \in comp.group : Older(g, h))
    BY <2>2, <2>3
  <2>7. tsm'[comp.file][k] = ValueIn(tsm, comp.group, k)
    BY <2>1, <2>3, Zenon DEF Merged
  <2>8. ValueIn(tsm', (DOMAIN tsm \ {}) \cup {comp.file}, k) = ValueIn(tsm, DOMAIN tsm, k)
    <3>1. Splices(tsm, tsm', DOMAIN tsm, k, comp.group, {}, comp.file)
      BY <2>2, <2>3, <2>4, <2>6, <2>7 DEF Splices
    <3> QED
      BY <3>1, Spliced, SMTT(30)
  <2>9. (DOMAIN tsm \ {}) \cup {comp.file} = DOMAIN tsm'
    BY <2>1
  <2> QED
    BY <1>1, <2>5, <2>8, <2>9
<1> QED
  BY <1>2, <1>3

LEMMA SwapInvisible ==
  ASSUME TsmInv, CompactSwap, NEW k \in Keys
  PROVE  ValueIn(tsm', files', k) = ValueIn(tsm, files, k) /\ tsm' = tsm
<1>1. /\ tsm' = tsm /\ comp.pc = "swap"
      /\ files' = (files \ comp.group) \cup ({comp.file} \ {NoFile})
  BY DEF CompactSwap
<1>2. /\ comp.group \subseteq files /\ comp.vals = Merged(comp.group) /\ files \subseteq FileIds
      /\ comp.file = NoFile => comp.vals = None
  <2>1. NoFile \notin FileIds
    BY DEF NoFile, FileIds
  <2> QED
    BY <1>1, <2>1 DEF TsmInv, Merging, Stored
<1>3. comp.vals[k] = ValueIn(tsm, comp.group, k)
  BY <1>2, Zenon DEF Merged
<1>4. CASE comp.file # NoFile
  <2>1. /\ comp.file \in FileIds /\ comp.file \notin files
        /\ \A g \in comp.group : Older(g, comp.file)
        /\ \A g \in files \ comp.group :
             Older(comp.file, g) \/ (Older(g, comp.file) /\ \A h \in comp.group : Older(g, h))
    BY <1>1, <1>4, FileBehind DEF TsmInv
  <2>2. tsm[comp.file][k] = ValueIn(tsm, comp.group, k)
    BY <1>1, <1>3, <1>4, Zenon DEF TsmInv, Swapping
  <2>3. ValueIn(tsm, (files \ comp.group) \cup {comp.file}, k) = ValueIn(tsm, files, k)
    <3>1. Splices(tsm, tsm, files, k, comp.group, comp.group, comp.file)
      BY <1>2, <2>1, <2>2 DEF Splices
    <3> QED
      BY <3>1, Spliced, SMTT(30)
  <2>4. files' = (files \ comp.group) \cup {comp.file}
    BY <1>1, <1>4
  <2> QED
    BY <1>1, <2>3, <2>4, Zenon
<1>5. CASE comp.file = NoFile
  <2>1. ValueIn(tsm, comp.group, k) = 0
    BY <1>2, <1>3, <1>5 DEF None
  <2>2. Missing(tsm, comp.group, k)
    <3>1. comp.group \subseteq FileIds
      BY <1>2
    <3>2. ~Found(tsm, comp.group, k)
      BY <2>1 DEF Found, Newest
    <3> QED
      BY <3>1, <3>2, ValueFound
  <2>3. \A f \in comp.group : tsm[f][k] = 0
    BY <2>2 DEF Missing
  <2>4. ValueIn(tsm, files \ comp.group, k) = ValueIn(tsm, files, k)
    <3>1. Drops(tsm, tsm, files, k, comp.group)
      BY <1>2, <2>3 DEF Drops
    <3> QED
      BY <3>1, Dropped
  <2>5. files' = files \ comp.group
    BY <1>1, <1>5, Zenon
  <2> QED
    BY <1>1, <2>4, <2>5
<1> QED
  BY <1>4, <1>5

LEMMA UnlinkInvisible ==
  ASSUME TsmInv, NEW f \in DOMAIN tsm, CompactUnlink(f), NEW k \in Keys
  PROVE  ValueIn(tsm', files', k) = ValueIn(tsm, files, k) /\ ValueIn(tsm', DOMAIN tsm', k) = ValueIn(tsm, DOMAIN tsm, k)
<1>1. /\ files' = files /\ comp.pc = "unlink" /\ f \in comp.group
      /\ DOMAIN tsm' = DOMAIN tsm \ {f} /\ \A g \in DOMAIN tsm \ {f} : tsm'[g] = tsm[g]
  BY Zenon DEF CompactUnlink
<1>2. /\ files \subseteq DOMAIN tsm \ {f} /\ DOMAIN tsm \subseteq FileIds
      /\ tsm[f][k] # 0 => comp.file \in files /\ tsm[comp.file][k] # 0 /\ Older(f, comp.file)
  BY <1>1, Zenon DEF TsmInv, Unlinking, Stored
<1>3. ValueIn(tsm', files, k) = ValueIn(tsm, files, k)
  <2>1. files \subseteq FileIds /\ \A g \in files : tsm'[g][k] = tsm[g][k]
    BY <1>1, <1>2
  <2> QED
    BY <2>1, ValueSame
<1>4. ValueIn(tsm', DOMAIN tsm \ {f}, k) = ValueIn(tsm, DOMAIN tsm, k)
  <2>1. Drops(tsm, tsm', DOMAIN tsm, k, {f})
    BY <1>1, <1>2 DEF Drops
  <2> QED
    BY <2>1, Dropped
<1> QED
  BY <1>1, <1>3, <1>4

\* A compaction changes nothing that can be read, at any of its steps (compactGroup,
\* FileStore.replace), however many files, keys and writers there are, and neither does a
\* crash in the middle of it: what is read from the files that are there by then is the same.
THEOREM CompactionInvisibleThm == Spec => CompactionInvisible
<1> DEFINE Same == comp' # comp /\ count' = count =>
                     \A k \in Keys : Visible(k)' = Visible(k) /\ Recovered(k)' = Recovered(k)
<1>1. ASSUME TsmInv, [Next]_vars PROVE [Same]_vars
  <2> SUFFICES ASSUME Next, comp' # comp, count' = count, NEW k \in Keys
               PROVE  Visible(k)' = Visible(k) /\ Recovered(k)' = Recovered(k)
    BY <1>1, Zenon
  <2>1. SUFFICES /\ cache' = cache /\ snap' = snap /\ log' = log
                 /\ ValueIn(tsm', files', k) = ValueIn(tsm, files, k)
                 /\ ValueIn(tsm', DOMAIN tsm', k) = ValueIn(tsm, DOMAIN tsm, k)
    BY DEF Visible, Recovered
  <2>2. ~Restart
    <3>1. SUFFICES ASSUME Restart PROVE FALSE
      OBVIOUS
    <3>2. count' = [count EXCEPT !.crash = @ + 1]
      BY <3>1, Zenon DEF Restart
    <3>3. count'.crash = count.crash + 1 /\ count.crash \in Nat
      BY <1>1, <3>2, Zenon DEF TsmInv, Tasks
    <3> QED
      BY <3>3
  <2>3. \/ \E group \in (SUBSET files) \ {{}} : CompactStart(group)
        \/ CompactAbort \/ CompactCheck \/ CompactRename \/ CompactSwap
        \/ \E f \in DOMAIN tsm : CompactUnlink(f)
    BY <2>2, Zenon DEF Next, WriteCache, WriteLog, SyncLog, Grab, GrabBusy, SnapshotWrite, SnapshotFail, SnapshotRename,
       SnapshotInstall, RemoveSegment, Tombstone, DeleteStart, DeleteApply, DeleteFind, DeleteCache, DeleteLog, DeleteReturn
  <2>4. CASE (\E group \in (SUBSET files) \ {{}} : CompactStart(group)) \/ CompactAbort \/ CompactCheck
    BY <2>4 DEF CompactStart, CompactAbort, CompactCheck, engine
  <2>5. CASE CompactRename
    <3>1. cache' = cache /\ snap' = snap /\ log' = log
      BY <2>5 DEF CompactRename
    <3> QED
      BY <1>1, <2>5, <3>1, RenameInvisible
  <2>6. CASE CompactSwap
    <3>1. cache' = cache /\ snap' = snap /\ log' = log
      BY <2>6 DEF CompactSwap
    <3> QED
      BY <1>1, <2>6, <3>1, SwapInvisible
  <2>7. CASE \E f \in DOMAIN tsm : CompactUnlink(f)
    <3>1. cache' = cache /\ snap' = snap /\ log' = log
      BY <2>7 DEF CompactUnlink
    <3> QED
      BY <1>1, <2>7, <3>1, UnlinkInvisible
  <2> QED
    BY <2>3, <2>4, <2>5, <2>6, <2>7
<1> HIDE DEF Same
<1>2. Spec => [][Same]_vars
  BY <1>1, TsmInit, TsmStep, PTL DEF Spec
<1> QED
  BY <1>2 DEF Same, CompactionInvisible

=============================================================================
