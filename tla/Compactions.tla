---------------------------- MODULE Compactions ----------------------------
(***************************************************************************)
(* Background work of one shard's storage engine (tsdb/engine/tsm1): the   *)
(* snapshot loop, the compaction loop with its planner and scheduler, the  *)
(* compactions it starts, and those who switch this work off and on: the   *)
(* store's monitor, which frees a shard that looks idle, the writer, which *)
(* wakes it up, and deletes, which stop the compactions while they write   *)
(* tombstones.  One key is followed through the files; the value a         *)
(* snapshot writes for it is the number of its generation, 0 is "none".    *)
(***************************************************************************)
EXTENDS CompactionPlanner

CONSTANTS
    Deleters,        \* deletes of the key, one each
    Starts           \* what the shard may be opened with, [files, cold, writes]; writes
                     \* bounds the writes made to it

VARIABLES
    files,    \* FileStore: <<gen, seq>> -> [val, tomb, size, full]
    nextGen,  \* FileStore.currentGeneration
    planner,  \* filesInUse, the cached generations, whether nothing was modified since
              \* they were cached and since the last plan, compactFullWriteColdDuration > 0
    eng,      \* Engine: done, levelWorkers, snapDone and the Compactor's enabled flag
    cache,    \* what Cache.store and Cache.snapshot hold: [hot, held]
    snap,     \* compactCache: "off", "select" or "writing"
    loop,     \* compact: its place, the call it is at, what that call found, the plans
    comp,     \* the compactions under way
    act,      \* the calls each actor has still to make
    writes,   \* writes still to be made
    stored,   \* ghost: the values snapshots have put in files
    gone,     \* ghost: the values deletes have removed
    flawed    \* ghost: a group was planned out of order, or a delete did not wait

vars == <<files, nextGen, planner, eng, cache, snap, loop, comp, act, writes, stored, gone, flawed>>

Monitor == "monitor"
Writer == "writer"
Actors == Deleters \cup {Monitor, Writer}
Workers == 1..MaxConcurrency     \* the compaction goroutines: the scheduler allows no more

NoComp == [pc |-> "none", group |-> <<>>, level |-> 0, val |-> 0]
NoPlans == [l \in 1..4 |-> <<>>]
LoopOff == [pc |-> "off", call |-> 0, found |-> <<>>, plans |-> NoPlans]

Init ==
    /\ \E s \in Starts :
          /\ files = s.files
          /\ planner = [used |-> {}, gens |-> <<>>, fresh |-> FALSE, checked |-> FALSE, cold |-> s.cold]
          /\ writes = s.writes
    /\ nextGen = Max({0} \cup {f[1] : f \in DOMAIN files})
    /\ eng = [done |-> "nil", workers |-> 0, snapDone |-> "nil", enabled |-> FALSE]
    /\ cache = [hot |-> FALSE, held |-> FALSE]
    /\ snap = "off"
    /\ loop = LoopOff
    /\ comp = [w \in Workers |-> NoComp]
    /\ act = [a \in Actors |-> <<>>] 
    /\ stored = {files[f].val : f \in DOMAIN files} \ {0}
    /\ gone = {}
    /\ flawed = FALSE

-----------------------------------------------------------------------------
(* The file store.                                                         *)

Before(f, g) == f[1] < g[1] \/ (f[1] = g[1] /\ f[2] < g[2])

\* The value a sequence of files holds for the key: the last file that has it wins.
Newest(fs, seq) ==
    LET having == SelectSeq(seq, LAMBDA f : fs[f].val # 0)
    IN  IF having = <<>> THEN 0 ELSE fs[Last(having)].val

Visible == Newest(files, SetToSortSeq(DOMAIN files, Before))

\* FileStore.lastModified moves: the planner's caches are stale.
Modified(p) == [p EXCEPT !.gens = <<>>, !.fresh = FALSE, !.checked = FALSE]

-----------------------------------------------------------------------------
(* The planner.                                                            *)

\* The generations of the files fs, oldest first.
GenerationsOf(fs) ==
    LET ids == SetToSortSeq({f[1] : f \in fs}, <)
        Members(g) == SetToSortSeq({f \in fs : f[1] = g}, Before)
        Total(seq) == FoldLeft(LAMBDA n, f : n + files[f].size, 0, seq)
    IN  [i \in DOMAIN ids |->
            [id |-> ids[i], files |-> Members(ids[i]), size |-> Total(Members(ids[i])),
             full |-> files[Members(ids[i])[1]].full,
             tomb |-> \E f \in fs : f[1] = ids[i] /\ files[f].tomb]]

\* What findGenerations returns: the cached answer while nothing was modified, whether
\* or not files in use were skipped when it was computed.
FindGenerations(skipInUse) ==
    IF planner.fresh THEN planner.gens
    ELSE GenerationsOf(IF skipInUse THEN DOMAIN files \ planner.used ELSE DOMAIN files)

Cached(p, gens) == [p EXCEPT !.gens = gens, !.fresh = TRUE]

GroupSet(groups) == UNION {ToSet(groups[i]) : i \in DOMAIN groups}

\* Some file of another generation lies between two files of the group.
OutOfOrder(group) ==
    \E f \in DOMAIN files \ ToSet(group) :
        \E g \in ToSet(group), h \in ToSet(group) : g[1] < f[1] /\ f[1] < h[1]

-----------------------------------------------------------------------------
(* Switching compactions and snapshots off and on (engine.go).  act[a] is  *)
(* the sequence of calls actor a has still to make; a call that waits is   *)
(* replaced by its wait.                                                   *)

At(a, call) == act[a] # <<>> /\ Head(act[a]) = call
Then(a, calls) == act' = [act EXCEPT ![a] = calls \o Tail(@)]

Idle(w) == comp[w].pc = "none"
\* Mutant: the compactions are started outside the wait group.
GroupDoneLoop == loop.pc = "off"

GroupDone == loop.pc = "off" /\ \A w \in Workers : Idle(w)     \* wg is down to 0

\* Mutant: done is not closed.
StoppedFlag(e, workers) == [e EXCEPT !.workers = workers, !.enabled = FALSE]

Stopped(e, workers) == [e EXCEPT !.workers = workers, !.enabled = FALSE, !.done = "closed"]

\* disableLevelCompactions; a delete passes wait = TRUE.
DisableLevel(a) ==
    /\ At(a, "disableLevel")
    /\ LET wait == a \in Deleters
           workers == IF wait THEN eng.workers + 1 ELSE eng.workers
           closing == eng.workers = 0 /\ eng.done = "closed"
       IN  /\ IF eng.workers = 0 /\ eng.done = "open"
              THEN /\ eng' = Stopped(eng, workers)
                   /\ Then(a, <<"stopLevel">>)
              ELSE /\ eng' = [eng EXCEPT !.workers = workers]
                   /\ Then(a, IF closing \/ eng.done = "nil" THEN <<>> ELSE <<"joinLevel">>)
           /\ flawed' = (flawed \/ (wait /\ closing /\ \E w \in Workers : comp[w].pc = "replace"))
    /\ UNCHANGED <<files, nextGen, planner, cache, snap, loop, comp, writes, stored, gone>>

\* The first to disable waits for the goroutines and clears done.
StopLevel(a) ==
    /\ At(a, "stopLevel")
    /\ GroupDone
    /\ eng' = [eng EXCEPT !.done = "nil"]
    /\ Then(a, <<>>)
    /\ UNCHANGED <<files, nextGen, planner, cache, snap, loop, comp, writes, stored, gone, flawed>>

\* The others wait for the goroutines of the same round: they have gone once done is reset.
JoinLevel(a) ==
    /\ At(a, "joinLevel")
    /\ eng.done # "closed" \/ GroupDone
    /\ Then(a, <<>>)
    /\ UNCHANGED <<files, nextGen, planner, eng, cache, snap, loop, comp, writes, stored, gone, flawed>>

EnableLevel(a) ==
    /\ At(a, "enableLevel")
    /\ LET workers == IF a \in Deleters THEN eng.workers - 1 ELSE eng.workers
       IN  IF workers # 0 \/ eng.done # "nil"
           THEN eng' = [eng EXCEPT !.workers = workers] /\ UNCHANGED loop
           ELSE /\ eng' = [eng EXCEPT !.workers = 0, !.enabled = TRUE, !.done = "open"]
                /\ loop' = [LoopOff EXCEPT !.pc = "select"]
    /\ Then(a, <<>>)
    /\ UNCHANGED <<files, nextGen, planner, cache, snap, comp, writes, stored, gone, flawed>>

DisableSnap(a) ==
    /\ At(a, "disableSnap")
    /\ IF eng.snapDone = "open"
       THEN eng' = [eng EXCEPT !.snapDone = "closed"] /\ Then(a, <<"stopSnap">>)
       ELSE UNCHANGED eng /\ Then(a, <<>>)
    /\ UNCHANGED <<files, nextGen, planner, cache, snap, loop, comp, writes, stored, gone, flawed>>

\* Mutant: snapDone stays closed.
SnapStoppedClosed(e) == e

SnapStopped(e) == [e EXCEPT !.snapDone = "nil"]

StopSnap(a) ==
    /\ At(a, "stopSnap")
    /\ snap = "off"
    /\ eng' = SnapStopped(eng)
    /\ Then(a, <<>>)
    /\ UNCHANGED <<files, nextGen, planner, cache, snap, loop, comp, writes, stored, gone, flawed>>

EnableSnap(a) ==
    /\ At(a, "enableSnap")
    /\ IF eng.snapDone = "nil"
       THEN eng' = [eng EXCEPT !.snapDone = "open"] /\ snap' = "select"
       ELSE UNCHANGED <<eng, snap>>
    /\ Then(a, <<>>)
    /\ UNCHANGED <<files, nextGen, planner, cache, loop, comp, writes, stored, gone, flawed>>

On == <<"enableSnap", "enableLevel">>       \* SetCompactionsEnabled(true)
Off == <<"disableSnap", "disableLevel">>    \* SetCompactionsEnabled(false)

-----------------------------------------------------------------------------
(* The actors.                                                             *)

\* Engine.IsIdle; the planner is only asked when there is nothing else to do.
Busy == cache.hot \/ cache.held \/ \E w \in Workers : ~Idle(w)
IsIdle == ~Busy /\ NothingToDo(FindGenerations(FALSE))
PlannerAsked == IF Busy THEN planner ELSE Cached(planner, FindGenerations(FALSE))

\* Store.monitorShards, every ten seconds: an idle shard is freed, any other is
\* (still) switched on.
MonitorRound ==
    /\ act[Monitor] = <<>>
    /\ act' = [act EXCEPT ![Monitor] = IF IsIdle THEN Off ELSE On]
    /\ planner' = PlannerAsked
    /\ UNCHANGED <<files, nextGen, eng, cache, snap, loop, comp, writes, stored, gone, flawed>>

\* Store.WriteToShard: a shard that is idle is switched on before the write.
WriteBegins ==
    /\ act[Writer] = <<>>
    /\ writes > 0
    /\ act' = [act EXCEPT ![Writer] = (IF IsIdle THEN On ELSE <<>>) \o <<"write">>]
    /\ planner' = PlannerAsked
    /\ writes' = writes - 1
    /\ UNCHANGED <<files, nextGen, eng, cache, snap, loop, comp, stored, gone, flawed>>

Write ==
    /\ At(Writer, "write")
    /\ cache' = [cache EXCEPT !.hot = TRUE]
    /\ Then(Writer, <<>>)
    /\ UNCHANGED <<files, nextGen, planner, eng, snap, loop, comp, writes, stored, gone, flawed>>

\* DeleteSeriesRangeWithPredicate: compactions are stopped, tombstones written to every
\* file that has the key, the key dropped from the cache, compactions let go on.
DeleteBegins(d) ==
    /\ act[d] = <<>>
    /\ act' = [act EXCEPT ![d] = <<"disableLevel", "tombstone", "enableLevel", "done">>]
    /\ UNCHANGED <<files, nextGen, planner, eng, cache, snap, loop, comp, writes, stored, gone, flawed>>

Tombstone(d) ==
    /\ At(d, "tombstone")
    /\ files' = [f \in DOMAIN files |->
                    IF files[f].val = 0 THEN files[f]
                    ELSE [files[f] EXCEPT !.val = 0, !.tomb = TRUE]]
    /\ gone' = stored
    /\ cache' = [cache EXCEPT !.hot = FALSE]
    /\ planner' = Modified(planner)
    /\ Then(d, <<>>)
    /\ UNCHANGED <<nextGen, eng, snap, loop, comp, writes, stored, flawed>>

-----------------------------------------------------------------------------
(* The snapshot loop: compactCache and WriteSnapshot.                      *)

SnapQuit ==
    /\ snap = "select" /\ eng.snapDone = "closed"
    /\ snap' = "off"
    /\ UNCHANGED <<files, nextGen, planner, eng, cache, loop, comp, act, writes, stored, gone, flawed>>

\* Cache.Snapshot; the data of a snapshot that failed is taken up again.
SnapTick ==
    /\ snap = "select"
    /\ cache.hot \/ cache.held
    /\ cache' = IF cache.held THEN cache ELSE [hot |-> FALSE, held |-> TRUE]
    /\ snap' = "writing"
    /\ UNCHANGED <<files, nextGen, planner, eng, loop, comp, act, writes, stored, gone, flawed>>

\* The new generation is written and joins the file store; with snapshots disabled (the
\* channel is closed together with the flag) the data stays in the cache.
SnapWrite ==
    /\ snap = "writing"
    /\ snap' = "select"
    /\ IF eng.snapDone = "closed"
       THEN UNCHANGED <<files, nextGen, planner, cache, stored>>
       ELSE /\ nextGen' = nextGen + 1
            /\ files' = files @@ (<<nextGen', 1>> :> [val |-> nextGen', tomb |-> FALSE, size |-> 1, full |-> FALSE])
            /\ cache' = [cache EXCEPT !.held = FALSE]
            /\ planner' = Modified(planner)
            /\ stored' = stored \cup {nextGen'}
    /\ UNCHANGED <<eng, loop, comp, act, writes, gone, flawed>>

-----------------------------------------------------------------------------
(* The compaction loop: compact.                                           *)

LoopQuit ==
    /\ loop.pc = "select" /\ eng.done = "closed"
    /\ loop' = LoopOff
    /\ UNCHANGED <<files, nextGen, planner, eng, cache, snap, comp, act, writes, stored, gone, flawed>>

LoopTick ==
    /\ loop.pc = "select"
    /\ loop' = [loop EXCEPT !.pc = "find", !.call = 1]
    /\ UNCHANGED <<files, nextGen, planner, eng, cache, snap, comp, act, writes, stored, gone, flawed>>

\* The loop goes on to the planner's next call, or, after the last, to the scheduler;
\* PlanOptimize (call 5) is only asked when Plan (call 4) came to nothing.
Onward(plans) ==
    LET last == loop.call = 5 \/ (loop.call = 4 /\ plans[4] # <<>>)
    IN  loop' = [pc |-> IF last THEN "start" ELSE "find", call |-> IF last THEN 0 ELSE loop.call + 1,
                 found |-> <<>>, plans |-> plans]

\* One of PlanLevel(1), PlanLevel(2), PlanLevel(3), Plan and PlanOptimize, up to acquire.
Find ==
    /\ loop.pc = "find"
    /\ \E cold \in {FALSE, planner.cold} :
         LET gens == FindGenerations(TRUE)
             full == loop.call = 4 /\ cold /\ Len(gens) > 1
             unchanged == planner.checked /\ ~HasTombstones(gens)
             found == IF loop.call < 4 THEN PlanLevel(gens, loop.call)
                      ELSE IF loop.call = 5 THEN PlanOptimize(gens)
                      ELSE IF full THEN PlanFull(gens)
                      ELSE IF unchanged THEN <<>> ELSE PlanOldest(gens)
         IN  /\ planner' = [Cached(planner, gens) EXCEPT
                                !.checked = @ \/ (loop.call = 4 /\ ~full)]
             /\ IF found = <<>> THEN Onward(loop.plans)
                ELSE loop' = [loop EXCEPT !.pc = "acquire", !.found = found]
    /\ UNCHANGED <<files, nextGen, eng, cache, snap, comp, act, writes, stored, gone, flawed>>

\* Mutant: files in use are planned again.
TakenNever(groups) == FALSE

Taken(groups) == GroupSet(groups) \cap planner.used # {}

\* acquire: all the files of the plan are taken, or the plan is dropped.
Acquire ==
    /\ loop.pc = "acquire"
    /\ LET l == MinOf(loop.call, 4)
       IN  IF Taken(loop.found) THEN Onward(loop.plans) /\ UNCHANGED <<planner, flawed>>
           ELSE /\ planner' = [planner EXCEPT !.used = @ \cup GroupSet(loop.found)]
                /\ Onward([loop.plans EXCEPT ![l] = loop.found])
                /\ flawed' = (flawed \/ \E i \in DOMAIN loop.found : OutOfOrder(loop.found[i]))
    /\ UNCHANGED <<files, nextGen, eng, cache, snap, comp, act, writes, stored, gone>>

Running == [l \in 1..4 |-> Cardinality({w \in Workers : comp[w].level = l})]

\* The scheduler picks a level, the first group of it is started if the limiter, which
\* all shards share, allows it, and every plan not started is released.
StartNext ==
    /\ loop.pc = "start"
    /\ LET depth == [l \in 1..4 |-> Len(loop.plans[l])]
           level == NextLevel(Running, depth)
           planned == UNION {GroupSet(loop.plans[l]) : l \in 1..4}
       IN  \/ /\ planner' = [planner EXCEPT !.used = @ \ planned]
              /\ UNCHANGED comp
           \/ /\ level # 0
              /\ comp' = [comp EXCEPT ![Min({w \in Workers : Idle(w)})] =
                              [pc |-> "check", group |-> Head(loop.plans[level]), level |-> level, val |-> 0]]
              /\ planner' = [planner EXCEPT !.used = @ \ (planned \ ToSet(Head(loop.plans[level])))]
    /\ loop' = [LoopOff EXCEPT !.pc = "select"]
    /\ UNCHANGED <<files, nextGen, eng, cache, snap, act, writes, stored, gone, flawed>>

-----------------------------------------------------------------------------
(* One compaction: compactGroup, CompactFull / CompactFast, compact.       *)

Goto(w, pc) == comp' = [comp EXCEPT ![w].pc = pc]

\* Compactor.files: what add has taken and remove not yet given back.
InCompactor == UNION {ToSet(comp[w].group) : w \in {x \in Workers : comp[x].pc \in {"merge", "recheck"}}}

CheckEnabled(w) ==
    /\ comp[w].pc = "check"
    /\ Goto(w, IF eng.enabled /\ ToSet(comp[w].group) \cap InCompactor = {} THEN "merge" ELSE "release")
    /\ UNCHANGED <<files, nextGen, planner, eng, cache, snap, loop, act, writes, stored, gone, flawed>>

\* The files are read in the group's order.  A plan naming a file that has gone is
\* abandoned ("bad plan"), and a merge may notice that it was interrupted.
Merge(w) ==
    /\ comp[w].pc = "merge"
    /\ \/ /\ ToSet(comp[w].group) \subseteq DOMAIN files
          /\ comp' = [comp EXCEPT ![w].pc = "recheck", ![w].val = Newest(files, comp[w].group)]
       \/ /\ ~eng.enabled \/ ~(ToSet(comp[w].group) \subseteq DOMAIN files)
          /\ Goto(w, "release")
    /\ UNCHANGED <<files, nextGen, planner, eng, cache, snap, loop, act, writes, stored, gone, flawed>>

Recheck(w) ==
    /\ comp[w].pc = "recheck"
    /\ Goto(w, IF eng.enabled THEN "replace" ELSE "release")
    /\ UNCHANGED <<files, nextGen, planner, eng, cache, snap, loop, act, writes, stored, gone, flawed>>

\* The merged file takes the newest generation of the group and its next sequence; a
\* merge without values leaves no file.
Replace(w) ==
    /\ comp[w].pc = "replace"
    /\ LET group == ToSet(comp[w].group)
           gen == Max({f[1] : f \in group})
           new == <<gen, Max({f[2] : f \in {g \in group : g[1] = gen}}) + 1>>
           size == FoldSet(LAMBDA f, n : n + files[f].size, 0, group \cap DOMAIN files)
           rest == [f \in DOMAIN files \ group |-> files[f]]
       IN  files' = IF comp[w].val = 0 THEN rest
                    ELSE rest @@ (new :> [val |-> comp[w].val, tomb |-> FALSE,
                                          size |-> size, full |-> size > MaxTSMFileSize])
    /\ planner' = Modified(planner)
    /\ Goto(w, "release")
    /\ UNCHANGED <<nextGen, eng, cache, snap, loop, act, writes, stored, gone, flawed>>

Release(w) ==
    /\ comp[w].pc = "release"
    /\ planner' = [planner EXCEPT !.used = @ \ ToSet(comp[w].group)]
    /\ comp' = [comp EXCEPT ![w] = NoComp]
    /\ UNCHANGED <<files, nextGen, eng, cache, snap, loop, act, writes, stored, gone, flawed>>

-----------------------------------------------------------------------------
Switch(a) == \/ DisableLevel(a) \/ StopLevel(a) \/ JoinLevel(a) \/ EnableLevel(a)
             \/ DisableSnap(a) \/ StopSnap(a) \/ EnableSnap(a)

Compaction(w) == CheckEnabled(w) \/ Merge(w) \/ Recheck(w) \/ Replace(w) \/ Release(w)

Loop == LoopTick \/ Find \/ Acquire \/ StartNext

Next ==
    \/ \E a \in Actors : Switch(a)
    \/ MonitorRound \/ WriteBegins \/ Write
    \/ \E d \in Deleters : DeleteBegins(d) \/ Tombstone(d)
    \/ SnapQuit \/ SnapTick \/ SnapWrite
    \/ LoopQuit \/ Loop
    \/ \E w \in Workers : Compaction(w)

\* An actor that cannot go on: it waits for goroutines to end, or has nothing to do.
Blocked(a) ==
    \/ act[a] = <<"done">>
    \/ act[a] = <<>> /\ a # Monitor
    \/ At(a, "stopLevel") /\ ~GroupDone
    \/ At(a, "joinLevel") /\ eng.done = "closed" /\ ~GroupDone
    \/ At(a, "stopSnap") /\ snap # "off"

\* Goroutines that are not blocked move on, the monitor's and the loops' tickers among
\* them (weak fairness, written out with the condition that enables each); a select with
\* a closed channel among its ready cases takes it in the end.
Fairness ==
    /\ \A a \in Actors : []<>Blocked(a) \/ []<><<act'[a] # act[a]>>_act
    /\ []<>(snap # "writing") \/ []<><<snap' # snap>>_snap
    /\ []<>(snap # "select" \/ ~(cache.hot \/ cache.held)) \/ []<><<snap' # snap>>_snap
    /\ []<>(loop.pc = "off") \/ []<><<loop' # loop>>_loop
    /\ \A w \in Workers : []<>Idle(w) \/ []<><<comp'[w] # comp[w]>>_comp
    /\ SF_vars(SnapQuit) /\ SF_vars(LoopQuit)

Spec == Init /\ [][Next]_vars /\ Fairness

-----------------------------------------------------------------------------
(* Properties.                                                             *)

\* Two compactions that run at the same time have no file in common, from their first
\* look at the files until their results are swapped in: filesInUse (acquire, Release)
\* covers the time before Compactor.add and after Compactor.remove.
NoSharedFile ==
    \A v, w \in {x \in Workers : comp[x].pc \in {"merge", "recheck", "replace"}} :
        v # w => ToSet(comp[v].group) \cap ToSet(comp[w].group) = {}

\* The files show the newest value that was stored and not deleted since: merges, in
\* whatever order levels are compacted, neither hide a value behind an older one nor
\* bring back what a delete removed while they ran.  Groups with a gap and deletes that
\* do not wait are excepted (flawed).
NewestVisible == ~flawed => Visible = Max({0} \cup (stored \ gone))

\* A delete, which waits for the loop and all compactions to stop while the monitor and
\* the writer switch them on and off, comes to its end.
DeletesReturn == \A d \in Deleters : (act[d] # <<>>) ~> (act[d] = <<"done">>)

\* What is written gets into a file, although the monitor frees idle shards and deletes
\* stop the background work: there is always a snapshot loop left that will do it.
Flushed == (cache.hot \/ cache.held) ~> ~(cache.hot \/ cache.held)

\* Promise of Engine.IsIdle: an idle shard has nothing left that a plan of its files
\* would merge.  The code breaks it (README, section 6).
IdleIsCompacted == IsIdle => NothingToDo(GenerationsOf(DOMAIN files))

\* Promise of compact: a compaction's files are all in the file store.  The code breaks
\* it (README, section 6).
NoBadPlan == \A w \in Workers : comp[w].pc \in {"merge", "recheck", "replace"} => ToSet(comp[w].group) \subseteq DOMAIN files

=============================================================================
