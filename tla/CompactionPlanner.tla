------------------------- MODULE CompactionPlanner -------------------------
(***************************************************************************)
(* The decisions of DefaultPlanner (tsdb/engine/tsm1/compact.go) and of    *)
(* the scheduler (scheduler.go) as operators: given the generations of TSM *)
(* files, which groups of them are to be merged, and which of the planned  *)
(* levels runs next.  A file is named <<generation, sequence>>; a          *)
(* generation is a record                                                  *)
(*   id     its number,      files  its files, oldest first,               *)
(*   size   their total,     full   whether its first file has full blocks,*)
(*   tomb   whether one of its files has tombstones.                       *)
(* The code's numbers 8 and 4 (generations wanted at level 1 and above)    *)
(* and maxTSMFileSize are constants.                                       *)
(***************************************************************************)
EXTENDS Integers, Sequences, SequencesExt, FiniteSetsExt

CONSTANTS
    Level1Gens,       \* minGenerations at level 1 (8 in the code)
    LevelGens,        \* minGenerations above, and Plan's step (4 in the code)
    MaxTSMFileSize,
    MaxConcurrency    \* the scheduler's maxConcurrency

ASSUME PlannerAssumption == /\ Level1Gens \in Nat \ {0, 1}
                            /\ LevelGens \in Nat \ {0, 1}
                            /\ MaxTSMFileSize \in Nat
                            /\ MaxConcurrency \in Nat

-----------------------------------------------------------------------------
(* Generations and groups of them.                                         *)

MinOf(a, b) == IF a < b THEN a ELSE b

Level(gen) == MinOf(gen.files[1][2], 4)

HasTombstones(gens) == \E i \in DOMAIN gens : gens[i].tomb

GroupLevel(gens) == Max({0} \cup {Level(gens[i]) : i \in DOMAIN gens})

\* The groups of at most n neighbours that a sequence of generations is cut into.
Chunks(gens, n) ==
    [k \in 1 .. ((Len(gens) + n - 1) \div n) |->
        SubSeq(gens, (k - 1) * n + 1, MinOf(k * n, Len(gens)))]

\* A compaction group: the files of its generations.
FilesOf(gens) == FlattenSeq([i \in DOMAIN gens |-> gens[i].files])

ToGroups(genSeqs) == [i \in DOMAIN genSeqs |-> FilesOf(genSeqs[i])]

NothingToDo(gens) == Len(gens) <= 1 /\ ~HasTombstones(gens)

\* Neighbours of one level form a group; a generation that precedes one of a
\* higher level joins whatever group is open.  Generations in skip are left out.
ByLevel(gens, skip) ==
    LET Step(acc, i) ==
          IF gens[i] \in skip THEN acc
          ELSE IF \/ i < Len(gens) /\ Level(gens[i]) < Level(gens[i + 1])
                  \/ acc.cur = <<>>
                  \/ GroupLevel(acc.cur) = Level(gens[i])
               THEN [acc EXCEPT !.cur = Append(@, gens[i])]
               ELSE [cur |-> <<gens[i]>>, groups |-> Append(acc.groups, acc.cur)]
        res == FoldLeftDomain(Step, [cur |-> <<>>, groups |-> <<>>], gens)
    IN  IF res.cur = <<>> THEN res.groups ELSE Append(res.groups, res.cur)

-----------------------------------------------------------------------------
(* The planner's entry points, without the acquisition of what they return.*)

PlanLevel(gens, level) ==
    LET n == IF level = 1 THEN Level1Gens ELSE LevelGens
        AtLevel(group) == GroupLevel(group) = level
        Wanted(chunk) == Len(chunk) >= n \/ HasTombstones(chunk)
        chunks == FlattenSeq([i \in DOMAIN SelectSeq(ByLevel(gens, {}), AtLevel) |->
                     Chunks(SelectSeq(ByLevel(gens, {}), AtLevel)[i], n)])
    IN  IF NothingToDo(gens) THEN <<>> ELSE ToGroups(SelectSeq(chunks, Wanted))

Oversized(gen) == gen.size > MaxTSMFileSize /\ gen.full

PlanOptimize(gens) ==
    LET skip == {gen \in ToSet(gens) : Len(gen.files) > 2 /\ Oversized(gen) /\ ~gen.tomb}
        Wanted(group) == /\ GroupLevel(group) = 4
                         /\ Len(group) >= LevelGens \/ HasTombstones(group)
    IN  IF NothingToDo(gens) THEN <<>> ELSE ToGroups(SelectSeq(ByLevel(gens, skip), Wanted))

\* A full plan: everything but the finished generations, unless a young one follows.
PlanFull(gens) ==
    LET Kept(i) == \/ ~(Len(gens) > 2 /\ Oversized(gens[i]) /\ ~gens[i].tomb)
                   \/ i < Len(gens) /\ Level(gens[i + 1]) <= 3
        keep == SetToSortSeq({i \in DOMAIN gens : Kept(i)}, <)
        kept == [k \in DOMAIN keep |-> gens[keep[k]]]
    IN  IF Len(kept) <= 1 THEN <<>> ELSE <<FilesOf(kept)>>

\* The oldest generations, all of level 4, without the leading ones that are finished
\* or much larger than what follows.
PlanSlice(gens) ==
    LET end == Max({0} \cup {i \in DOMAIN gens : \A j \in 1..i : Level(gens[j]) > 3})
        Step(acc, i) ==
            LET tomb == acc.tomb \/ gens[i].tomb
                start == IF Oversized(gens[i]) THEN i ELSE acc.start
            IN  IF acc.stop THEN acc
                ELSE IF tomb THEN [acc EXCEPT !.tomb = TRUE]
                ELSE IF i > 1 /\ gens[i].size * 2 < gens[i - 1].size
                     THEN [acc EXCEPT !.start = i - 1, !.stop = TRUE]
                ELSE [acc EXCEPT !.start = start]
        start == FoldLeftDomain(Step, [start |-> 0, tomb |-> FALSE, stop |-> FALSE],
                                SubSeq(gens, 1, end)).start
    IN  [slice |-> SubSeq(gens, start + 1, end), step |-> MinOf(LevelGens, end)]

PlanOldest(gens) ==
    LET s == PlanSlice(gens)
        Maxed(gen) == gen.size >= MaxTSMFileSize /\ gen.full /\ ~gen.tomb
        Tail4(chunk) == SubSeq(chunk, Len(SelectSeq(chunk, Maxed)) + 1, Len(chunk))
        cut == IF s.slice = <<>> THEN <<>> ELSE Chunks(s.slice, s.step)
        groups == [k \in DOMAIN cut |-> Tail4(cut[k])]
        Wanted(group) == group # <<>> /\ (Len(group) >= LevelGens \/ HasTombstones(group))
    IN  IF NothingToDo(gens) THEN <<>> ELSE ToGroups(SelectSeq(groups, Wanted))

-----------------------------------------------------------------------------
(* The scheduler: the level to run next, 0 when none may; running[l] counts*)
(* the compactions of level l under way, depth[l] the groups planned.      *)

Weights == <<4, 3, 2, 1>>

NextLevel(running, depth) ==
    LET lo == MaxConcurrency \div 5 + 1
        end == IF /\ running[3] + running[4] >= lo
                  /\ MaxConcurrency - (running[1] + running[2]) = 0
               THEN 2 ELSE 4
        weight == [l \in 1..end |-> depth[l] * Weights[l]]
        best == {l \in 1..end : /\ weight[l] > 0
                                /\ \A k \in 1..end : weight[k] <= weight[l]}
    IN  IF running[1] + running[2] + running[3] + running[4] >= MaxConcurrency \/ best = {}
        THEN 0 ELSE Min(best)

=============================================================================
