---------------------------- MODULE TSIPartition ----------------------------
(***************************************************************************)
(* One partition of a shard's tsi1 index (tsdb/index/tsi1/partition.go,    *)
(* file_set.go, log_file.go, index_files.go, index.go): an active log file *)
(* that series are added to and dropped from, the log and index files under*)
(* it, the goroutines that compact them, the manifest that names them, and *)
(* Close, a crash and Open.                                                *)
(*                                                                         *)
(* The series are those of one measurement; tag keys and values, which are *)
(* kept and merged as the measurement is, are left out.  A log file's size *)
(* is its number of entries.                                               *)
(***************************************************************************)
EXTENDS Naturals, Sequences, FiniteSetsExt, SequencesExt, TLC

CONSTANTS
    Ids,             \* series ids
    Creators,        \* goroutines that write points
    Droppers,        \* goroutines that delete series
    MaxLogFileSize,  \* Partition.MaxLogFileSize
    Levels,          \* compaction levels, the log's included
    MaxOps,          \* bound: creates and deletes
    MaxRestarts      \* bound: restarts

VARIABLES
    disk,      \* the partition's directory: file name -> its content
    files,     \* fileSet.files, newest first; the manifest lists the same
    active,    \* activeLogFile
    seq,       \* Partition.seq
    set,       \* Partition.seriesIDSet
    comps,     \* the compaction goroutines
    disabled,  \* Partition.compactionsDisabled
    leaked,    \* files a goroutine retained and never releases
    closer,    \* Close: "off", "wait" for the goroutines, "files", "closed"
    call,      \* goroutine -> the call it is in
    ops, restarts,
    panic,     \* a goroutine has panicked
    flawed     \* ghost: ids a known defect has touched

vars == <<disk, files, active, seq, set, comps, disabled, leaked, closer, call, ops, restarts, panic, flawed>>

File(level, id) == [level |-> level, id |-> id]
Log(id) == File(0, id)
Empty == [series |-> {}, tombs |-> {}, mm |-> "none", ids |-> {}, size |-> 0]

-----------------------------------------------------------------------------
Grown(f) == IF f.size < MaxLogFileSize THEN f.size + 1 ELSE f.size     \* larger is all the same

(* LogFile.execEntry.  A tombstone revives the measurement's entry too.    *)
ExecSeries(f, id) ==
    [series |-> f.series \cup {id}, tombs |-> f.tombs \ {id}, mm |-> "live", ids |-> f.ids \cup {id}, size |-> Grown(f)]

ExecDeleteSeries(f, id) ==
    [series |-> f.series \ {id}, tombs |-> f.tombs \cup {id}, mm |-> "live", ids |-> f.ids \ {id}, size |-> Grown(f)]

ExecDeleteMeasurement(f) == [f EXCEPT !.mm = "deleted", !.ids = {}, !.size = Grown(f)]

(* Mutant: tombstones are dropped once they have been applied.             *)
LayerNoTombs(old, f) ==
    [series |-> (old.series \ f.tombs) \cup f.series, tombs |-> {},
     mm |-> IF f.mm = "none" THEN old.mm ELSE f.mm, ids |-> old.ids \cup f.ids, size |-> 0]

(* Mutant: the newest file that has the measurement gives its series.      *)
LayerNewestIds(old, f) ==
    [series |-> (old.series \ f.tombs) \cup f.series, tombs |-> (old.tombs \cup f.tombs) \ f.series,
     mm |-> IF f.mm = "none" THEN old.mm ELSE f.mm, ids |-> IF f.mm = "none" THEN old.ids ELSE f.ids, size |-> 0]

(* A file over older ones: the series and tombstone sets are layered, the  *)
(* measurement's flag is the newest that there is, its series are those of *)
(* every file.                                                             *)
Layer(old, f) ==
    [series |-> (old.series \ f.tombs) \cup f.series,
     tombs  |-> (old.tombs \cup f.tombs) \ f.series,
     mm     |-> IF f.mm = "none" THEN old.mm ELSE f.mm,
     ids    |-> old.ids \cup f.ids,
     size   |-> 0]

(* IndexFiles.CompactTo and LogFile.CompactTo: files oldest last.          *)
CompactTo(names) == FoldLeft(Layer, Empty, Reverse([i \in DOMAIN names |-> disk[names[i]]]))

(* buildSeriesSet.                                                         *)
SeriesSet(names) == CompactTo(names).series

(* FileSet.Measurement: the newest file that knows it decides.             *)
MeasurementExists == CompactTo(files).mm = "live"

ListedIds == UNION {disk[files[i]].ids : i \in DOMAIN files}

(* Mutant: files of lower levels are passed over too.                      *)
LastByLevelAnywhere(fs, level) ==
    LET all == SelectSeq(fs, LAMBDA f : f.level = level)
    IN  IF Len(all) > 2 THEN SubSeq(all, Len(all) - 1, Len(all)) ELSE all

(* FileSet.LastContiguousIndexFilesByLevel, cut to MaxIndexMergeCount: the *)
(* last two files of the level, found from the oldest file on, passing over*)
(* higher levels and stopping at a lower one.                              *)
LastByLevel(fs, level) ==
    LET stop == Max({0} \cup {i \in DOMAIN fs : fs[i].level < level})
        tail == SelectSeq(SubSeq(fs, stop + 1, Len(fs)), LAMBDA f : f.level = level)
    IN  IF Len(tail) > 2 THEN SubSeq(tail, Len(tail) - 1, Len(tail)) ELSE tail

-----------------------------------------------------------------------------
(* Goroutines that compact: kind, the files they read, the one they write. *)
Comp(kind, in, pc) == [kind |-> kind, in |-> in, out |-> Log(0), pc |-> pc]

(* The references a file's Close waits for.                                *)
Retained(f) ==
    \/ \E c \in comps : c.kind = "level" /\ c.pc \in {"start", "write", "swap"} /\ f \in ToSet(c.in)
    \/ \E g \in DOMAIN call : f \in call[g].held
    \/ f \in leaked

(* Partition.wg counts a goroutine until it only has Compact left to call. *)
Waited == {c \in comps : c.pc \notin {"again", "locked"}}

(* Partition.mu, held by Close while it closes files and by Compact between*)
(* its look at closing and the start of the goroutines.                    *)
Unlocked == closer # "files" /\ ~panic /\ ~\E c \in comps : c.pc = "locked"
Closing == closer # "off"

(* Partition.compact, compactions being enabled: a goroutine for each level*)
(* that has two files and is not compacting.                               *)
Started(fs, cs) ==
    LET busy(l) == \E c \in cs : c.kind = "level" /\ c.pc \notin {"again", "locked"} /\ c.in[1].level = l
    IN  {Comp("level", LastByLevel(fs, l), "start") :
            l \in {m \in 1..(Levels - 2) : Len(LastByLevel(fs, m)) = 2 /\ ~busy(m)}}

Idle == [pc |-> "idle", id |-> 0, file |-> Log(0), held |-> {}, ids |-> {}]
Goto(g, pc) == call' = [call EXCEPT ![g].pc = pc]

Init ==
    /\ disk = (Log(1) :> Empty) /\ files = <<Log(1)>> /\ active = Log(1) /\ seq = 1
    /\ set = {} /\ comps = {} /\ disabled = 0 /\ leaked = {} /\ closer = "off"
    /\ call = [g \in Creators \cup Droppers |-> Idle]
    /\ ops = 0 /\ restarts = 0 /\ panic = FALSE /\ flawed = {}

(* prependActiveLogFile: a new log in front, and the manifest.             *)
Prepend ==
    /\ seq' = seq + 1 /\ active' = Log(seq + 1)
    /\ disk' = (Log(seq + 1) :> Empty) @@ disk
    /\ files' = <<Log(seq + 1)>> \o files

(* CheckLogFile: swap a full log and compact it in the background.         *)
CheckLogFile(g, next, released) ==
    /\ Unlocked
    /\ \/ /\ disk[active].size < MaxLogFileSize
          /\ UNCHANGED <<disk, files, active, seq, comps>>
       \/ /\ disk[active].size >= MaxLogFileSize
          /\ Prepend
          /\ comps' = comps \cup {Comp("log", <<active>>, "write")}
    /\ call' = [call EXCEPT ![g].pc = next, ![g].held = @ \ released]
    /\ UNCHANGED <<set, disabled, leaked, closer, ops, restarts, panic, flawed>>

-----------------------------------------------------------------------------
(* createSeriesListIfNotExists retains the files while AddSeriesList, under*)
(* the read lock, writes the series the existence set lacks, and the log's *)
(* size is looked at.                                                      *)
Create(g, id) ==
    /\ call[g].pc = "idle" /\ Unlocked /\ ~Closing /\ ops < MaxOps
    /\ ops' = ops + 1
    /\ \/ id \in set /\ UNCHANGED <<disk, set>>
       \/ /\ id \notin set
          /\ disk' = [disk EXCEPT ![active] = ExecSeries(@, id)]
          /\ set' = set \cup {id}
    /\ call' = [call EXCEPT ![g].pc = "check", ![g].held = ToSet(files)]
    /\ UNCHANGED <<files, active, seq, comps, disabled, leaked, closer, restarts, panic, flawed>>

CreateCheck(g) == call[g].pc = "check" /\ g \in Creators /\ CheckLogFile(g, "idle", call[g].held)

(* A delete of points (Engine.DeleteSeriesRangeWithPredicate) stops new    *)
(* compactions, waits for those that run and retains the files.            *)
DropBegin(g) ==
    /\ call[g].pc = "idle" /\ Unlocked /\ ~Closing /\ ops < MaxOps
    /\ ops' = ops + 1
    /\ disabled' = disabled + 1
    /\ Goto(g, "wait")
    /\ UNCHANGED <<disk, files, active, seq, set, comps, leaked, closer, restarts, panic, flawed>>

DropWait(g) ==
    /\ call[g].pc = "wait" /\ Waited = {} /\ Unlocked
    /\ \/ Closing /\ Goto(g, "end")
       \/ /\ ~Closing
          /\ \E id \in set : call' = [call EXCEPT ![g] = [@ EXCEPT !.pc = "log", !.id = id, !.held = ToSet(files), !.file = Log(0)]]
       \/ ~Closing /\ set = {} /\ Goto(g, "end")
    /\ UNCHANGED <<disk, files, active, seq, set, comps, disabled, leaked, closer, ops, restarts, panic, flawed>>

(* Partition.DropSeries: it reads activeLogFile without the lock, ...      *)
DropLoad(g) ==
    /\ call[g].pc = "log" /\ call[g].file = Log(0) /\ ~panic
    /\ call' = [call EXCEPT ![g].file = active]
    /\ UNCHANGED <<disk, files, active, seq, set, comps, disabled, leaked, closer, ops, restarts, panic, flawed>>

(* ... logs a tombstone in it, which panics when the file has been closed, *)
DropLog(g) ==
    /\ call[g].pc = "log" /\ call[g].file # Log(0) /\ ~panic
    /\ LET f == call[g].file
       IN  IF f \in DOMAIN disk /\ closer # "closed"
           THEN /\ disk' = [disk EXCEPT ![f] = ExecDeleteSeries(@, call[g].id)]
                /\ flawed' = IF f = active THEN flawed ELSE flawed \cup {call[g].id}
                /\ UNCHANGED panic
           ELSE panic' = TRUE /\ UNCHANGED <<disk, flawed>>
    /\ call' = [call EXCEPT ![g].pc = "set", ![g].file = Log(0)]
    /\ UNCHANGED <<files, active, seq, set, comps, disabled, leaked, closer, ops, restarts>>

(* ... takes the series out of the existence set, and looks at the size.   *)
DropSet(g) ==
    /\ call[g].pc = "set" /\ ~panic
    /\ set' = set \ {call[g].id}
    /\ call' = [call EXCEPT ![g].pc = "check", ![g].id = 0]
    /\ UNCHANGED <<disk, files, active, seq, comps, disabled, leaked, closer, ops, restarts, panic, flawed>>

DropCheck(g) == call[g].pc = "check" /\ g \in Droppers /\ CheckLogFile(g, "has", {})

(* DropMeasurementIfSeriesNotExist: no file lists a series that exists.    *)
DropHas(g) ==
    /\ call[g].pc = "has" /\ Unlocked
    /\ Goto(g, IF Closing \/ ListedIds \cap set # {} THEN "end" ELSE "list")
    /\ UNCHANGED <<disk, files, active, seq, set, comps, disabled, leaked, closer, ops, restarts, panic, flawed>>

(* DropMeasurement retains the files, logs a tombstone for every series    *)
(* they list, the active log once more read without the lock, ...          *)
DropList(g) ==
    /\ call[g].pc = "list" /\ Unlocked
    /\ call' = IF Closing THEN [call EXCEPT ![g].pc = "end"]
               ELSE [call EXCEPT ![g] = [@ EXCEPT !.pc = "mm", !.ids = ListedIds, !.held = @ \cup ToSet(files)]]
    /\ UNCHANGED <<disk, files, active, seq, set, comps, disabled, leaked, closer, ops, restarts, panic, flawed>>

DropIdLoad(g) ==
    /\ call[g].pc = "mm" /\ call[g].ids # {} /\ call[g].file = Log(0) /\ ~panic
    /\ call' = [call EXCEPT ![g].file = active]
    /\ UNCHANGED <<disk, files, active, seq, set, comps, disabled, leaked, closer, ops, restarts, panic, flawed>>

DropId(g) ==
    /\ call[g].pc = "mm" /\ call[g].file # Log(0) /\ ~panic
    /\ LET f == call[g].file
       IN  IF f \in DOMAIN disk /\ closer # "closed"
           THEN \E id \in call[g].ids :
                   /\ disk' = [disk EXCEPT ![f] = ExecDeleteSeries(@, id)]
                   /\ call' = [call EXCEPT ![g].ids = @ \ {id}, ![g].file = Log(0)]
                   /\ flawed' = IF id \in set THEN flawed \cup {id} ELSE flawed
                   /\ UNCHANGED panic
           ELSE panic' = TRUE /\ UNCHANGED <<disk, call, flawed>>
    /\ UNCHANGED <<files, active, seq, set, comps, disabled, leaked, closer, ops, restarts>>

(* ... then one for the measurement, whatever it has become.               *)
DropMeasurement(g) ==
    /\ call[g].pc = "mm" /\ call[g].ids = {} /\ Unlocked
    /\ disk' = [disk EXCEPT ![active] = ExecDeleteMeasurement(@)]
    /\ flawed' = flawed \cup set
    /\ Goto(g, "check2")
    /\ UNCHANGED <<files, active, seq, set, comps, disabled, leaked, closer, ops, restarts, panic>>

DropCheck2(g) == call[g].pc = "check2" /\ CheckLogFile(g, "end", {})

DropEnd(g) ==
    /\ call[g].pc = "end" /\ Unlocked
    /\ call' = [call EXCEPT ![g] = Idle]
    /\ disabled' = IF disabled = 0 THEN 0 ELSE disabled - 1
    /\ UNCHANGED <<disk, files, active, seq, set, comps, leaked, closer, ops, restarts, panic, flawed>>

-----------------------------------------------------------------------------
(* A compaction goroutine.                                                 *)
Become(c, d) == comps' = (comps \ {c}) \cup {d}

(* compactToLevel looks at its interrupt, which only Close sets, before it *)
(* arranges for the files' release.                                        *)
CompactStart(c) ==
    /\ c.pc = "start" /\ ~panic
    /\ \/ /\ Closing
          /\ leaked' = leaked \cup ToSet(c.in)
          /\ Become(c, [c EXCEPT !.pc = "clear"])
          /\ UNCHANGED seq
       \/ /\ ~Closing /\ Unlocked
          /\ seq' = seq + 1
          /\ Become(c, [c EXCEPT !.pc = "write", !.out = File(c.in[1].level + 1, seq + 1)])
          /\ UNCHANGED leaked
    /\ UNCHANGED <<disk, files, active, set, disabled, closer, call, ops, restarts, panic, flawed>>

(* The new file is written from the old ones; Close interrupts it.         *)
CompactWrite(c) ==
    /\ c.pc = "write" /\ ~panic
    /\ LET out == IF c.kind = "log" THEN File(1, c.in[1].id) ELSE c.out
       IN  \/ /\ disk' = (out :> CompactTo(c.in)) @@ disk
              /\ Become(c, [c EXCEPT !.pc = "swap", !.out = out])
           \/ /\ Closing
              /\ comps' = (comps \ {c}) \cup (IF c.kind = "log" THEN {} ELSE {[c EXCEPT !.pc = "clear"]})
              /\ UNCHANGED disk
    /\ UNCHANGED <<files, active, seq, set, disabled, leaked, closer, call, ops, restarts, panic, flawed>>

(* FileSet.MustReplace panics unless the old files are together.           *)
At(in) == {i \in DOMAIN files : i + Len(in) - 1 <= Len(files) /\ SubSeq(files, i, i + Len(in) - 1) = in}

CompactSwap(c) ==
    /\ c.pc = "swap" /\ Unlocked
    /\ IF At(c.in) = {} THEN panic' = TRUE /\ UNCHANGED <<files, comps>>
       ELSE /\ LET i == Min(At(c.in))
               IN  files' = SubSeq(files, 1, i - 1) \o <<c.out>> \o SubSeq(files, i + Len(c.in), Len(files))
            /\ Become(c, [c EXCEPT !.pc = "close"])
            /\ UNCHANGED panic
    /\ UNCHANGED <<disk, active, seq, set, disabled, leaked, closer, call, ops, restarts, flawed>>

(* The old files are closed, once nobody holds them, and removed.          *)
CompactClose(c) ==
    /\ c.pc = "close" /\ ~panic
    /\ \A f \in ToSet(c.in) : ~Retained(f)
    /\ disk' = [f \in DOMAIN disk \ ToSet(c.in) |-> disk[f]]
    /\ Become(c, [c EXCEPT !.pc = "clear"])
    /\ UNCHANGED <<files, active, seq, set, disabled, leaked, closer, call, ops, restarts, panic, flawed>>

(* A level's goroutine clears the level's flag and is done as far as wg    *)
(* goes, before it looks for more to compact.                              *)
CompactClear(c) ==
    /\ c.pc = "clear" /\ c.kind = "level" /\ Unlocked
    /\ Become(c, [c EXCEPT !.pc = "again"])
    /\ UNCHANGED <<disk, files, active, seq, set, disabled, leaked, closer, call, ops, restarts, panic, flawed>>

CompactAgain(c) ==
    /\ c.pc = "again" /\ Unlocked
    /\ IF Closing \/ disabled > 0 THEN comps' = comps \ {c} ELSE Become(c, [c EXCEPT !.pc = "locked"])
    /\ UNCHANGED <<disk, files, active, seq, set, disabled, leaked, closer, call, ops, restarts, panic, flawed>>

CompactMore(c) ==
    /\ c.pc = "locked" /\ ~panic
    /\ comps' = (comps \ {c}) \cup Started(files, comps)
    /\ UNCHANGED <<disk, files, active, seq, set, disabled, leaked, closer, call, ops, restarts, panic, flawed>>

(* A log's goroutine looks for more while wg still counts it.              *)
CompactLogDone(c) ==
    /\ c.pc = "clear" /\ c.kind = "log" /\ Unlocked
    /\ comps' = (comps \ {c}) \cup (IF Closing \/ disabled > 0 THEN {} ELSE Started(files, comps))
    /\ UNCHANGED <<disk, files, active, seq, set, disabled, leaked, closer, call, ops, restarts, panic, flawed>>

-----------------------------------------------------------------------------
(* Close: no write is under way (the shard's lock), a delete may be.  It   *)
(* waits for the goroutines, takes the lock and closes the files.          *)
CloseBegin ==
    /\ closer = "off" /\ ~panic /\ \A g \in Creators : call[g].pc = "idle"
    /\ closer' = "wait"
    /\ UNCHANGED <<disk, files, active, seq, set, comps, disabled, leaked, call, ops, restarts, panic, flawed>>

CloseWait ==
    /\ closer = "wait" /\ ~panic /\ Waited = {}
    /\ closer' = "lock"
    /\ UNCHANGED <<disk, files, active, seq, set, comps, disabled, leaked, call, ops, restarts, panic, flawed>>

CloseLock ==
    /\ closer = "lock" /\ Unlocked
    /\ closer' = "files"
    /\ UNCHANGED <<disk, files, active, seq, set, comps, disabled, leaked, call, ops, restarts, panic, flawed>>

CloseFiles ==
    /\ closer = "files" /\ ~panic
    /\ \A f \in ToSet(files) : ~Retained(f)
    /\ closer' = "closed"
    /\ UNCHANGED <<disk, files, active, seq, set, comps, disabled, leaked, call, ops, restarts, panic, flawed>>

(* The process stops at any point, and Open reads the manifest: the newest *)
(* log that is not full is active, or a new one is made.  Files outside the*)
(* manifest stay: deleteNonManifestFiles removes names relative to the     *)
(* process's directory, not the partition's.                               *)
Open ==
    /\ restarts < MaxRestarts
    /\ restarts' = restarts + 1
    /\ LET room == {i \in DOMAIN files : files[i].level = 0 /\ disk[files[i]].size < MaxLogFileSize}
           max  == Max({files[i].id : i \in DOMAIN files})
       IN  IF room # {}
           THEN active' = files[Min(room)] /\ seq' = max /\ UNCHANGED <<disk, files>>
           ELSE /\ active' = Log(max + 1) /\ seq' = max + 1
                /\ disk' = disk @@ (Log(max + 1) :> Empty)
                /\ files' = <<Log(max + 1)>> \o files
    /\ set' = SeriesSet(files)
    /\ comps' = Started(files', {})
    /\ disabled' = 0 /\ leaked' = {} /\ closer' = "off" /\ panic' = FALSE
    /\ call' = [g \in DOMAIN call |-> Idle]
    /\ UNCHANGED <<ops, flawed>>

-----------------------------------------------------------------------------
Next ==
    \/ \E g \in Creators : (\E id \in Ids : Create(g, id)) \/ CreateCheck(g)
    \/ \E g \in Droppers :
          \/ DropBegin(g) \/ DropWait(g) \/ DropLoad(g) \/ DropLog(g) \/ DropSet(g) \/ DropCheck(g) \/ DropHas(g)
          \/ DropList(g) \/ DropIdLoad(g) \/ DropId(g) \/ DropMeasurement(g) \/ DropCheck2(g) \/ DropEnd(g)
    \/ \E c \in comps :
          \/ CompactStart(c) \/ CompactWrite(c) \/ CompactSwap(c) \/ CompactClose(c) \/ CompactClear(c)
          \/ CompactAgain(c) \/ CompactMore(c) \/ CompactLogDone(c)
    \/ CloseBegin \/ CloseWait \/ CloseLock \/ CloseFiles
    \/ Open

Spec == Init /\ [][Next]_vars

-----------------------------------------------------------------------------
(* Properties.  Ids that one of the defects of section 6 of the README has *)
(* touched are excepted (flawed).                                          *)

\* Between the tombstone and the removal from the existence set.
Dropping(id) == \E g \in Droppers : call[g].id = id /\ call[g].pc = "set"

\* The existence set in memory is what Open would build from the files of the manifest
\* at this moment: compactions of logs and levels, in whatever order they end, neither
\* revive a dropped series nor lose one, and so no restart changes which series exist.
SetIsRebuilt == \A id \in Ids \ flawed : Dropping(id) \/ (id \in set <=> id \in SeriesSet(files))

\* A series that exists can be found through its measurement: some file lists it there,
\* and the newest file that knows the measurement does not call it deleted.
Listed == \A id \in set \ flawed : Dropping(id) \/ (id \in ListedIds /\ MeasurementExists)

\* The files of a compaction stay together in the file set until it replaces them,
\* whatever other compactions and log swaps happen: MustReplace does not panic.
Together == \A c \in comps : c.pc \in {"start", "write", "swap"} => At(c.in) # {}

\* Promise of doc.go: "on startup, all files not in the manifest are removed from the
\* index directory".  The code breaks it (README, section 6).
NoStrays == comps = {} /\ closer = "off" => DOMAIN disk = ToSet(files)

\* Promise of Close, that it returns: no file it waits for is held by a goroutine that
\* has ended.  The code breaks it (README, section 6).
CloseNotStuck == closer = "files" => ToSet(files) \cap leaked = {}

\* Promise of DropSeries: a dropped series is not there after a restart, and an existing
\* one is.  The code breaks it (README, section 6).
SetIsRebuiltAlways == \A id \in Ids : Dropping(id) \/ (id \in set <=> id \in SeriesSet(files))

\* Promise of DropMeasurementIfSeriesNotExist: a measurement with series is not dropped.
\* The code breaks it (README, section 6).
ListedAlways == \A id \in set : Dropping(id) \/ (id \in ListedIds /\ MeasurementExists)
=============================================================================
