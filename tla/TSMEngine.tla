----------------------------- MODULE TSMEngine -----------------------------
(***************************************************************************)
(* The storage engine of a shard, tsdb/engine/tsm1: writes go to the cache  *)
(* and to the write-ahead log, snapshots turn the cache into a TSM file and *)
(* remove log segments, compactions merge TSM files, deletes write          *)
(* tombstones.  The process can crash between any two of these steps.       *)
(*                                                                         *)
(* A key is one point of one series field.  Its versions are numbered in    *)
(* the order in which their writes start; 0 is "no value".  In the log, an  *)
(* entry with version 0 is a delete.  The epoch tracker of the store keeps  *)
(* a write and a delete of the same key apart (module EpochTracker).        *)
(***************************************************************************)
EXTENDS Integers, Sequences, FiniteSets, FiniteSetsExt

CONSTANTS
    Keys, Writers,
    MaxVer,      \* bound: writes
    MaxDeletes,  \* bound: deletes
    MaxFails,    \* bound: snapshots that fail to be written
    MaxCrashes,  \* bound: restarts
    MaxSegment,  \* bound: the id of a log segment
    MaxGen,      \* bound: the generation of a TSM file
    MaxSeq,      \* bound: how often a generation is compacted
    Torn         \* whether a crash may leave part of a log entry

ASSUME TSMAssumption ==
    /\ {MaxVer, MaxDeletes, MaxFails, MaxCrashes, MaxSegment, MaxGen, MaxSeq} \subseteq Nat
    /\ Torn \in BOOLEAN
    /\ "bad" \notin Keys   \* no entry looks like what cannot be decoded

VARIABLES
    cache,     \* c.store: key -> version
    snap,      \* c.snapshot: key -> version
    log,       \* the WAL: segments on disk, the writer of the current one
    tsm,       \* TSM files on disk: <<generation, sequence>> -> values
    files,     \* f.files
    gen,       \* f.currentGeneration
    enabled,   \* c.compactionsEnabled
    wtr,       \* the goroutines in Engine.WritePoints
    sn,        \* the one in writeSnapshotAndCommit
    comp,      \* the one in compactGroup
    del,       \* the one in deleteSeriesRange
    count,     \* how often the bounded steps were taken
    may,       \* ghost: what a read of a key may return
    linger,    \* ghost: keys a snapshot took while a segment it left holds them
    flawed     \* ghost: keys a known defect applies to (README, section 6)

engine == <<cache, snap, log, tsm, files, gen>>
vars == <<engine, enabled, wtr, sn, comp, del, count, may, linger, flawed>>

None == [k \in Keys |-> 0]
NoFile == <<0, 0>>

\* What a reader finds that cannot be decoded: the torn end of a segment, or
\* the zeros of a hole.
Bad == [key |-> "bad", ver |-> 0]

Older(f, g) == f[1] < g[1] \/ (f[1] = g[1] /\ f[2] < g[2])

\* The value of a key in a set of files: the newest file that has one wins.
ValueIn(ts, fs, k) ==
    LET having == {f \in fs : ts[f][k] # 0}
    IN  IF having = {} THEN 0
        ELSE ts[CHOOSE f \in having : \A g \in having : g = f \/ Older(g, f)][k]

-----------------------------------------------------------------------------
(* The write-ahead log.  A log is a record: segs, the segments on disk; cur,  *)
(* the segment of currentSegmentWriter (0: nil); last, currentSegmentID;      *)
(* blank, whether the writer's size is 0; past, whether its file offset is    *)
(* past the end of the file; buf, what is not flushed yet.                    *)

Sync(l) ==
    IF l.buf = <<>> THEN l
    ELSE [l EXCEPT !.segs[l.cur] = @ \o (IF l.past THEN <<Bad>> ELSE <<>>) \o l.buf,
                   !.past = FALSE, !.buf = <<>>]

NewSegmentFile(l) ==
    LET s == IF l.cur = 0 THEN l ELSE Sync(l)
    IN  [s EXCEPT !.last = l.last + 1, !.cur = l.last + 1, !.blank = TRUE, !.past = FALSE,
                  !.segs = [i \in DOMAIN s.segs \cup {l.last + 1} |->
                                IF i = l.last + 1 THEN <<>> ELSE s.segs[i]]]

CloseSegment(l) == IF l.cur = 0 \/ ~l.blank THEN NewSegmentFile(l) ELSE l

\* full: the segment has reached DefaultSegmentSize.
WriteToLog(l, entry, full) ==
    LET r == IF l.cur = 0 \/ full THEN NewSegmentFile(l) ELSE l
    IN  [r EXCEPT !.buf = Append(@, entry), !.blank = FALSE]

ClosedSegments(l) == DOMAIN l.segs \ {l.cur}

\* CacheLoader.Load reads a segment up to the first entry it cannot decode.
Readable(s) ==
    LET bad == {i \in DOMAIN s : s[i] = Bad}
    IN  IF bad = {} THEN s ELSE SubSeq(s, 1, Min(bad) - 1)

Has(s, k) == \E i \in DOMAIN s : s[i].key = k

\* The version of k in the cache that Load makes of these segments: that of
\* the last entry about k, where a delete leaves none.
Loaded(segs, k) ==
    LET with == {i \in DOMAIN segs : Has(Readable(segs[i]), k)}
    IN  IF with = {} THEN 0
        ELSE LET s == Readable(segs[Max(with)])
             IN  s[Max({j \in DOMAIN s : s[j].key = k})].ver

WriterIdle == [pc |-> "idle", key |-> "none", ver |-> 0, old |-> {}]

\* What a sync of the log acknowledges: the writes that wait for it.
Waiting == {w \in Writers : wtr[w].pc = "sync"}
Returned == [w \in Writers |-> IF w \in Waiting THEN WriterIdle ELSE wtr[w]]
Settled == [k \in Keys |-> may[k] \ UNION {wtr[w].old : w \in {x \in Waiting : wtr[x].key = k}}]
DeleteSynced == IF del.pc = "sync" THEN [del EXCEPT !.pc = "enable"] ELSE del

\* Known defect: entries flushed behind a hole are not read again.
Unreadable ==
    IF log.cur # 0 /\ (log.past \/ Has(log.segs[log.cur], "bad"))
    THEN {k \in Keys : Has(log.buf, k)} ELSE {}

-----------------------------------------------------------------------------
(* Engine.WritePoints: the cache first, then the log, with e.mu read-locked.  *)

WriteCache(w, k) ==
    /\ wtr[w].pc = "idle"
    /\ del.pc = "idle" \/ del.key # k
    /\ count.ver < MaxVer
    /\ LET v == count.ver + 1
           writing == {wtr[x].ver : x \in {y \in Writers : wtr[y].pc # "idle"}}
       IN  /\ cache' = [cache EXCEPT ![k] = v]
           /\ wtr' = [wtr EXCEPT ![w] = [pc |-> "log", key |-> k, ver |-> v, old |-> may[k] \ writing]]
           /\ may' = [may EXCEPT ![k] = @ \cup {v}]
           /\ count' = [count EXCEPT !.ver = v]
    /\ UNCHANGED <<snap, log, tsm, files, gen, enabled, sn, comp, del, linger, flawed>>

\* WAL.WriteMulti.  A full segment is synced and closed before the entry is written.
WriteLog(w) ==
    /\ wtr[w].pc = "log"
    /\ \E full \in {FALSE, ~log.blank} :
         /\ (full \/ log.cur = 0) => log.last < MaxSegment
         /\ log' = WriteToLog(log, [key |-> wtr[w].key, ver |-> wtr[w].ver], full)
         /\ wtr' = [(IF full THEN Returned ELSE wtr) EXCEPT ![w].pc = "sync"]
         /\ may' = IF full THEN Settled ELSE may
         /\ del' = IF full THEN DeleteSynced ELSE del
         /\ flawed' = flawed \cup (IF full THEN Unreadable ELSE {})
    /\ UNCHANGED <<cache, snap, tsm, files, gen, enabled, sn, comp, count, linger>>

\* The goroutine of scheduleSync.
SyncLog ==
    /\ log.buf # <<>>
    /\ log' = Sync(log)
    /\ wtr' = Returned
    /\ may' = Settled
    /\ del' = DeleteSynced
    /\ flawed' = flawed \cup Unreadable
    /\ UNCHANGED <<cache, snap, tsm, files, gen, enabled, sn, comp, count, linger>>

-----------------------------------------------------------------------------
(* Engine.WriteSnapshot.                                                      *)

SnapshotIdle == [pc |-> "idle", closed |-> {}, file |-> NoFile]

\* e.mu is write-locked: no write is under way, no snapshot is being committed.
Exclusive == (\A w \in Writers : wtr[w].pc = "idle") /\ sn.pc \in {"idle", "write"}

\* A snapshot that failed is retried as it is; otherwise the cache is taken.
Grab ==
    /\ Exclusive
    /\ sn.pc = "idle"
    /\ log.last < MaxSegment
    /\ LET l == CloseSegment(log)
           retry == snap # None
           taken == IF retry THEN snap ELSE cache
       IN  /\ log' = l
           /\ snap' = taken
           /\ cache' = IF retry THEN cache ELSE None
           /\ sn' = IF taken = None THEN sn
                    ELSE [sn EXCEPT !.pc = "write", !.closed = ClosedSegments(l)]
           /\ del' = IF l = log THEN del ELSE DeleteSynced
           /\ linger' = IF l.cur # log.cur THEN linger
                        ELSE linger \cup {k \in Keys : Has(l.segs[l.cur], k) /\ cache[k] # 0}
           \* known defects: a retry removes segments of newer writes; a delete under way
           /\ flawed' = flawed \cup (IF l = log THEN {} ELSE Unreadable)
                               \cup {k \in Keys : cache[k] # 0 /\ (retry \/ (del.pc # "idle" /\ del.key = k))}
    /\ UNCHANGED <<tsm, files, gen, enabled, wtr, comp, count, may>>

\* A second WriteSnapshot while one is written: ErrSnapshotInProgress, after
\* the segment has been closed.
GrabBusy ==
    /\ Exclusive
    /\ sn.pc = "write"
    /\ log.last < MaxSegment
    /\ CloseSegment(log) # log
    /\ log' = CloseSegment(log)
    /\ del' = DeleteSynced
    /\ flawed' = flawed \cup Unreadable
    /\ UNCHANGED <<cache, snap, tsm, files, gen, enabled, wtr, sn, comp, count, may, linger>>

\* Compactor.WriteSnapshot, to a temporary file.
SnapshotWrite ==
    /\ sn.pc = "write"
    /\ gen < MaxGen
    /\ gen' = gen + 1
    /\ sn' = [sn EXCEPT !.pc = "rename", !.file = <<gen + 1, 1>>]
    /\ UNCHANGED <<cache, snap, log, tsm, files, enabled, wtr, comp, del, count, may, linger, flawed>>

\* It fails, is disabled, or the file cannot be renamed: ClearSnapshot(false).
SnapshotFail ==
    /\ sn.pc \in {"write", "rename"}
    /\ count.fail < MaxFails
    /\ sn.pc = "write" => gen < MaxGen
    /\ gen' = IF sn.pc = "write" THEN gen + 1 ELSE gen
    /\ sn' = SnapshotIdle
    /\ count' = [count EXCEPT !.fail = @ + 1]
    /\ UNCHANGED <<cache, snap, log, tsm, files, enabled, wtr, comp, del, may, linger, flawed>>

\* Mutant: the log is cleaned although the file is not there.
SnapshotRenameLate ==
    /\ sn.pc = "rename"
    /\ sn' = IF sn.closed = {} THEN SnapshotIdle ELSE [sn EXCEPT !.pc = "clean"]
    /\ UNCHANGED <<cache, snap, log, tsm, files, gen, enabled, wtr, comp, del, count, may, linger, flawed>>

\* FileStore.replace: the file gets its name ...
SnapshotRename ==
    /\ sn.pc = "rename"
    /\ tsm' = [f \in DOMAIN tsm \cup {sn.file} |-> IF f = sn.file THEN snap ELSE tsm[f]]
    /\ sn' = [sn EXCEPT !.pc = "install"]
    /\ UNCHANGED <<cache, snap, log, files, gen, enabled, wtr, comp, del, count, may, linger, flawed>>

\* ... and is listed, with f.mu write-locked; then ClearSnapshot(true).
SnapshotInstall ==
    /\ sn.pc = "install"
    /\ del.pc # "tomb" /\ comp.pc # "unlink"
    /\ files' = files \cup {sn.file}
    /\ snap' = None
    /\ sn' = IF sn.closed = {} THEN SnapshotIdle ELSE [sn EXCEPT !.pc = "clean"]
    /\ UNCHANGED <<cache, log, tsm, gen, enabled, wtr, comp, del, count, may, linger, flawed>>

\* WAL.Remove, a file at a time.
RemoveSegment ==
    /\ sn.pc = "clean"
    /\ LET i == Min(sn.closed)
       IN  /\ log' = [log EXCEPT !.segs = [j \in DOMAIN @ \ {i} |-> @[j]]]
           /\ sn' = IF sn.closed = {i} THEN SnapshotIdle ELSE [sn EXCEPT !.closed = @ \ {i}]
    /\ UNCHANGED <<cache, snap, tsm, files, gen, enabled, wtr, comp, del, count, may, linger, flawed>>

-----------------------------------------------------------------------------
(* compactGroup.                                                              *)

\* A plan: all files of some generations with none in between.
Planned(group) ==
    \A f, h \in group, g \in files : f[1] <= g[1] /\ g[1] <= h[1] => g \in group

\* Mutant: the oldest file wins.
MergedOldest(group) ==
    [k \in Keys |->
        LET having == {f \in group : tsm[f][k] # 0}
        IN  IF having = {} THEN 0
            ELSE tsm[CHOOSE f \in having : \A g \in having : g = f \/ Older(f, g)][k]]

Merged(group) == [k \in Keys |-> ValueIn(tsm, group, k)]

\* Compactor.compact: the new file follows the newest one of the group; there
\* is none if no value is left.
CompactStart(group) ==
    /\ comp.pc = "idle"
    /\ enabled
    /\ Planned(group)
    /\ LET newest == CHOOSE f \in group : \A g \in group : g = f \/ Older(g, f)
           vals == Merged(group)
       IN  /\ newest[2] < MaxSeq
           /\ comp' = [pc |-> "merge", group |-> group, vals |-> vals,
                       file |-> IF vals = None THEN NoFile ELSE <<newest[1], newest[2] + 1>>]
    /\ UNCHANGED <<engine, enabled, wtr, sn, del, count, may, linger, flawed>>

CompactIdle == [pc |-> "idle", group |-> {}, vals |-> None, file |-> NoFile]

\* Compactions were disabled meanwhile, or an error.
CompactAbort ==
    /\ comp.pc \in {"merge", "rename"}
    /\ comp' = CompactIdle
    /\ UNCHANGED <<engine, enabled, wtr, sn, del, count, may, linger, flawed>>

CompactCheck ==
    /\ comp.pc = "merge"
    /\ enabled
    /\ comp' = [comp EXCEPT !.pc = "rename"]
    /\ UNCHANGED <<engine, enabled, wtr, sn, del, count, may, linger, flawed>>

CompactRename ==
    /\ comp.pc = "rename"
    /\ tsm' = IF comp.file = NoFile THEN tsm
              ELSE [f \in DOMAIN tsm \cup {comp.file} |-> IF f = comp.file THEN comp.vals ELSE tsm[f]]
    /\ comp' = [comp EXCEPT !.pc = "swap"]
    /\ UNCHANGED <<cache, snap, log, files, gen, enabled, wtr, sn, del, count, may, linger, flawed>>

\* With f.mu write-locked, the old files are removed one by one.
CompactSwap ==
    /\ comp.pc = "swap"
    /\ del.pc # "tomb"
    /\ files' = (files \ comp.group) \cup ({comp.file} \ {NoFile})
    /\ comp' = [comp EXCEPT !.pc = "unlink"]
    /\ UNCHANGED <<cache, snap, log, tsm, gen, enabled, wtr, sn, del, count, may, linger, flawed>>

CompactUnlink(f) ==
    /\ comp.pc = "unlink"
    /\ f \in comp.group
    /\ tsm' = [g \in DOMAIN tsm \ {f} |-> tsm[g]]
    /\ comp' = IF comp.group = {f} THEN CompactIdle ELSE [comp EXCEPT !.group = @ \ {f}]
    /\ UNCHANGED <<cache, snap, log, files, gen, enabled, wtr, sn, del, count, may, linger, flawed>>

-----------------------------------------------------------------------------
(* deleteSeriesRange.                                                         *)

DeleteIdle == [pc |-> "idle", key |-> "none", todo |-> {}, found |-> FALSE]

\* disableLevelCompactions(true), which write-locks e.mu: no compaction is started ...
DeleteStart(k) ==
    /\ del.pc = "idle"
    /\ Exclusive
    /\ count.del < MaxDeletes
    /\ count' = [count EXCEPT !.del = @ + 1]
    /\ enabled' = FALSE
    /\ del' = [pc |-> "wait", key |-> k, todo |-> {}, found |-> FALSE]
    \* until the delete has returned, any stored version may come to light
    /\ may' = [may EXCEPT ![k] = @ \cup {0} \cup {tsm[f][k] : f \in DOMAIN tsm}]
    \* known defect: a delete looks at the live cache only
    /\ flawed' = IF snap[k] # 0 THEN flawed \cup {k} ELSE flawed
    /\ UNCHANGED <<engine, wtr, sn, comp, linger>>

\* Mutant: the delete does not wait for the compaction.
DeleteApplyEarly ==
    /\ del.pc = "wait"
    /\ comp.pc # "unlink"
    /\ del' = [del EXCEPT !.pc = IF files = {} THEN "find" ELSE "tomb", !.todo = files]
    /\ UNCHANGED <<engine, enabled, wtr, sn, comp, count, may, linger, flawed>>

\* ... and the running one has ended.  FileStore.Apply read-locks f.mu.
DeleteApply ==
    /\ del.pc = "wait"
    /\ comp.pc = "idle"
    /\ del' = [del EXCEPT !.pc = IF files = {} THEN "find" ELSE "tomb", !.todo = files]
    /\ UNCHANGED <<engine, enabled, wtr, sn, comp, count, may, linger, flawed>>

Tombstone(f) ==
    /\ del.pc = "tomb"
    /\ f \in del.todo
    /\ tsm' = [tsm EXCEPT ![f][del.key] = 0]
    /\ del' = [del EXCEPT !.todo = @ \ {f}, !.pc = IF del.todo = {f} THEN "find" ELSE "tomb"]
    /\ UNCHANGED <<cache, snap, log, files, gen, enabled, wtr, sn, comp, count, may, linger, flawed>>

\* Cache.ApplyEntryFn: only keys that are in the cache are deleted from it, and from the log.
DeleteFind ==
    /\ del.pc = "find"
    /\ del' = [del EXCEPT !.pc = "cache", !.found = cache[del.key] # 0]
    /\ UNCHANGED <<engine, enabled, wtr, sn, comp, count, may, linger, flawed>>

DeleteCache ==
    /\ del.pc = "cache"
    /\ cache' = IF del.found THEN [cache EXCEPT ![del.key] = 0] ELSE cache
    /\ del' = [del EXCEPT !.pc = IF del.found THEN "log" ELSE "enable"]
    /\ UNCHANGED <<snap, log, tsm, files, gen, enabled, wtr, sn, comp, count, may, linger, flawed>>

DeleteLog ==
    /\ del.pc = "log"
    /\ \E full \in {FALSE, ~log.blank} :
         /\ (full \/ log.cur = 0) => log.last < MaxSegment
         /\ log' = WriteToLog(log, [key |-> del.key, ver |-> 0], full)
         /\ wtr' = IF full THEN Returned ELSE wtr
         /\ may' = IF full THEN Settled ELSE may
         /\ flawed' = flawed \cup (IF full THEN Unreadable ELSE {})
    /\ del' = [del EXCEPT !.pc = "sync"]
    /\ UNCHANGED <<cache, snap, tsm, files, gen, enabled, sn, comp, count, linger>>

\* enableLevelCompactions(true), with e.mu write-locked, and the delete has been done.
DeleteReturn ==
    /\ del.pc = "enable"
    /\ Exclusive
    /\ enabled' = TRUE
    /\ del' = DeleteIdle
    /\ may' = [may EXCEPT ![del.key] = {0}]
    \* known defect: a segment holds the key, the cache does not
    /\ flawed' = IF ~del.found /\ del.key \in linger
                 THEN flawed \cup {del.key} ELSE flawed
    /\ UNCHANGED <<engine, wtr, sn, comp, count, linger>>

-----------------------------------------------------------------------------
(* A crash and Engine.Open.                                                   *)

\* n entries of the buffer have reached the disk, and perhaps a part of the next.
Crashed(n, torn) ==
    IF n = 0 /\ ~torn THEN log.segs
    ELSE [log.segs EXCEPT ![log.cur] = @ \o (IF log.past THEN <<Bad>> ELSE <<>>)
                                         \o SubSeq(log.buf, 1, n)
                                         \o (IF torn THEN <<Bad>> ELSE <<>>)]

\* WAL.Open goes to the end of the last segment, or removes it if it is empty;
\* then reloadCache truncates the segments to what is readable.
Opened(segs) ==
    LET last == IF DOMAIN segs = {} THEN 0 ELSE Max(DOMAIN segs)
        empty == last # 0 /\ segs[last] = <<>>
        kept == IF empty THEN DOMAIN segs \ {last} ELSE DOMAIN segs
    IN  [segs |-> [i \in kept |-> Readable(segs[i])],
         cur |-> IF empty THEN 0 ELSE last,
         last |-> last,
         blank |-> TRUE,
         past |-> last # 0 /\ ~empty /\ Readable(segs[last]) # segs[last],
         buf |-> <<>>]

Restart ==
    /\ count.crash < MaxCrashes
    /\ \E n \in 0 .. Len(log.buf), torn \in {FALSE, Torn} :
         /\ torn => n < Len(log.buf)
         /\ log' = Opened(Crashed(n, torn))
         /\ cache' = [k \in Keys |-> Loaded(Crashed(n, torn), k)]
    /\ snap' = None
    /\ files' = DOMAIN tsm
    /\ gen' = IF DOMAIN tsm = {} THEN 0 ELSE Max({f[1] : f \in DOMAIN tsm}) + 1
    /\ enabled' = TRUE
    /\ wtr' = [w \in Writers |-> WriterIdle]
    /\ sn' = SnapshotIdle
    /\ comp' = CompactIdle
    /\ del' = DeleteIdle
    /\ count' = [count EXCEPT !.crash = @ + 1]
    /\ linger' = {}
    /\ UNCHANGED <<tsm, may, flawed>>

-----------------------------------------------------------------------------
Init ==
    /\ cache = None /\ snap = None
    /\ log = [segs |-> <<>>, cur |-> 0, last |-> 0, blank |-> TRUE, past |-> FALSE, buf |-> <<>>]
    /\ tsm = <<>> /\ files = {} /\ gen = 0 /\ enabled = TRUE
    /\ wtr = [w \in Writers |-> WriterIdle]
    /\ sn = SnapshotIdle /\ comp = CompactIdle /\ del = DeleteIdle
    /\ count = [ver |-> 0, del |-> 0, fail |-> 0, crash |-> 0]
    /\ may = [k \in Keys |-> {0}]
    /\ linger = {} /\ flawed = {}

Next ==
    \/ \E w \in Writers : (\E k \in Keys : WriteCache(w, k)) \/ WriteLog(w)
    \/ SyncLog
    \/ Grab \/ GrabBusy \/ SnapshotWrite \/ SnapshotFail \/ SnapshotRename
    \/ SnapshotInstall \/ RemoveSegment
    \/ \E group \in (SUBSET files) \ {{}} : CompactStart(group)
    \/ CompactAbort \/ CompactCheck \/ CompactRename \/ CompactSwap
    \/ \E f \in DOMAIN tsm : CompactUnlink(f) \/ Tombstone(f)
    \/ \E k \in Keys : DeleteStart(k)
    \/ DeleteApply \/ DeleteFind \/ DeleteCache \/ DeleteLog \/ DeleteReturn
    \/ Restart

Spec == Init /\ [][Next]_vars

-----------------------------------------------------------------------------
(* Properties.                                                                *)

\* What a read returns: Cache.Values before KeyCursor, and the cache before its snapshot.
Visible(k) ==
    IF cache[k] # 0 THEN cache[k]
    ELSE IF snap[k] # 0 THEN snap[k]
    ELSE ValueIn(tsm, files, k)

\* What a read would return after a crash now.
Recovered(k) ==
    LET v == Loaded(log.segs, k)
    IN  IF v # 0 THEN v ELSE ValueIn(tsm, DOMAIN tsm, k)

\* A read returns what the acknowledged writes and deletes leave, or a write or
\* delete that is under way or was cut off by a crash.
ReadsCurrent == \A k \in Keys \ flawed : Visible(k) \in may[k]

\* So does a read after a crash at any moment: a write or a delete that
\* WritePoints or DeleteSeriesRange has returned from is not undone.
SurvivesCrash == \A k \in Keys \ flawed : Recovered(k) \in may[k]

\* A compaction changes nothing that can be read, before or after a crash, at
\* any of its steps.
CompactionInvisible ==
    [][comp' # comp /\ count' = count =>
          \A k \in Keys : Visible(k)' = Visible(k) /\ Recovered(k)' = Recovered(k)]_vars

\* As SurvivesCrash, for all keys.  "grab the cache snapshot along with all the
\* closed WAL filenames associated with the snapshot" (engine.go:1791).
AcknowledgedKept == \A k \in Keys : Recovered(k) \in may[k]
=============================================================================
