--------------------------- MODULE SeriesPartition ---------------------------
(***************************************************************************)
(* One partition of a database's series file (tsdb/series_partition.go,    *)
(* series_index.go, series_segment.go, series_file.go): the log of series  *)
(* insertions and deletions, the index over it, half in memory and half in *)
(* a file a compaction rewrites, and what a restart finds.                 *)
(*                                                                         *)
(* The log is one sequence: its segments hold SegmentSize entries each, so *)
(* an entry's offset is its position.  Ids of the other partitions are left*)
(* out, so the next id is the last one plus one.                           *)
(***************************************************************************)
EXTENDS Naturals, Sequences, FiniteSetsExt, SequencesExt

CONSTANTS
    Keys,              \* series keys of the partition
    Callers,           \* goroutines that create series
    SegmentSize,       \* entries a segment holds
    CompactThreshold,  \* entries in memory that start a compaction
    MaxEntries,        \* bound: log entries
    MaxFaults,         \* bound: segments that cannot be created
    MaxRestarts        \* bound: restarts

VARIABLES
    log,        \* the segments' entries: [flag, id, key]
    seq,        \* SeriesPartition.seq
    index,      \* SeriesIndex: what the file holds and what memory adds
    compaction, \* the compaction goroutine: where it is and the index it cloned
    disabled,   \* SeriesPartition.compactionsDisabled
    call,       \* caller -> its CreateSeriesListIfNotExists
    faults, restarts,
    given,      \* ghost: <<key, id>> returned to a caller
    deleted,    \* ghost: the ids whose deletion returned
    flawed      \* ghost: keys a failed batch left in the log but not in the index

vars == <<log, seq, index, compaction, disabled, call, faults, restarts, given, deleted, flawed>>

NoKey == "none"
InsertEntry(id, key) == [flag |-> "insert", id |-> id, key |-> key]
TombstoneEntry(id) == [flag |-> "tombstone", id |-> id, key |-> NoKey]

Segment(offset) == (offset - 1) \div SegmentSize
Inserts(offsets) == {i \in offsets : log[i].flag = "insert"}
IdsOf(offsets) == {log[i].id : i \in offsets}

-----------------------------------------------------------------------------
(* SeriesIndex.  file is what the index file maps, the rest is in memory.  *)

FindOffsetByID(idx, id) == id \in idx.ids \cup idx.file.ids
IsDeleted(idx, id) == id \in idx.tombstones \/ ~FindOffsetByID(idx, id)

FindIDBySeriesKey(idx, key) ==
    LET live(id) == id # 0 /\ ~IsDeleted(idx, id)
    IN  CASE live(idx.keys[key])      -> idx.keys[key]
          [] live(idx.file.keys[key]) -> idx.file.keys[key]
          [] OTHER                    -> 0

NoFile == [keys |-> [k \in Keys |-> 0], ids |-> {}, maxOffset |-> 0]

(* Open and Recover: the entries of l past the file's last one.            *)
Recover(file, l) ==
    LET from == IF file.maxOffset = 0 THEN 0 ELSE Segment(file.maxOffset)
        new  == {i \in DOMAIN l : Segment(i) >= from /\ i > file.maxOffset}
        ins  == {i \in new : l[i].flag = "insert"}
        last(k) == {i \in ins : l[i].key = k}
    IN  [file       |-> file,
         keys       |-> [k \in Keys |-> IF last(k) = {} THEN 0 ELSE l[Max(last(k))].id],
         ids        |-> {l[i].id : i \in ins},
         tombstones |-> {l[i].id : i \in new \ ins},
         maxOffset  |-> Max({file.maxOffset} \cup ins)]

(* Mutant: deleted series are kept.                                        *)
CompactedAll(idx) == Inserts({i \in DOMAIN log : i <= idx.maxOffset})

(* The entries a compaction of the index idx keeps.                        *)
Compacted(idx) == {i \in Inserts({j \in DOMAIN log : j <= idx.maxOffset}) : ~IsDeleted(idx, log[i].id)}

(* compactIndexTo, of the cloned index idx.  Two live ids of one key take  *)
(* two slots of the hash table, and which is met first hangs on the other  *)
(* keys' hashes.                                                           *)
CompactIndexTo(idx) ==
    LET upTo    == Inserts({i \in DOMAIN log : i <= idx.maxOffset})
        kept    == Compacted(idx)
        ids(k)  == IF \E i \in kept : log[i].key = k THEN {log[i].id : i \in {j \in kept : log[j].key = k}} ELSE {0}
    IN  {[keys |-> f, ids |-> IdsOf(kept), maxOffset |-> Max({0} \cup upTo)] :
            f \in {g \in [Keys -> UNION {ids(k) : k \in Keys}] : \A k \in Keys : g[k] \in ids(k)}}

(* Mutant: the last segment alone is looked at.                            *)
NextSeqLast(l) == Max({0} \cup {l[i].id : i \in {j \in DOMAIN l : Segment(j) = Segment(Len(l)) /\ l[j].flag = "insert"}}) + 1

(* openSegments: the last segment with an insertion gives the next id.     *)
NextSeq(l) ==
    LET maxIn(s)  == Max({0} \cup {l[i].id : i \in {j \in DOMAIN l : Segment(j) = s /\ l[j].flag = "insert"}})
        segs      == {Segment(i) : i \in DOMAIN l}
        inserting == {s \in segs : maxIn(s) >= 1}
    IN  IF inserting = {} THEN 1 ELSE maxIn(Max(inserting)) + 1

-----------------------------------------------------------------------------
NoCall == [pc |-> "idle", keys |-> <<>>, ids |-> <<>>]
NoCompaction == [pc |-> "off", clone |-> Recover(NoFile, <<>>)]

Init ==
    /\ log = <<>> /\ seq = 1 /\ index = Recover(NoFile, <<>>)
    /\ compaction = NoCompaction /\ disabled = 0
    /\ call = [c \in Callers |-> NoCall]
    /\ faults = 0 /\ restarts = 0
    /\ given = {} /\ deleted = {} /\ flawed = {}

Pairs(keys, ids) == {<<keys[i], ids[i]>> : i \in DOMAIN keys}

(* CreateSeriesListIfNotExists: the look-up under the read lock.           *)
Lookup(c, keys) ==
    /\ call[c].pc = "idle"
    /\ LET ids == [i \in DOMAIN keys |-> FindIDBySeriesKey(index, keys[i])]
       IN  IF \A i \in DOMAIN ids : ids[i] # 0
           THEN given' = given \cup Pairs(keys, ids) /\ UNCHANGED call
           ELSE call' = [call EXCEPT ![c] = [pc |-> "insert", keys |-> keys, ids |-> ids]] /\ UNCHANGED given
    /\ UNCHANGED <<log, seq, index, compaction, disabled, faults, restarts, deleted, flawed>>

(* Mutant: what another caller inserted meanwhile is not seen.             *)
FoundAgainNot(key) == 0

FoundAgain(key) == FindIDBySeriesKey(index, key)

(* What c's call does under the write lock: each key without an id is      *)
(* looked up once more, also among the batch's own insertions, and logged. *)
Batch(c) ==
    LET put(acc, i) ==
            LET key   == call[c].keys[i]
                twice == {j \in DOMAIN acc.new : acc.new[j].key = key}
                found == FoundAgain(key)
            IN  CASE call[c].ids[i] # 0 -> [acc EXCEPT !.ids = Append(@, call[c].ids[i])]
                  [] twice # {}         -> [acc EXCEPT !.ids = Append(@, acc.new[Max(twice)].id)]
                  [] found # 0          -> [acc EXCEPT !.ids = Append(@, found)]
                  [] OTHER              -> LET id == seq + Len(acc.new)
                                           IN  [ids |-> Append(acc.ids, id), new |-> Append(acc.new, InsertEntry(id, key))]
    IN  FoldLeft(put, [ids |-> <<>>, new |-> <<>>], [i \in DOMAIN call[c].keys |-> i])

(* execEntry of the entries appended at the end of the log.                *)
Insert(idx, new) ==
    LET of(k) == {i \in DOMAIN new : new[i].key = k}
    IN  [idx EXCEPT !.keys = [k \in Keys |-> IF of(k) = {} THEN @[k] ELSE new[Max(of(k))].id],
                    !.ids = @ \cup {new[i].id : i \in DOMAIN new},
                    !.maxOffset = IF new = <<>> THEN @ ELSE Len(log) + Len(new)]

(* The whole section under the write lock: log, flush, index, and start a  *)
(* compaction when memory holds enough.                                    *)
InsertBatch(c) ==
    /\ call[c].pc = "insert"
    /\ LET b == Batch(c)
           i == Insert(index, b.new)
       IN  /\ Len(log) + Len(b.new) <= MaxEntries
           /\ log' = log \o b.new
           /\ seq' = seq + Len(b.new)
           /\ index' = i
           /\ compaction' = IF disabled = 0 /\ compaction.pc = "off" /\ Cardinality(i.ids) >= CompactThreshold
                            THEN [compaction EXCEPT !.pc = "clone"] ELSE compaction
           /\ given' = given \cup Pairs(call[c].keys, b.ids)
    /\ call' = [call EXCEPT ![c] = NoCall]
    /\ UNCHANGED <<disabled, faults, restarts, deleted, flawed>>

(* The positions in a batch's new entries before which a segment is made.  *)
NewSegments(new) == {n \in DOMAIN new : Len(log) + n > 1 /\ Segment(Len(log) + n) # Segment(Len(log) + n - 1)}

(* writeLogEntry cannot create the segment that the n-th entry needs: the  *)
(* call returns an error, the entries before it are in the closed segment  *)
(* and their ids used, and none of them is indexed.                        *)
InsertFails(c) ==
    /\ call[c].pc = "insert" /\ faults < MaxFaults
    /\ \E n \in NewSegments(Batch(c).new) :
          LET put == SubSeq(Batch(c).new, 1, n - 1)
          IN  /\ Len(log) + Len(put) <= MaxEntries
              /\ log' = log \o put
              /\ seq' = seq + Len(put)
              /\ flawed' = flawed \cup {put[i].key : i \in DOMAIN put}
    /\ call' = [call EXCEPT ![c] = NoCall]
    /\ faults' = faults + 1
    /\ UNCHANGED <<index, compaction, disabled, restarts, given, deleted>>

(* DeleteSeriesID of an id a caller was given, wholly under the write lock.*)
(* An id already deleted is ignored.                                       *)
DeleteSeriesID(id) ==
    /\ \/ IsDeleted(index, id) /\ UNCHANGED <<log, index>>
       \/ /\ ~IsDeleted(index, id)
          /\ Len(log) < MaxEntries
          /\ log' = Append(log, TombstoneEntry(id))
          /\ index' = [index EXCEPT !.tombstones = @ \cup {id}]
    /\ deleted' = deleted \cup {id}
    /\ UNCHANGED <<seq, compaction, disabled, call, faults, restarts, given, flawed>>

(* A delete of points stops new compactions while it runs.                 *)
DisableCompactions ==
    /\ disabled = 0
    /\ disabled' = disabled + 1
    /\ UNCHANGED <<log, seq, index, compaction, call, faults, restarts, given, deleted, flawed>>

EnableCompactions ==
    /\ disabled > 0
    /\ disabled' = disabled - 1
    /\ UNCHANGED <<log, seq, index, compaction, call, faults, restarts, given, deleted, flawed>>

-----------------------------------------------------------------------------
(* SeriesPartitionCompactor.Compact: clone under the read lock, write a    *)
(* file from the clone, swap it in and replay the newer entries under the  *)
(* write lock, and clear the flag in a section of its own.                 *)
CompactClone ==
    /\ compaction.pc = "clone"
    /\ compaction' = [pc |-> "swap", clone |-> index]
    /\ UNCHANGED <<log, seq, index, disabled, call, faults, restarts, given, deleted, flawed>>

CompactSwap ==
    /\ compaction.pc = "swap"
    /\ \E file \in CompactIndexTo(compaction.clone) : index' = Recover(file, log)
    /\ compaction' = [NoCompaction EXCEPT !.pc = "clear"]
    /\ UNCHANGED <<log, seq, disabled, call, faults, restarts, given, deleted, flawed>>

CompactClear ==
    /\ compaction.pc = "clear"
    /\ compaction' = NoCompaction
    /\ UNCHANGED <<log, seq, index, disabled, call, faults, restarts, given, deleted, flawed>>

(* The process stops, perhaps with a batch half flushed, and opens the     *)
(* partition again.                                                        *)
Restart ==
    /\ restarts < MaxRestarts
    /\ \E tail \in {<<>>} \cup UNION {{SubSeq(Batch(c).new, 1, n) : n \in DOMAIN Batch(c).new} :
                                         c \in {d \in Callers : call[d].pc = "insert"}} :
          /\ Len(log) + Len(tail) <= MaxEntries
          /\ log' = log \o tail
    /\ seq' = NextSeq(log')
    /\ index' = Recover(index.file, log')
    /\ compaction' = NoCompaction /\ disabled' = 0
    /\ call' = [c \in Callers |-> NoCall]
    /\ restarts' = restarts + 1
    /\ UNCHANGED <<faults, given, deleted, flawed>>

-----------------------------------------------------------------------------
Next ==
    \/ \E c \in Callers :
          \/ \E keys \in [1..1 -> Keys] \cup [1..2 -> Keys] : Lookup(c, keys)
          \/ InsertBatch(c) \/ InsertFails(c)
    \/ \E id \in {g[2] : g \in given} : DeleteSeriesID(id)
    \/ DisableCompactions \/ EnableCompactions
    \/ CompactClone \/ CompactSwap \/ CompactClear
    \/ Restart

Spec == Init /\ [][Next]_vars

-----------------------------------------------------------------------------
(* Properties.                                                             *)

\* A series keeps the id that CreateSeriesListIfNotExists returned for it until that id
\* is deleted: callers that create it at the same time are given one id, and neither
\* compaction nor restart changes the answer.  Keys of a batch that failed half way are
\* excepted (flawed).
IdsKept == \A g \in given : g[2] \in deleted \/ g[1] \in flawed \/ FindIDBySeriesKey(index, g[1]) = g[2]

\* A deleted id stays deleted, whatever compaction was under way when it was deleted and
\* however often the partition is opened.
DeletedStay == \A id \in deleted : IsDeleted(index, id)

\* No id is logged for two insertions: after a restart, seq goes on behind every id ever
\* used, also when the last segments hold deletions only.
NotReused == \A i, j \in Inserts(DOMAIN log) : i # j => log[i].id # log[j].id

\* Promise of CreateSeriesListIfNotExists without the exception for failed batches.  The
\* code breaks it (README, section 6).
IdsKeptAlways == \A g \in given : g[2] \in deleted \/ FindIDBySeriesKey(index, g[1]) = g[2]
=============================================================================
