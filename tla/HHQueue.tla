------------------------------ MODULE HHQueue ------------------------------
(***************************************************************************)
(* The disk-backed queue of one hinted-handoff node processor              *)
(* (services/hh/queue.go): a list of segment files, hints appended to the  *)
(* tail, read from the head, a footer in every file holding the offset of  *)
(* its first unread block.                                                 *)
(*                                                                         *)
(* Every method takes queue.mu for its whole body (Current reads one       *)
(* segment under that segment's lock), so a method is one step.  A hint is *)
(* known by the order in which Append acknowledged it: 1, 2, 3, ...        *)
(***************************************************************************)
EXTENDS Integers, Sequences, FiniteSetsExt

CONSTANTS
  Lens,               \* lengths of marshalled hints, in bytes
  MaxSize,            \* queue.maxSize
  DefaultSegmentSize, \* defaultSegmentSize
  SegmentSizes,       \* arguments of SetMaxSegmentSize
  StartFiles,         \* drained segments left in the directory by an earlier run
  MaxAge,             \* NodeProcessor.MaxAge, in clock ticks
  IOErrors,           \* TRUE if the first write of an append may fail
  MaxHints, MaxID, MaxTime   \* bounds: hints appended, segment ids, clock

ASSUME LensAssumption == Lens \subseteq Nat \ {0}
ASSUME SizeAssumption ==
  MaxSize \in Nat /\ DefaultSegmentSize \in Nat /\ SegmentSizes \subseteq Nat
ASSUME BoundAssumption ==
  /\ MaxHints \in Nat /\ MaxID \in Nat \ {0} /\ MaxTime \in Nat /\ MaxAge \in Nat
  /\ StartFiles \subseteq 1..MaxID
  /\ IOErrors \in BOOLEAN

FooterSize == 8     \* footerSize
LenSize == 8        \* the uint64 in front of every block
Nil == 0            \* a nil *segment; segment ids start at 1

VARIABLES
  files,           \* disk: id -> [blocks, end, pos, mtime]; end is the footer's offset, pos its value
  segs,            \* memory: id -> [pos, size, currentSize, maxSize, open], the segment structs
  segments,        \* queue.segments, as ids
  head, tail,      \* queue.head, queue.tail
  maxSegmentSize,  \* queue.maxSegmentSize
  now,             \* wall clock
  appended,        \* number of Appends that returned nil
  swallowed,       \* hints acknowledged although segment.append failed
  sent,            \* hints the head was advanced past
  purged           \* hints dropped with a purged segment or a removed directory

disk == <<files, now>>
memory == <<segs, segments, head, tail, maxSegmentSize>>
history == <<appended, swallowed, sent, purged>>
vars == <<disk, memory, history>>

-----------------------------------------------------------------------------
(* Segment files *)

\* The file newSegment creates: no block, a footer pointing at offset 0.
NewFile == [blocks |-> [o \in {} |-> o], end |-> 0, pos |-> 0, mtime |-> now]

\* The length read at an offset (readUint64); what is read where no block starts
\* does not matter, FootersOnBlocks shows that it never happens.
LenAt(f, o) == IF o \in DOMAIN f.blocks THEN f.blocks[o].len ELSE 0

\* segment.open: the struct for a file, positioned by the footer.
OpenSegment(f, max) ==
  [pos |-> f.pos, size |-> f.end + FooterSize,
   currentSize |-> IF f.pos < f.end THEN LenAt(f, f.pos) ELSE 0,
   maxSize |-> max, open |-> TRUE]

\* Mutants: the footer is written as 0, or behind the new block.
AppendBlockRewinds(f, pos, len, hint) ==
  [blocks |-> [o \in DOMAIN f.blocks \cup {f.end} |->
                 IF o = f.end THEN [len |-> len, hint |-> hint] ELSE f.blocks[o]],
   end |-> f.end + LenSize + len, pos |-> 0, mtime |-> now]
AppendBlockSkips(f, pos, len, hint) ==
  [blocks |-> [o \in DOMAIN f.blocks \cup {f.end} |->
                 IF o = f.end THEN [len |-> len, hint |-> hint] ELSE f.blocks[o]],
   end |-> f.end + LenSize + len, pos |-> f.end + LenSize + len, mtime |-> now]

\* segment.append on disk: the block overwrites the footer, which moves behind it.
AppendBlock(f, pos, len, hint) ==
  [blocks |-> [o \in DOMAIN f.blocks \cup {f.end} |->
                 IF o = f.end THEN [len |-> len, hint |-> hint] ELSE f.blocks[o]],
   end |-> f.end + LenSize + len, pos |-> pos, mtime |-> now]

\* segment.advance on disk: the footer is rewritten.
MoveFooter(f, pos) == [blocks |-> f.blocks, end |-> f.end, pos |-> pos, mtime |-> now]

\* segment.advance in memory.
MoveSegment(s, pos, currentSize) ==
  [pos |-> pos, size |-> s.size, currentSize |-> currentSize, maxSize |-> s.maxSize, open |-> s.open]

\* segment.append in memory.
GrowSegment(s, len) ==
  [pos |-> s.pos, size |-> s.size + len + LenSize,
   currentSize |-> IF s.currentSize = 0 THEN len ELSE s.currentSize,
   maxSize |-> s.maxSize, open |-> s.open]

\* segment.SetMaxSegmentSize and segment.close.
ResizeSegment(s, size) ==
  [pos |-> s.pos, size |-> s.size, currentSize |-> s.currentSize, maxSize |-> size, open |-> s.open]
CloseSegment(s) ==
  [pos |-> s.pos, size |-> s.size, currentSize |-> s.currentSize, maxSize |-> s.maxSize, open |-> FALSE]

SegmentFull(s, len) == s.size + len > s.maxSize

AtEnd(s) == s.pos = s.size - FooterSize

\* The unread hints of a file: the blocks at or behind the footer's offset.
Unread(f) == {f.blocks[o].hint : o \in {p \in DOMAIN f.blocks : p >= f.pos}}

\* The hint whose block starts at an offset, if one does.
HintAt(f, o) == {f.blocks[p].hint : p \in DOMAIN f.blocks \cap {o}}

\* Files without ids, with id bound to v.
Without(fn, ids) == [i \in DOMAIN fn \ ids |-> fn[i]]
With(fn, id, v) == [i \in DOMAIN fn \cup {id} |-> IF i = id THEN v ELSE fn[i]]

\* nextSegmentID: one more than the largest id among the files.
IsNextSegmentID(id, ids) == (\A i \in ids : i < id) /\ id - 1 \in ids \cup {0}

\* File names are decimal numbers and ReadDir sorts them as strings.
Width[n \in Nat] == IF n < 10 THEN 1 ELSE 1 + Width[n \div 10]
NameKey(n, w) == n * 10^(w - Width[n])
NameBefore(a, b) ==
  LET w == IF Width[a] > Width[b] THEN Width[a] ELSE Width[b]
  IN  \/ NameKey(a, w) < NameKey(b, w)
      \/ NameKey(a, w) = NameKey(b, w) /\ a < b

\* The files of ids up to MaxID are listed in the order in which they were made.
NamesInOrder == \A a, b \in 1..MaxID : NameBefore(a, b) => a < b

\* The orders in which loadSegments may list ids: exactly one, by name.
IsLoadOrder(ids, s) ==
  /\ \A i \in ids : \E k \in DOMAIN s : s[k] = i
  /\ \A j, k \in DOMAIN s : j < k => s[j] # s[k] /\ NameBefore(s[j], s[k])
LoadOrders(ids) ==
  {s \in UNION {[1..n -> ids] : n \in (1..MaxID) \cap {Cardinality(ids)}} : IsLoadOrder(ids, s)}

diskUsage == MapThenSumSet(LAMBDA k : segs[segments[k]].size, DOMAIN segments)

-----------------------------------------------------------------------------
Init ==
  /\ now = 0
  /\ files = [i \in StartFiles |-> NewFile]
  /\ segs = [i \in {} |-> i]
  /\ segments = <<>>
  /\ head = Nil
  /\ tail = Nil
  /\ maxSegmentSize = DefaultSegmentSize
  /\ appended = 0
  /\ swallowed = {}
  /\ sent = {}
  /\ purged = {}

\* Open, after MkdirAll: load the segments, add one if there is none, and trim
\* the first one if it was fully read.
Open ==
  /\ head = Nil
  /\ LET loaded == IF DOMAIN files = {} THEN [i \in {1} |-> NewFile] ELSE files
         mem == [i \in DOMAIN loaded |-> OpenSegment(loaded[i], maxSegmentSize)]
     IN  \E order \in LoadOrders(DOMAIN loaded) :
           LET trim == AtEnd(mem[order[1]]) /\ Len(order) > 1
               gone == IF trim THEN {order[1]} ELSE {}
           IN  /\ files' = Without(loaded, gone)
               /\ segs' = Without(mem, gone)
               /\ segments' = IF trim THEN Tail(order) ELSE order
               /\ head' = IF trim THEN order[2] ELSE order[1]
               /\ tail' = order[Len(order)]
  /\ UNCHANGED <<now, maxSegmentSize, history>>

\* Close.
Close ==
  /\ head # Nil
  /\ segs' = [i \in {} |-> i]
  /\ segments' = <<>>
  /\ head' = Nil
  /\ tail' = Nil
  /\ UNCHANGED <<disk, maxSegmentSize, history>>

\* The process stops between two calls, or the processor makes a new queue for
\* the same directory: everything in memory is lost.
Restart ==
  /\ segs' = [i \in {} |-> i]
  /\ segments' = <<>>
  /\ head' = Nil
  /\ tail' = Nil
  /\ maxSegmentSize' = DefaultSegmentSize
  /\ UNCHANGED <<disk, history>>

\* Remove, or NodeProcessor.Purge: the directory is deleted.
Remove ==
  /\ head = Nil
  /\ DOMAIN files # {}
  /\ purged' = purged \cup UNION {Unread(files[i]) : i \in DOMAIN files}
  /\ files' = [i \in {} |-> i]
  /\ UNCHANGED <<now, memory, appended, swallowed, sent>>

\* SetMaxSegmentSize: for the queue and its listed segments; a tail that is
\* already larger is followed by a new one.
SetMaxSegmentSize(size) ==
  LET resized == [i \in DOMAIN segs |->
                    IF \E k \in DOMAIN segments : segments[k] = i
                    THEN ResizeSegment(segs[i], size) ELSE segs[i]]
  IN  /\ head # Nil
      /\ maxSegmentSize' = size
      /\ \/ /\ segs[tail].size < size
            /\ segs' = resized
            /\ UNCHANGED <<disk, segments, head, tail>>
         \/ /\ segs[tail].size >= size
            /\ \E id \in 1..MaxID :
                 /\ IsNextSegmentID(id, DOMAIN files)
                 /\ files' = With(files, id, NewFile)
                 /\ segs' = With(resized, id, OpenSegment(NewFile, size))
                 /\ segments' = Append(segments, id)
                 /\ tail' = id
            /\ UNCHANGED <<now, head>>
      /\ UNCHANGED history

\* Append: the hint fits into the tail.
AppendToTail(len) ==
  /\ segs[tail].open
  /\ ~SegmentFull(segs[tail], len)
  /\ files' = With(files, tail, AppendBlock(files[tail], segs[tail].pos, len, appended + 1))
  /\ segs' = With(segs, tail, GrowSegment(segs[tail], len))
  /\ appended' = appended + 1
  /\ UNCHANGED <<segments, tail, swallowed>>

\* Append: the tail is full, so the hint goes to a new segment; a hint that fits
\* in no segment is refused and the new, empty segment stays.
AppendToNew(len) ==
  LET empty == OpenSegment(NewFile, maxSegmentSize)
      fits == ~SegmentFull(empty, len)
  IN  /\ segs[tail].open
      /\ SegmentFull(segs[tail], len)
      /\ \E id \in 1..MaxID :
           /\ IsNextSegmentID(id, DOMAIN files)
           /\ files' = With(files, id, IF fits THEN AppendBlock(NewFile, 0, len, appended + 1)
                                               ELSE NewFile)
           /\ segs' = With(segs, id, IF fits THEN GrowSegment(empty, len) ELSE empty)
           /\ segments' = Append(segments, id)
           /\ tail' = id
      /\ appended' = IF fits THEN appended + 1 ELSE appended
      /\ UNCHANGED swallowed

\* Append: segment.append fails with an error other than ErrSegmentFull, because
\* the tail is closed or its first write fails, and Append returns nil.
AppendSwallowed(len) ==
  /\ ~segs[tail].open \/ (IOErrors /\ ~SegmentFull(segs[tail], len))
  /\ appended' = appended + 1
  /\ swallowed' = swallowed \cup {appended + 1}
  /\ UNCHANGED <<files, segs, segments, tail>>

\* Append of a hint of len bytes.  ErrNotOpen and ErrQueueFull change nothing.
AppendHint(len) ==
  /\ tail # Nil
  /\ diskUsage + len <= MaxSize
  /\ appended < MaxHints
  /\ AppendToTail(len) \/ AppendToNew(len) \/ AppendSwallowed(len)
  /\ UNCHANGED <<now, head, maxSegmentSize, sent, purged>>

\* Advance: segment.advance on the head and, at the end of that segment, trimHead.
Advance ==
  LET s == segs[head]
      pos == IF AtEnd(s) THEN s.pos ELSE s.pos + s.currentSize + LenSize
      eof == pos = s.size - FooterSize
      size == IF eof THEN 0 ELSE LenAt(files[head], pos)
      trim == eof /\ Len(segments) > 1
  IN  /\ head # Nil
      /\ sent' = IF AtEnd(s) THEN sent ELSE sent \cup HintAt(files[head], s.pos)
      /\ \/ /\ trim
            /\ files' = Without(files, {head})
            /\ segs' = Without(segs, {head})
            /\ segments' = Tail(segments)
            /\ head' = segments[2]
         \/ /\ ~trim
            /\ files' = IF AtEnd(s) THEN files
                        ELSE With(files, head, MoveFooter(files[head], pos))
            /\ segs' = With(segs, head, MoveSegment(s, pos, size))
            /\ UNCHANGED <<segments, head>>
      /\ UNCHANGED <<now, tail, maxSegmentSize, appended, swallowed, purged>>

Old(k) == files[segments[k]].mtime < now - MaxAge

\* PurgeOlderThan: the k leading segments that are too old are trimmed.  When that
\* is all of them a new one is added first, and l.tail is left as it was.
PurgeOlderThan ==
  /\ head # Nil
  /\ \E k \in DOMAIN segments :
       LET gone == {segments[j] : j \in 1..k}
           \* of the closed structs only the one l.tail points at is still reachable
           closed == [i \in DOMAIN segs \ (gone \ {tail}) |->
                        IF i \in gone THEN CloseSegment(segs[i]) ELSE segs[i]]
           kept == Without(files, gone)
           id == segments[k] + 1
       IN  /\ \A j \in 1..k : Old(j)
           /\ purged' = purged \cup UNION {Unread(files[i]) : i \in gone}
           /\ \/ /\ k < Len(segments)
                 /\ ~Old(k + 1)
                 /\ files' = kept
                 /\ segs' = closed
                 /\ segments' = SubSeq(segments, k + 1, Len(segments))
                 /\ head' = segments[k + 1]
              \/ /\ k = Len(segments)
                 /\ id <= MaxID
                 /\ files' = With(kept, id, NewFile)
                 /\ segs' = With(closed, id, OpenSegment(NewFile, maxSegmentSize))
                 /\ segments' = <<id>>
                 /\ head' = id
  /\ UNCHANGED <<now, tail, maxSegmentSize, appended, swallowed, sent>>

\* Time passes.
Tick ==
  /\ now < MaxTime
  /\ now' = now + 1
  /\ UNCHANGED <<files, memory, history>>

Next ==
  \/ Open \/ Close \/ Restart \/ Remove
  \/ \E size \in SegmentSizes : SetMaxSegmentSize(size)
  \/ \E len \in Lens : AppendHint(len)
  \/ Advance
  \/ PurgeOlderThan
  \/ Tick

Spec == Init /\ [][Next]_vars

-----------------------------------------------------------------------------
(* Properties *)

Listed == {segments[k] : k \in DOMAIN segments}

\* A file that holds hints up to n and was last written at time t or before.
FileOK(f, n, t) ==
  /\ f = [blocks |-> f.blocks, end |-> f.end, pos |-> f.pos, mtime |-> f.mtime]
  /\ f.end \in Nat /\ f.pos \in Nat /\ f.mtime \in 0..t
  /\ DOMAIN f.blocks \subseteq Nat
  /\ f.blocks \in [DOMAIN f.blocks -> [len : Nat \ {0}, hint : 1..n]]

SegmentOK(s) ==
  s \in [pos : Nat, size : Nat, currentSize : Nat, maxSize : Nat, open : BOOLEAN]

\* Type invariant of the queue's files, structs and pointers.
TypeOK ==
  /\ files = [i \in DOMAIN files |-> files[i]]
  /\ DOMAIN files \subseteq 1..MaxID
  /\ \A i \in DOMAIN files : FileOK(files[i], appended, now)
  /\ segs = [i \in DOMAIN segs |-> segs[i]]
  /\ DOMAIN segs \subseteq 1..MaxID
  /\ \A i \in DOMAIN segs : SegmentOK(segs[i])
  /\ segments \in Seq(1..MaxID)
  /\ head \in 0..MaxID
  /\ tail \in 0..MaxID
  /\ maxSegmentSize \in Nat
  /\ now \in 0..MaxTime
  /\ appended \in 0..MaxHints
  /\ swallowed \subseteq 1..appended
  /\ sent \subseteq 1..appended
  /\ purged \subseteq 1..appended

\* The blocks of a file do not overlap, lie before the footer, and each is
\* followed directly by another one or by the footer.
Tiled(f) ==
  /\ \A o \in DOMAIN f.blocks :
       /\ o + LenSize + f.blocks[o].len <= f.end
       /\ o + LenSize + f.blocks[o].len \in DOMAIN f.blocks \cup {f.end}
       /\ \A p \in DOMAIN f.blocks : o < p => o + LenSize + f.blocks[o].len <= p

\* segment.advance moves by a cached size and segment.open trusts the footer: in
\* every file the blocks are laid end to end, and the footer points at the start
\* of one of them or at the end.
FootersOnBlocks ==
  \A i \in DOMAIN files : /\ Tiled(files[i])
                          /\ files[i].pos \in DOMAIN files[i].blocks \cup {files[i].end}

\* Each listed segment struct agrees with its file, so that a process that stops
\* between two calls comes back to the same head block: pos is the footer,
\* size the file's length, currentSize the length of the current block or 0.
MemoryMatchesDisk ==
  \A i \in Listed : /\ i \in DOMAIN files /\ i \in DOMAIN segs
                    /\ segs[i] = OpenSegment(files[i], segs[i].maxSize)

\* The open queue lists exactly the files of its directory, each once, the head
\* is the first, and a tail that is still open is the last: trimming and purging
\* never delete the file of a segment that is still in use.
PointersOK ==
  /\ \A j, k \in DOMAIN segments : segments[j] = segments[k] => j = k
  /\ head = Nil => segments = <<>> /\ tail = Nil
  /\ head # Nil => /\ segments # <<>>
                   /\ head = segments[1]
                   /\ DOMAIN files = Listed
                   /\ tail \in DOMAIN segs
                   /\ segs[tail].open => tail = segments[Len(segments)]

\* A hint is stored in one block of one file.
HintsStoredOnce ==
  \A i, j \in DOMAIN files :
    \A o \in DOMAIN files[i].blocks, p \in DOMAIN files[j].blocks :
      files[i].blocks[o].hint = files[j].blocks[p].hint => i = j /\ o = p

Pending == UNION {Unread(files[i]) : i \in DOMAIN files}

\* A hint whose Append returned nil is on disk and unread until it is advanced
\* past or purged; the only exceptions are the hints whose write error Append
\* dropped.
AcknowledgedKept == 1..appended \ swallowed \subseteq Pending \cup sent \cup purged

\* No hint that was already advanced past or purged is read again, through any
\* trim, purge, close, crash and reopen.
NotReadTwice == Pending \cap (sent \cup purged) = {}

\* Current's end-of-queue test: the head segment has no block left to read.
CurrentIsEOF == AtEnd(segs[head])

\* SendWrite passes Current's EOF on as "there is no more data": when the open
\* queue's Current returns EOF, no unread hint is left on disk.
EOFMeansDrained == head # Nil /\ CurrentIsEOF => Pending = {}

\* Promise of queue, that "byte slices can be appended and read back in-order": the block
\* Current reads is the oldest unread hint.  The code breaks it from the tenth segment on
\* (README, section 6).
HeadIsOldest ==
  head # Nil => \A h \in HintAt(files[head], segs[head].pos) : \A g \in Pending : h <= g

\* An appended hint can be read back: Append never acknowledges a hint that it
\* did not write.
AppendReadBack == swallowed = {}

\* The queue as what its comment promises, a FIFO: no hint that was written is lost,
\* read twice or read out of order.
FIFO == INSTANCE HintFIFO WITH pending <- Pending, lost <- swallowed
IsFIFO == FIFO!Spec

=============================================================================
