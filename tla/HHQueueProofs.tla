--------------------------- MODULE HHQueueProofs ---------------------------
(***************************************************************************)
(* The hinted-handoff queue: lemmas about what its operations do to one    *)
(* file and one struct, the inductive invariant, that each step preserves  *)
(* it, and the theorems.  They hold for every set of hint lengths, every   *)
(* segment and queue size and every bound of HHQueue.                      *)
(***************************************************************************)
EXTENDS HHQueue, TLAPS

(* What the steps need to know of one file. *)
Good(f, n, t) ==
  /\ FileOK(f, n, t)
  /\ Tiled(f)
  /\ f.pos \in DOMAIN f.blocks \cup {f.end}

-----------------------------------------------------------------------------
(* Lemmas about one segment file *)

\* A file newSegment creates is well formed and has nothing to read.
LEMMA NewFileGood ==
  ASSUME now \in Nat, NEW n \in Nat
  PROVE  Good(NewFile, n, now) /\ Unread(NewFile) = {} /\ DOMAIN NewFile.blocks = {}
BY DEF Good, FileOK, Tiled, NewFile, Unread

\* A well-formed file stays so when more hints exist and time has passed.
LEMMA GoodMonotone ==
  ASSUME NEW f, NEW n \in Nat, NEW t \in Nat, NEW m \in Nat, NEW u \in Nat,
         n <= m, t <= u, Good(f, n, t)
  PROVE  Good(f, m, u)
<1>1. 1..n \subseteq 1..m /\ 0..t \subseteq 0..u
  OBVIOUS
<1>2. f.blocks \in [DOMAIN f.blocks -> [len : Nat \ {0}, hint : 1..m]]
  BY <1>1 DEF Good, FileOK
<1> QED
  BY <1>1, <1>2 DEF Good, FileOK

\* segment.append keeps a file well formed and adds its hint to the unread ones.
LEMMA AppendBlockGood ==
  ASSUME NEW f, NEW n \in Nat, NEW t \in Nat, Good(f, n, t), NEW len \in Nat \ {0},
         now \in Nat, t <= now
  PROVE  LET g == AppendBlock(f, f.pos, len, n + 1)
         IN  /\ Good(g, n + 1, now)
             /\ Unread(g) = Unread(f) \cup {n + 1}
             /\ g.pos = f.pos
             /\ g.end = f.end + LenSize + len
             /\ DOMAIN g.blocks = DOMAIN f.blocks \cup {f.end}
             /\ g.blocks[f.end] = [len |-> len, hint |-> n + 1]
             /\ \A o \in DOMAIN f.blocks : g.blocks[o] = f.blocks[o]
             /\ f.end \notin DOMAIN f.blocks
<1> DEFINE g == AppendBlock(f, f.pos, len, n + 1)
<1> USE DEF LenSize
<1>1. /\ g.pos = f.pos
      /\ g.end = f.end + 8 + len
      /\ g.mtime = now
      /\ DOMAIN g.blocks = DOMAIN f.blocks \cup {f.end}
      /\ g = [blocks |-> g.blocks, end |-> g.end, pos |-> g.pos, mtime |-> g.mtime]
  BY DEF AppendBlock
<1>2. f.end \notin DOMAIN f.blocks
  BY DEF Good, Tiled, FileOK
<1>3. /\ g.blocks[f.end] = [len |-> len, hint |-> n + 1]
      /\ \A o \in DOMAIN f.blocks : g.blocks[o] = f.blocks[o]
  BY <1>2 DEF AppendBlock
<1>4. /\ f.end \in Nat /\ f.pos \in Nat /\ DOMAIN f.blocks \subseteq Nat
      /\ \A o \in DOMAIN f.blocks : f.blocks[o] \in [len : Nat \ {0}, hint : 1..n]
  BY DEF Good, FileOK
<1>5. FileOK(g, n + 1, now)
  <2>1. \A o \in DOMAIN g.blocks : g.blocks[o] \in [len : Nat \ {0}, hint : 1..(n+1)]
    BY <1>1, <1>3, <1>4
  <2>2. g.blocks \in [DOMAIN g.blocks -> [len : Nat \ {0}, hint : 1..(n+1)]]
    BY <2>1, Zenon DEF AppendBlock
  <2> QED
    BY <1>1, <1>4, <2>2 DEF FileOK
<1>6. Tiled(g)
  <2> HIDE DEF g
  <2>1. ASSUME NEW o \in DOMAIN f.blocks
        PROVE  /\ o + 8 + g.blocks[o].len <= g.end
               /\ o + 8 + g.blocks[o].len \in DOMAIN g.blocks \cup {g.end}
               /\ \A p \in DOMAIN g.blocks : o < p => o + 8 + g.blocks[o].len <= p
    <3>1. /\ o + 8 + f.blocks[o].len <= f.end
          /\ o + 8 + f.blocks[o].len \in DOMAIN f.blocks \cup {f.end}
          /\ \A p \in DOMAIN f.blocks : o < p => o + 8 + f.blocks[o].len <= p
      BY DEF Good, Tiled
    <3> QED
      BY <3>1, <1>1, <1>3, <1>4
  <2>2. /\ f.end + 8 + g.blocks[f.end].len = g.end
        /\ \A p \in DOMAIN g.blocks : ~(f.end < p)
    <3>1. \A p \in DOMAIN f.blocks : p < f.end
      BY <1>4 DEF Good, Tiled
    <3> QED
      BY <3>1, <1>1, <1>3, <1>4
  <2> QED
    BY <2>1, <2>2, <1>1, <1>4 DEF Tiled
<1>7. Unread(g) = Unread(f) \cup {n + 1}
  <2> HIDE DEF g
  <2>1. f.pos <= f.end
    BY <1>4 DEF Good, Tiled
  <2>2. ASSUME NEW h \in Unread(g) PROVE h \in Unread(f) \cup {n + 1}
    BY <1>1, <1>3, <1>4 DEF Unread
  <2>3. ASSUME NEW h \in Unread(f) PROVE h \in Unread(g)
    BY <1>1, <1>3, <1>4 DEF Unread
  <2>4. n + 1 \in Unread(g)
    BY <1>1, <1>3, <1>4, <2>1 DEF Unread
  <2> QED
    BY <2>2, <2>3, <2>4
<1> QED
  BY <1>1, <1>2, <1>3, <1>5, <1>6, <1>7 DEF Good

\* segment.advance moves the footer of a well-formed file over exactly one block.
LEMMA AdvanceGood ==
  ASSUME NEW f, NEW n \in Nat, NEW t \in Nat, Good(f, n, t), f.pos # f.end,
         now \in Nat, t <= now
  PROVE  LET next == f.pos + f.blocks[f.pos].len + LenSize
             g == MoveFooter(f, next)
         IN  /\ Good(g, n, now)
             /\ g.blocks = f.blocks /\ g.end = f.end /\ g.pos = next
             /\ f.pos \in DOMAIN f.blocks
             /\ next \in DOMAIN f.blocks \cup {f.end}
             /\ f.pos < next /\ next <= f.end
             /\ Unread(f) = Unread(g) \cup {f.blocks[f.pos].hint}
             /\ \A o \in DOMAIN f.blocks : o >= next <=> (o >= f.pos /\ o # f.pos)
<1> USE DEF LenSize
<1> DEFINE next == f.pos + f.blocks[f.pos].len + 8
           g == MoveFooter(f, next)
<1>1. /\ f = [blocks |-> f.blocks, end |-> f.end, pos |-> f.pos, mtime |-> f.mtime]
      /\ f.end \in Nat /\ f.pos \in Nat /\ DOMAIN f.blocks \subseteq Nat
      /\ f.pos \in DOMAIN f.blocks
      /\ \A o \in DOMAIN f.blocks : f.blocks[o] \in [len : Nat \ {0}, hint : 1..n]
  BY DEF Good, FileOK
<1>2. g = [blocks |-> f.blocks, end |-> f.end, pos |-> next, mtime |-> now]
  BY DEF MoveFooter
<1>3. /\ next \in DOMAIN f.blocks \cup {f.end}
      /\ next <= f.end
      /\ next \in Nat /\ f.pos < next
  BY <1>1, SMTT(30) DEF Good, Tiled
<1>4. FileOK(g, n, now)
  BY <1>1, <1>2, <1>3, SMTT(90) DEF Good, FileOK
<1>5. Tiled(g)
  <2>1. g.blocks = f.blocks /\ g.end = f.end
    BY <1>2
  <2> HIDE DEF g
  <2> QED
    BY <2>1 DEF Good, Tiled
<1>6. Good(g, n, now)
  BY <1>2, <1>3, <1>4, <1>5 DEF Good
<1>7. \A o \in DOMAIN f.blocks : o >= next <=> (o >= f.pos /\ o # f.pos)
  BY <1>1, <1>3 DEF Good, Tiled
<1>8. Unread(f) = Unread(g) \cup {f.blocks[f.pos].hint}
  <2> HIDE DEF next, g
  <2> QED
    BY <1>1, <1>2, <1>7 DEF Unread
<1> QED
  BY <1>1, <1>2, <1>3, <1>6, <1>7, <1>8

\* A file whose footer points at its end has nothing to read.
LEMMA ReadToEnd ==
  ASSUME NEW f, NEW n, NEW t, Good(f, n, t), f.pos = f.end
  PROVE  Unread(f) = {}
BY DEF Good, FileOK, Tiled, Unread, LenSize

\* The hint at the footer is the one whose block starts there.
LEMMA HintAtFooter ==
  ASSUME NEW f, f.pos \in DOMAIN f.blocks
  PROVE  HintAt(f, f.pos) = {f.blocks[f.pos].hint}
BY DEF HintAt

-----------------------------------------------------------------------------
(* Lemmas about the struct of a segment *)

\* The struct of a well-formed file has the fields segment.open reads from it.
LEMMA OpenSegmentOK ==
  ASSUME NEW f, NEW n \in Nat, NEW t \in Nat, Good(f, n, t), NEW max \in Nat
  PROVE  LET s == OpenSegment(f, max)
         IN  /\ SegmentOK(s) /\ s.open /\ s.pos = f.pos /\ s.maxSize = max
             /\ s.size = f.end + FooterSize
             /\ AtEnd(s) <=> f.pos = f.end
             /\ f.pos # f.end => s.currentSize = f.blocks[f.pos].len
             /\ f.pos = f.end => s.currentSize = 0
<1>1. f.pos \in Nat /\ f.end \in Nat /\ f.pos <= f.end
  BY DEF Good, FileOK, Tiled, LenSize
<1>2. f.pos # f.end => f.pos \in DOMAIN f.blocks /\ f.blocks[f.pos].len \in Nat
  BY DEF Good, FileOK
<1> QED
  BY <1>1, <1>2 DEF OpenSegment, SegmentOK, AtEnd, FooterSize, LenAt

\* segment.append updates the struct to the one segment.open would read back.
LEMMA GrowSegmentOK ==
  ASSUME NEW f, NEW n \in Nat, NEW t \in Nat, Good(f, n, t), NEW max \in Nat,
         NEW len \in Nat \ {0}, now \in Nat, t <= now
  PROVE  GrowSegment(OpenSegment(f, max), len)
           = OpenSegment(AppendBlock(f, f.pos, len, n + 1), max)
<1> DEFINE g == AppendBlock(f, f.pos, len, n + 1)
           s == OpenSegment(f, max)
           u == OpenSegment(g, max)
<1>1. /\ Good(g, n + 1, now) /\ g.pos = f.pos /\ g.end = f.end + LenSize + len
      /\ g.blocks[f.end] = [len |-> len, hint |-> n + 1]
      /\ \A o \in DOMAIN f.blocks : g.blocks[o] = f.blocks[o]
  BY AppendBlockGood
<1>2. f.pos \in Nat /\ f.end \in Nat /\ (f.pos # f.end => f.pos \in DOMAIN f.blocks)
      /\ (f.pos # f.end => f.blocks[f.pos].len \in Nat \ {0}) /\ f.pos <= f.end
  BY DEF Good, FileOK, Tiled, LenSize
<1>3. g.pos # g.end
  BY <1>1, <1>2 DEF LenSize
<1>4. u.currentSize = g.blocks[g.pos].len /\ u.size = g.end + FooterSize /\ u.pos = f.pos
  <2> HIDE DEF g
  <2> QED BY <1>1, <1>3, OpenSegmentOK, SMTT(90)
<1>5. s.currentSize = (IF f.pos # f.end THEN f.blocks[f.pos].len ELSE 0) /\ s.size = f.end + FooterSize
  BY OpenSegmentOK
<1>6. GrowSegment(s, len) = [pos |-> f.pos, size |-> s.size + len + LenSize,
        currentSize |-> IF s.currentSize = 0 THEN len ELSE s.currentSize,
        maxSize |-> max, open |-> TRUE]
  BY DEF GrowSegment, OpenSegment
<1>7. u = [pos |-> f.pos, size |-> u.size, currentSize |-> u.currentSize,
           maxSize |-> max, open |-> TRUE]
  BY <1>1, Zenon DEF OpenSegment
<1>8. s.size + len + LenSize = u.size
  BY <1>1, <1>2, <1>4, <1>5 DEF LenSize, FooterSize
<1>9. u.currentSize = IF s.currentSize = 0 THEN len ELSE s.currentSize
  BY <1>1, <1>2, <1>4, <1>5
<1>10. GrowSegment(s, len) = u
  <2> HIDE DEF g, s, u
  <2> QED
    BY <1>6, <1>7, <1>8, <1>9
<1> QED
  BY <1>10

\* segment.advance updates the struct to the one segment.open would read back.
LEMMA MoveSegmentOK ==
  ASSUME NEW f, NEW n \in Nat, NEW t \in Nat, Good(f, n, t), NEW max \in Nat, f.pos # f.end,
         now \in Nat, t <= now
  PROVE  LET next == f.pos + f.blocks[f.pos].len + LenSize
             s == OpenSegment(f, max)
         IN  MoveSegment(s, next, IF next = s.size - FooterSize THEN 0 ELSE LenAt(f, next))
               = OpenSegment(MoveFooter(f, next), max)
<1> DEFINE next == f.pos + f.blocks[f.pos].len + LenSize
           s == OpenSegment(f, max)
           g == MoveFooter(f, next)
<1>1. /\ Good(g, n, now) /\ g.blocks = f.blocks /\ g.end = f.end /\ g.pos = next
      /\ next <= f.end
  BY AdvanceGood
<1>2. f.pos \in Nat /\ f.end \in Nat /\ next \in Nat
  BY <1>1, Zenon DEF Good, FileOK
<1>3. s.size = f.end + 8 /\ s.open = TRUE /\ s.maxSize = max
  BY DEF OpenSegment, FooterSize
<1>4. s.size - FooterSize = f.end
  BY <1>2, <1>3 DEF FooterSize
<1>5. OpenSegment(g, max) = [pos |-> next, size |-> f.end + 8,
        currentSize |-> IF next < f.end THEN LenAt(f, next) ELSE 0, maxSize |-> max, open |-> TRUE]
  BY <1>1, Zenon DEF OpenSegment, FooterSize, LenAt
<1>6. (IF next = f.end THEN 0 ELSE LenAt(f, next)) = (IF next < f.end THEN LenAt(f, next) ELSE 0)
  BY <1>1, <1>2
<1>7. MoveSegment(s, next, IF next = s.size - FooterSize THEN 0 ELSE LenAt(f, next))
        = OpenSegment(g, max)
  <2> HIDE DEF next, s, g
  <2> QED
    BY <1>3, <1>4, <1>5, <1>6, Zenon DEF MoveSegment
<1> QED
  BY <1>7

-----------------------------------------------------------------------------
(***************************************************************************)
(* The inductive invariant.  AcknowledgedKept and NotReadTwice depend on   *)
(* which blocks a footer has passed, hence on the layout of the files      *)
(* (FilesGood), on the structs that Append and Advance compute offsets     *)
(* with (MemoryMatchesDisk), on the pointers they go through (PointersOK)  *)
(* and on a hint not being stored twice (HintsStoredOnce).                 *)
(***************************************************************************)
Shape ==
  /\ files = [i \in DOMAIN files |-> files[i]]
  /\ DOMAIN files \subseteq 1..MaxID
  /\ segs = [i \in DOMAIN segs |-> segs[i]]
  /\ DOMAIN segs \subseteq 1..MaxID
  /\ \A i \in DOMAIN segs : SegmentOK(segs[i])
  /\ segments \in Seq(1..MaxID)
  /\ head \in 0..MaxID
  /\ tail \in 0..MaxID
  /\ maxSegmentSize \in Nat
  /\ now \in 0..MaxTime
  /\ appended \in 0..MaxHints
  /\ swallowed \subseteq 1..appended
  /\ sent \subseteq 1..appended
  /\ purged \subseteq 1..appended

FilesGood == \A i \in DOMAIN files : Good(files[i], appended, now)

IInv ==
  /\ Shape
  /\ FilesGood
  /\ MemoryMatchesDisk
  /\ PointersOK
  /\ HintsStoredOnce
  /\ AcknowledgedKept
  /\ NotReadTwice

\* The inductive invariant contains the invariants that TLC checks.
LEMMA IInvImplies == IInv => TypeOK /\ FootersOnBlocks
BY DEF IInv, Shape, FilesGood, Good, TypeOK, FootersOnBlocks

\* The queue starts in it.
LEMMA InitIInv == Init => IInv
<1> SUFFICES ASSUME Init PROVE IInv
  OBVIOUS
<1> USE BoundAssumption, SizeAssumption
<1>1. Shape
  BY DEF Init, Shape, Nil
<1>2. \A i \in DOMAIN files : files[i] = NewFile
  BY DEF Init
<1>3. FilesGood
  <2>1. Good(NewFile, appended, now)
    BY NewFileGood DEF Init
  <2> QED
    BY <1>2, <2>1 DEF FilesGood
<1>4. MemoryMatchesDisk /\ PointersOK
  BY DEF Init, MemoryMatchesDisk, Listed, PointersOK, Nil
<1>5. HintsStoredOnce
  BY <1>2 DEF HintsStoredOnce, NewFile
<1>6. AcknowledgedKept /\ NotReadTwice
  BY DEF Init, AcknowledgedKept, NotReadTwice
<1> QED
  BY <1>1, <1>3, <1>4, <1>5, <1>6 DEF IInv

\* Time passing changes no file.
LEMMA TickIInv == IInv /\ Tick => IInv'
<1> SUFFICES ASSUME IInv, Tick PROVE IInv'
  OBVIOUS
<1> USE BoundAssumption
<1>1. /\ files' = files /\ segs' = segs /\ segments' = segments /\ head' = head /\ tail' = tail
      /\ maxSegmentSize' = maxSegmentSize /\ appended' = appended /\ swallowed' = swallowed
      /\ sent' = sent /\ purged' = purged /\ now' = now + 1 /\ now < MaxTime
  BY DEF Tick, memory, history
<1>2. Shape'
  BY <1>1 DEF IInv, Shape
<1>3. FilesGood'
  <2> SUFFICES ASSUME NEW i \in DOMAIN files PROVE Good(files[i], appended, now + 1)
    BY <1>1 DEF FilesGood
  <2>1. Good(files[i], appended, now) /\ appended \in Nat /\ now \in Nat
    BY DEF IInv, FilesGood, Shape
  <2> QED
    BY <2>1, GoodMonotone
<1>4. MemoryMatchesDisk' /\ PointersOK' /\ HintsStoredOnce' /\ AcknowledgedKept' /\ NotReadTwice'
  BY <1>1 DEF IInv, MemoryMatchesDisk, Listed, OpenSegment, LenAt, PointersOK, HintsStoredOnce,
     AcknowledgedKept, NotReadTwice, Pending, Unread
<1> QED
  BY <1>2, <1>3, <1>4 DEF IInv

\* Closing the queue, or losing its memory, changes no file.
LEMMA CloseIInv == IInv /\ (Close \/ Restart) => IInv'
<1> SUFFICES ASSUME IInv, Close \/ Restart PROVE IInv'
  OBVIOUS
<1> USE BoundAssumption, SizeAssumption
<1>1. /\ files' = files /\ segs' = [i \in {} |-> i] /\ segments' = <<>> /\ head' = Nil /\ tail' = Nil
      /\ maxSegmentSize' \in Nat /\ appended' = appended /\ swallowed' = swallowed
      /\ sent' = sent /\ purged' = purged /\ now' = now
  BY DEF Close, Restart, disk, history, IInv, Shape
<1>2. Shape'
  BY <1>1 DEF IInv, Shape, Nil
<1>3. FilesGood' /\ HintsStoredOnce' /\ AcknowledgedKept' /\ NotReadTwice'
  BY <1>1 DEF IInv, FilesGood, HintsStoredOnce, AcknowledgedKept, NotReadTwice, Pending, Unread
<1>4. MemoryMatchesDisk' /\ PointersOK'
  BY <1>1 DEF MemoryMatchesDisk, Listed, PointersOK
<1> QED
  BY <1>2, <1>3, <1>4 DEF IInv

\* Removing the directory drops what was unread.
LEMMA RemoveIInv == IInv /\ Remove => IInv'
<1> SUFFICES ASSUME IInv, Remove PROVE IInv'
  OBVIOUS
<1>1. /\ files' = [i \in {} |-> i] /\ purged' = purged \cup Pending
      /\ segs' = segs /\ segments' = segments /\ head' = head /\ tail' = tail /\ now' = now
      /\ maxSegmentSize' = maxSegmentSize /\ appended' = appended /\ swallowed' = swallowed
      /\ sent' = sent /\ head = Nil
  BY DEF Remove, memory, Pending
<1>2. Pending \subseteq 1..appended
  BY DEF IInv, FilesGood, Good, FileOK, Pending, Unread
<1>3. Pending' = {}
  BY <1>1 DEF Pending
<1>4. Shape'
  BY <1>1, <1>2 DEF IInv, Shape
<1>5. FilesGood' /\ HintsStoredOnce' /\ NotReadTwice' /\ MemoryMatchesDisk' /\ PointersOK'
  BY <1>1, <1>3 DEF IInv, FilesGood, HintsStoredOnce, NotReadTwice, MemoryMatchesDisk, PointersOK, Listed
<1>6. AcknowledgedKept'
  BY <1>1 DEF IInv, AcknowledgedKept
<1> QED
  BY <1>4, <1>5, <1>6 DEF IInv

-----------------------------------------------------------------------------
(* What a change of the directory does to the hints *)

Hints == FilesGood /\ HintsStoredOnce /\ AcknowledgedKept /\ NotReadTwice

\* A hint written behind the last block of a file, or into a new file, becomes
\* pending and disturbs no other hint.
LEMMA HintStored ==
  ASSUME Shape, Hints, NEW len \in Nat \ {0}, NEW id, NEW f,
         id \in DOMAIN files => f = files[id], id \notin DOMAIN files => f = NewFile,
         files' = With(files, id, AppendBlock(f, f.pos, len, appended + 1)),
         appended' = appended + 1, now' = now,
         swallowed' = swallowed, sent' = sent, purged' = purged
  PROVE  Hints'
<1> DEFINE g == AppendBlock(f, f.pos, len, appended + 1)
<1>1. appended \in Nat /\ now \in Nat
  BY DEF Shape
<1>2. Good(f, appended, now)
  BY <1>1, NewFileGood DEF Hints, FilesGood
<1>3. /\ Good(g, appended + 1, now)
      /\ Unread(g) = Unread(f) \cup {appended + 1}
      /\ DOMAIN g.blocks = DOMAIN f.blocks \cup {f.end}
      /\ g.blocks[f.end].hint = appended + 1
      /\ \A o \in DOMAIN f.blocks : g.blocks[o] = f.blocks[o]
      /\ f.end \notin DOMAIN f.blocks
  <2>1. now <= now
    BY <1>1
  <2>2. /\ Good(g, appended + 1, now)
        /\ Unread(g) = Unread(f) \cup {appended + 1}
        /\ DOMAIN g.blocks = DOMAIN f.blocks \cup {f.end}
        /\ g.blocks[f.end] = [len |-> len, hint |-> appended + 1]
        /\ \A o \in DOMAIN f.blocks : g.blocks[o] = f.blocks[o]
        /\ f.end \notin DOMAIN f.blocks
    BY <1>1, <1>2, <2>1, AppendBlockGood
  <2> QED
    BY <2>2
<1>4. /\ DOMAIN files' = DOMAIN files \cup {id}
      /\ files'[id] = g
      /\ \A i \in DOMAIN files \ {id} : files'[i] = files[i]
  BY DEF With
<1> HIDE DEF g
<1>5. FilesGood'
  <2> SUFFICES ASSUME NEW i \in DOMAIN files' PROVE Good(files'[i], appended + 1, now)
    BY DEF FilesGood
  <2>1. CASE i = id
    BY <2>1, <1>3, <1>4
  <2>2. CASE i # id
    <3>1. Good(files[i], appended, now) /\ files'[i] = files[i]
      BY <2>2, <1>4 DEF Hints, FilesGood
    <3> QED
      BY <3>1, <1>1, GoodMonotone
  <2> QED
    BY <2>1, <2>2
<1>6. \A i \in DOMAIN files : \A o \in DOMAIN files[i].blocks : files[i].blocks[o].hint \in 1..appended
  BY DEF Hints, FilesGood, Good, FileOK
<1>7. DOMAIN NewFile.blocks = {} /\ Unread(NewFile) = {}
  BY <1>1, NewFileGood
<1>8. HintsStoredOnce'
  <2> SUFFICES ASSUME NEW i \in DOMAIN files', NEW j \in DOMAIN files',
                      NEW o \in DOMAIN files'[i].blocks, NEW p \in DOMAIN files'[j].blocks,
                      files'[i].blocks[o].hint = files'[j].blocks[p].hint
               PROVE  i = j /\ o = p
    BY DEF HintsStoredOnce
  <2>1. \A k \in DOMAIN files' : \A q \in DOMAIN files'[k].blocks :
          \/ k = id /\ q = f.end /\ files'[k].blocks[q].hint = appended + 1
          \/ k \in DOMAIN files /\ q \in DOMAIN files[k].blocks
             /\ files'[k].blocks[q] = files[k].blocks[q]
    BY <1>3, <1>4, <1>7
  <2> QED
    BY <2>1, <1>6, <1>1 DEF Hints, HintsStoredOnce
<1>9. Pending' = Pending \cup {appended + 1}
  <2>1. Unread(f) \subseteq Pending
    BY <1>7 DEF Pending
  <2>2. \A h \in Pending' : h \in Pending \cup {appended + 1}
    BY <1>3, <1>4, <2>1 DEF Pending
  <2>3. \A h \in Pending : h \in Pending'
    <3> SUFFICES ASSUME NEW i \in DOMAIN files, NEW h \in Unread(files[i]) PROVE h \in Pending'
      BY DEF Pending
    <3> QED
      BY <1>3, <1>4 DEF Pending
  <2>4. appended + 1 \in Pending'
    BY <1>3, <1>4 DEF Pending
  <2> QED
    BY <2>2, <2>3, <2>4
<1>10. AcknowledgedKept'
  BY <1>1, <1>9 DEF Hints, AcknowledgedKept
<1>11. NotReadTwice'
  BY <1>1, <1>9 DEF Hints, NotReadTwice, Shape
<1> QED
  BY <1>5, <1>8, <1>10, <1>11 DEF Hints

\* Deleting files, or adding empty ones, loses exactly the unread hints of the
\* deleted files.
LEMMA FilesDropped ==
  ASSUME Shape, Hints, NEW gone \in SUBSET DOMAIN files, NEW lost, NEW passed,
         DOMAIN files \ gone \subseteq DOMAIN files',
         \A i \in DOMAIN files \ gone : files'[i] = files[i],
         \A i \in DOMAIN files' : i \in DOMAIN files \ gone \/ files'[i] = NewFile,
         lost \cup passed = UNION {Unread(files[i]) : i \in gone},
         purged' = purged \cup lost, sent' = sent \cup passed,
         appended' = appended, now' = now, swallowed' = swallowed
  PROVE  Hints' /\ purged' \subseteq 1..appended /\ sent' \subseteq 1..appended
<1>1. appended \in Nat /\ now \in Nat
  BY DEF Shape
<1>2. /\ Good(NewFile, appended, now)
      /\ DOMAIN NewFile.blocks = {} /\ Unread(NewFile) = {}
  BY <1>1, NewFileGood
<1>3. FilesGood'
  BY <1>2 DEF Hints, FilesGood
<1>4. HintsStoredOnce'
  BY <1>2 DEF Hints, HintsStoredOnce
<1>5. \A i \in DOMAIN files : Unread(files[i]) \subseteq 1..appended
  BY DEF Hints, FilesGood, Good, FileOK, Unread
<1>6. Pending' = UNION {Unread(files[i]) : i \in DOMAIN files \ gone}
  <2>1. \A h \in Pending' : \E i \in DOMAIN files \ gone : h \in Unread(files[i])
    BY <1>2 DEF Pending
  <2>2. ASSUME NEW i \in DOMAIN files \ gone, NEW h \in Unread(files[i]) PROVE h \in Pending'
    BY DEF Pending
  <2> QED
    BY <2>1, <2>2
<1>7. Pending' \cap (lost \cup passed) = {}
  <2> SUFFICES ASSUME NEW i \in DOMAIN files \ gone, NEW j \in gone,
                      NEW h \in Unread(files[i]), h \in Unread(files[j])
               PROVE  FALSE
    BY <1>6
  <2> QED
    BY DEF Unread, Hints, HintsStoredOnce
<1>8. Pending = Pending' \cup lost \cup passed
  BY <1>6 DEF Pending
<1>9. AcknowledgedKept'
  BY <1>8 DEF Hints, AcknowledgedKept
<1>10. NotReadTwice'
  BY <1>7, <1>8 DEF Hints, NotReadTwice
<1> QED
  BY <1>3, <1>4, <1>5, <1>9, <1>10 DEF Hints, Shape

-----------------------------------------------------------------------------
(* The methods that change files *)

\* An open tail is a listed segment whose struct mirrors its file.
LEMMA OpenTail ==
  ASSUME IInv, tail # Nil, segs[tail].open
  PROVE  /\ tail \in Listed /\ tail \in DOMAIN files /\ tail \in DOMAIN segs
         /\ Good(files[tail], appended, now)
         /\ segs[tail] = OpenSegment(files[tail], segs[tail].maxSize)
         /\ segs[tail].maxSize \in Nat
<1>1. head # Nil /\ segments # <<>> /\ segments \in Seq(1..MaxID)
  BY DEF IInv, PointersOK, Shape
<1>2. tail = segments[Len(segments)] /\ Len(segments) \in DOMAIN segments
  BY <1>1 DEF IInv, PointersOK
<1>3. tail \in Listed
  BY <1>2 DEF Listed
<1>4. tail \in DOMAIN files /\ tail \in DOMAIN segs
      /\ segs[tail] = OpenSegment(files[tail], segs[tail].maxSize)
  BY <1>3 DEF IInv, MemoryMatchesDisk
<1> QED
  BY <1>3, <1>4 DEF IInv, FilesGood, Shape, SegmentOK

AppendFrame ==
  /\ now' = now /\ head' = head /\ maxSegmentSize' = maxSegmentSize
  /\ sent' = sent /\ purged' = purged
  /\ tail # Nil /\ appended < MaxHints

\* Append into the tail segment keeps the invariant.
LEMMA AppendToTailIInv ==
  ASSUME IInv, AppendFrame, NEW len \in Nat \ {0}, AppendToTail(len)
  PROVE  IInv'
<1> DEFINE f == files[tail]
           max == segs[tail].maxSize
           g == AppendBlock(f, f.pos, len, appended + 1)
<1> USE BoundAssumption DEF AppendFrame
<1>1. /\ tail \in Listed /\ tail \in DOMAIN files /\ tail \in DOMAIN segs
      /\ Good(f, appended, now) /\ segs[tail] = OpenSegment(f, max) /\ max \in Nat
  BY OpenTail DEF AppendToTail
<1>2. /\ files' = With(files, tail, g)
      /\ segs' = With(segs, tail, GrowSegment(segs[tail], len))
      /\ appended' = appended + 1
      /\ segments' = segments /\ tail' = tail /\ swallowed' = swallowed
  <2>1. segs[tail].pos = f.pos
    BY <1>1 DEF OpenSegment
  <2> QED
    BY <2>1 DEF AppendToTail
<1>3. appended \in Nat /\ now \in Nat /\ now <= now
  BY DEF IInv, Shape
<1>4. GrowSegment(segs[tail], len) = OpenSegment(g, max)
  BY <1>1, <1>3, GrowSegmentOK
<1>5. Hints'
  BY <1>1, <1>2, HintStored DEF IInv, Hints
<1>6. Good(g, appended + 1, now)
  BY <1>1, <1>3, AppendBlockGood, Zenon
<1>7. SegmentOK(OpenSegment(g, max)) /\ OpenSegment(g, max).maxSize = max /\ OpenSegment(g, max).open
  <2>1. appended + 1 \in Nat
    BY <1>3
  <2> HIDE DEF f, g, max
  <2> QED
    BY <1>1, <1>3, <1>6, <2>1, OpenSegmentOK, Zenon
<1> HIDE DEF f, max, g
<1>8. /\ DOMAIN files' = DOMAIN files /\ DOMAIN segs' = DOMAIN segs
      /\ files'[tail] = g /\ segs'[tail] = OpenSegment(g, max)
      /\ \A i \in DOMAIN files \ {tail} : files'[i] = files[i]
      /\ \A i \in DOMAIN segs \ {tail} : segs'[i] = segs[i]
      /\ files' = [i \in DOMAIN files' |-> files'[i]]
      /\ segs' = [i \in DOMAIN segs' |-> segs'[i]]
  BY <1>1, <1>2, <1>4, Zenon DEF With
<1>9. Shape'
  <2>1. 1..appended \subseteq 1..(appended + 1) /\ appended + 1 \in 0..MaxHints
    BY <1>3
  <2>2. \A i \in DOMAIN segs' : SegmentOK(segs'[i])
    BY <1>7, <1>8, Zenon DEF IInv, Shape
  <2> QED
    BY <1>2, <1>8, <2>1, <2>2 DEF IInv, Shape
<1>10. MemoryMatchesDisk'
  <2> SUFFICES ASSUME NEW i \in Listed
               PROVE  /\ i \in DOMAIN files' /\ i \in DOMAIN segs'
                      /\ segs'[i] = OpenSegment(files'[i], segs'[i].maxSize)
    BY <1>2 DEF MemoryMatchesDisk, Listed
  <2>1. i \in DOMAIN files /\ i \in DOMAIN segs /\ segs[i] = OpenSegment(files[i], segs[i].maxSize)
    BY DEF IInv, MemoryMatchesDisk
  <2> QED
    BY <2>1, <1>7, <1>8
<1>11. PointersOK'
  BY <1>1, <1>2, <1>8, <1>7 DEF IInv, PointersOK, Listed, OpenSegment
<1> QED
  BY <1>5, <1>9, <1>10, <1>11 DEF IInv, Hints

\* An append whose error is dropped changes no file; its hint is accounted for.
LEMMA AppendSwallowedIInv ==
  ASSUME IInv, AppendFrame, NEW len \in Nat \ {0}, AppendSwallowed(len)
  PROVE  IInv'
<1> USE BoundAssumption DEF AppendFrame
<1>1. /\ files' = files /\ segs' = segs /\ segments' = segments /\ tail' = tail
      /\ appended' = appended + 1 /\ swallowed' = swallowed \cup {appended + 1}
  BY DEF AppendSwallowed
<1>2. appended \in Nat /\ now \in Nat /\ 1..appended \subseteq 1..(appended + 1)
  BY DEF IInv, Shape
<1>3. Shape'
  BY <1>1, <1>2, SMTT(30) DEF IInv, Shape
<1>4. FilesGood'
  <2> SUFFICES ASSUME NEW i \in DOMAIN files PROVE Good(files[i], appended + 1, now)
    BY <1>1 DEF FilesGood
  <2>1. Good(files[i], appended, now)
    BY DEF IInv, FilesGood
  <2> QED
    BY <1>2, <2>1, GoodMonotone
<1>5. MemoryMatchesDisk' /\ PointersOK' /\ HintsStoredOnce' /\ NotReadTwice'
  BY <1>1 DEF IInv, MemoryMatchesDisk, Listed, OpenSegment, LenAt, PointersOK, HintsStoredOnce,
     NotReadTwice, Pending, Unread
<1>6. AcknowledgedKept'
  <2>1. Pending' = Pending
    BY <1>1 DEF Pending, Unread
  <2> QED
    BY <1>1, <1>2, <2>1 DEF IInv, AcknowledgedKept
<1> QED
  BY <1>3, <1>4, <1>5, <1>6 DEF IInv

\* addSegment, with the new segment made the tail, keeps structs and pointers right.
LEMMA SegmentAdded ==
  ASSUME IInv, head # Nil, NEW id \in 1..MaxID, NEW g, NEW max, NEW mem,
         IsNextSegmentID(id, DOMAIN files),
         DOMAIN mem = DOMAIN segs,
         \A i \in Listed : mem[i] = OpenSegment(files[i], mem[i].maxSize),
         files' = With(files, id, g), segs' = With(mem, id, OpenSegment(g, max)),
         segments' = Append(segments, id), tail' = id, head' = head
  PROVE  /\ MemoryMatchesDisk' /\ PointersOK'
         /\ id \notin DOMAIN files
         /\ segments' \in Seq(1..MaxID)
         /\ DOMAIN files' = DOMAIN files \cup {id} /\ DOMAIN segs' = DOMAIN segs \cup {id}
         /\ files' = [i \in DOMAIN files' |-> files'[i]]
         /\ segs' = [i \in DOMAIN segs' |-> segs'[i]]
<1>1. id \notin DOMAIN files
  <2>1. DOMAIN files \subseteq 1..MaxID
    BY DEF IInv, Shape
  <2> QED
    BY <2>1 DEF IsNextSegmentID
<1>2. DOMAIN files = Listed /\ segments # <<>> /\ head = segments[1] /\ segments \in Seq(1..MaxID)
  BY DEF IInv, PointersOK, Shape
<1>3. /\ DOMAIN files' = DOMAIN files \cup {id} /\ DOMAIN segs' = DOMAIN segs \cup {id}
      /\ files'[id] = g /\ segs'[id] = OpenSegment(g, max)
      /\ \A i \in DOMAIN files : files'[i] = files[i]
      /\ \A i \in DOMAIN segs \ {id} : segs'[i] = mem[i]
      /\ files' = [i \in DOMAIN files' |-> files'[i]]
      /\ segs' = [i \in DOMAIN segs' |-> segs'[i]]
  BY <1>1 DEF With
<1>4. /\ segments' \in Seq(1..MaxID)
      /\ Len(segments') = Len(segments) + 1
      /\ segments'[Len(segments')] = id
      /\ \A k \in DOMAIN segments : segments'[k] = segments[k]
      /\ DOMAIN segments' = DOMAIN segments \cup {Len(segments) + 1}
      /\ DOMAIN segments = 1..Len(segments) /\ Len(segments) \in Nat /\ Len(segments) # 0
  BY <1>2
<1>5. Listed' = Listed \cup {id}
  BY <1>4 DEF Listed
<1>6. MemoryMatchesDisk'
  <2> SUFFICES ASSUME NEW i \in Listed'
               PROVE  /\ i \in DOMAIN files' /\ i \in DOMAIN segs'
                      /\ segs'[i] = OpenSegment(files'[i], segs'[i].maxSize)
    BY DEF MemoryMatchesDisk
  <2>1. CASE i = id
    <3>1. OpenSegment(g, max).maxSize = max
      BY DEF OpenSegment
    <3> QED
      BY <2>1, <3>1, <1>3
  <2>2. CASE i \in Listed
    <3>1. i \in DOMAIN files /\ i \in DOMAIN segs /\ i # id
      BY <2>2, <1>1 DEF IInv, MemoryMatchesDisk
    <3> QED
      BY <2>2, <3>1, <1>3
  <2> QED
    BY <2>1, <2>2, <1>5
<1>7. PointersOK'
  <2>1. \A j, k \in DOMAIN segments' : segments'[j] = segments'[k] => j = k
    <3>1. \A k \in DOMAIN segments : segments[k] # id
      BY <1>1, <1>2 DEF Listed
    <3>2. \A j, k \in DOMAIN segments : segments[j] = segments[k] => j = k
      BY DEF IInv, PointersOK
    <3> QED
      BY <3>1, <3>2, <1>4
  <2>2. head' = segments'[1] /\ segments' # <<>>
    BY <1>2, <1>4
  <2>3. DOMAIN files' = Listed'
    BY <1>2, <1>3, <1>5
  <2> QED
    BY <2>1, <2>2, <2>3, <1>3, <1>4 DEF PointersOK
<1> QED
  BY <1>1, <1>3, <1>4, <1>6, <1>7

\* Append into a new segment keeps the invariant, whether or not the hint fits.
LEMMA AppendToNewIInv ==
  ASSUME IInv, AppendFrame, NEW len \in Nat \ {0}, AppendToNew(len)
  PROVE  IInv'
<1> USE BoundAssumption DEF AppendFrame
<1> DEFINE empty == OpenSegment(NewFile, maxSegmentSize)
           fits == ~SegmentFull(empty, len)
           g == IF fits THEN AppendBlock(NewFile, 0, len, appended + 1) ELSE NewFile
           u == IF fits THEN GrowSegment(empty, len) ELSE empty
<1>1. PICK id \in 1..MaxID :
        /\ IsNextSegmentID(id, DOMAIN files)
        /\ files' = With(files, id, g)
        /\ segs' = With(segs, id, u)
        /\ segments' = Append(segments, id)
        /\ tail' = id
  BY DEF AppendToNew
<1>2. (appended' = IF fits THEN appended + 1 ELSE appended) /\ swallowed' = swallowed
  BY DEF AppendToNew
<1>3. appended \in Nat /\ now \in Nat /\ now <= now /\ maxSegmentSize \in Nat /\ head # Nil
  BY DEF IInv, Shape, PointersOK
<1>4. Good(NewFile, appended, now) /\ NewFile.pos = 0
  BY <1>3, NewFileGood DEF NewFile
<1>5. u = OpenSegment(g, maxSegmentSize)
  <2>1. GrowSegment(empty, len) = OpenSegment(AppendBlock(NewFile, NewFile.pos, len, appended + 1), maxSegmentSize)
    BY <1>3, <1>4, GrowSegmentOK
  <2> QED
    BY <2>1, <1>4
<1>6. Good(g, appended', now)
  <2>1. Good(AppendBlock(NewFile, NewFile.pos, len, appended + 1), appended + 1, now)
    BY <1>3, <1>4, AppendBlockGood, Zenon
  <2> QED
    BY <2>1, <1>2, <1>4
<1>7. SegmentOK(u)
  <2>1. appended' \in Nat
    BY <1>2, <1>3
  <2> HIDE DEF g, u
  <2> QED
    BY <1>3, <1>5, <1>6, <2>1, OpenSegmentOK, Zenon
<1>8. \A i \in Listed : segs[i] = OpenSegment(files[i], segs[i].maxSize)
  BY DEF IInv, MemoryMatchesDisk
<1>9. /\ MemoryMatchesDisk' /\ PointersOK'
      /\ id \notin DOMAIN files
      /\ segments' \in Seq(1..MaxID)
      /\ DOMAIN files' = DOMAIN files \cup {id} /\ DOMAIN segs' = DOMAIN segs \cup {id}
      /\ files' = [i \in DOMAIN files' |-> files'[i]]
      /\ segs' = [i \in DOMAIN segs' |-> segs'[i]]
  <2>1. segs' = With(segs, id, OpenSegment(g, maxSegmentSize)) /\ head' = head
    BY <1>1, <1>5
  <2> HIDE DEF g, u
  <2> QED
    BY <1>1, <1>3, <1>8, <2>1, SegmentAdded, Zenon
<1>10. Hints'
  <2>1. CASE fits
    <3>1. files' = With(files, id, AppendBlock(NewFile, NewFile.pos, len, appended + 1))
      BY <1>1, <1>4, <2>1
    <3> QED
      BY <3>1, <1>2, <1>9, <2>1, HintStored, Zenon DEF IInv, Hints
  <2>2. CASE ~fits
    <3>1. files' = With(files, id, NewFile) /\ appended' = appended
      BY <1>1, <1>2, <2>2
    <3>2. /\ \A i \in DOMAIN files \ {} : files'[i] = files[i]
          /\ \A i \in DOMAIN files' : i \in DOMAIN files \ {} \/ files'[i] = NewFile
      BY <3>1, <1>9 DEF With
    <3>3. {} \cup {} = UNION {Unread(files[i]) : i \in {}}
      OBVIOUS
    <3>4. DOMAIN files \ {} \subseteq DOMAIN files'
      BY <1>9
    <3>5. purged' = purged \cup {} /\ sent' = sent \cup {}
      OBVIOUS
    <3> QED
      BY <3>1, <3>2, <3>3, <3>4, <3>5, <1>2, FilesDropped, Zenon DEF IInv, Hints
  <2> QED
    BY <2>1, <2>2
<1>11. Shape'
  <2>1. 1..appended \subseteq 1..appended' /\ appended' \in 0..MaxHints
    BY <1>2, <1>3
  <2>2. \A i \in DOMAIN segs' : SegmentOK(segs'[i])
    BY <1>1, <1>7, <1>9 DEF IInv, Shape, With
  <2> QED
    BY <1>1, <1>2, <1>9, <2>1, <2>2 DEF IInv, Shape
<1> QED
  BY <1>9, <1>10, <1>11 DEF IInv, Hints

\* SetMaxSegmentSize keeps the invariant.
LEMMA SetMaxSegmentSizeIInv ==
  ASSUME IInv, NEW size \in Nat, SetMaxSegmentSize(size)
  PROVE  IInv'
<1> USE BoundAssumption
<1> DEFINE resized == [i \in DOMAIN segs |->
                         IF \E k \in DOMAIN segments : segments[k] = i
                         THEN ResizeSegment(segs[i], size) ELSE segs[i]]
           add == \E id \in 1..MaxID :
                    /\ IsNextSegmentID(id, DOMAIN files)
                    /\ files' = With(files, id, NewFile)
                    /\ segs' = With(resized, id, OpenSegment(NewFile, size))
                    /\ segments' = Append(segments, id)
                    /\ tail' = id
<1>1. /\ head # Nil /\ maxSegmentSize' = size /\ head' = head /\ now' = now
      /\ appended' = appended /\ swallowed' = swallowed /\ sent' = sent /\ purged' = purged
      /\ \/ segs' = resized /\ files' = files /\ segments' = segments /\ tail' = tail
         \/ add
  BY DEF SetMaxSegmentSize, disk, history
<1>2. /\ DOMAIN resized = DOMAIN segs
      /\ resized = [i \in DOMAIN resized |-> resized[i]]
      /\ \A i \in Listed \cap DOMAIN segs : resized[i] = ResizeSegment(segs[i], size)
      /\ \A i \in DOMAIN segs : i \notin Listed => resized[i] = segs[i]
  BY DEF Listed
<1> HIDE DEF resized
<1>3. \A i \in DOMAIN segs : SegmentOK(segs[i]) => SegmentOK(ResizeSegment(segs[i], size))
                             /\ ResizeSegment(segs[i], size).maxSize = size
                             /\ ResizeSegment(segs[i], size).open = segs[i].open
  BY DEF SegmentOK, ResizeSegment
<1>4. \A i \in Listed : resized[i] = OpenSegment(files[i], resized[i].maxSize)
  <2> SUFFICES ASSUME NEW i \in Listed PROVE resized[i] = OpenSegment(files[i], resized[i].maxSize)
    OBVIOUS
  <2>1. i \in DOMAIN segs /\ segs[i] = OpenSegment(files[i], segs[i].maxSize) /\ SegmentOK(segs[i])
    BY DEF IInv, MemoryMatchesDisk, Shape
  <2>2. resized[i] = ResizeSegment(segs[i], size) /\ resized[i].maxSize = size
    BY <1>2, <1>3, <2>1
  <2>3. ResizeSegment(OpenSegment(files[i], segs[i].maxSize), size) = OpenSegment(files[i], size)
    BY DEF ResizeSegment, OpenSegment
  <2> QED
    BY <2>1, <2>2, <2>3
<1>5. \A i \in DOMAIN segs : SegmentOK(resized[i]) /\ resized[i].open = segs[i].open
  BY <1>2, <1>3, Zenon DEF IInv, Shape
<1>6. CASE segs' = resized /\ files' = files /\ segments' = segments /\ tail' = tail
  <2>1. Hints'
    BY <1>1, <1>6 DEF IInv, Hints, FilesGood, HintsStoredOnce, AcknowledgedKept, NotReadTwice,
       Pending, Unread
  <2>2. Shape'
    BY <1>1, <1>2, <1>5, <1>6 DEF IInv, Shape
  <2>3. MemoryMatchesDisk'
    BY <1>2, <1>4, <1>6 DEF IInv, MemoryMatchesDisk, Listed
  <2>4. PointersOK'
    BY <1>1, <1>2, <1>5, <1>6 DEF IInv, PointersOK, Listed
  <2> QED
    BY <2>1, <2>2, <2>3, <2>4, Zenon DEF IInv, Hints
<1>7. CASE add
  <2>1. PICK id \in 1..MaxID :
          /\ IsNextSegmentID(id, DOMAIN files)
          /\ files' = With(files, id, NewFile)
          /\ segs' = With(resized, id, OpenSegment(NewFile, size))
          /\ segments' = Append(segments, id)
          /\ tail' = id
    BY <1>7
  <2>2. /\ MemoryMatchesDisk' /\ PointersOK'
        /\ id \notin DOMAIN files
        /\ segments' \in Seq(1..MaxID)
        /\ DOMAIN files' = DOMAIN files \cup {id} /\ DOMAIN segs' = DOMAIN segs \cup {id}
        /\ files' = [i \in DOMAIN files' |-> files'[i]]
        /\ segs' = [i \in DOMAIN segs' |-> segs'[i]]
    BY <2>1, <1>1, <1>2, <1>4, SegmentAdded, Zenon
  <2>3. Hints'
    <3>1. /\ \A i \in DOMAIN files \ {} : files'[i] = files[i]
          /\ \A i \in DOMAIN files' : i \in DOMAIN files \ {} \/ files'[i] = NewFile
          /\ DOMAIN files \ {} \subseteq DOMAIN files'
      BY <2>1, <2>2 DEF With
    <3>2. {} \cup {} = UNION {Unread(files[i]) : i \in {}} /\ purged' = purged \cup {} /\ sent' = sent \cup {}
      BY <1>1
    <3> QED
      BY <3>1, <3>2, <1>1, FilesDropped, Zenon DEF IInv, Hints
  <2>4. Shape'
    <3>1. SegmentOK(OpenSegment(NewFile, size))
      <4>1. appended \in Nat /\ now \in Nat
        BY DEF IInv, Shape
      <4> QED
        BY <4>1, NewFileGood, OpenSegmentOK
    <3>2. \A i \in DOMAIN segs' : SegmentOK(segs'[i])
      BY <3>1, <1>2, <1>5, <2>1, <2>2 DEF With
    <3> QED
      BY <1>1, <2>1, <2>2, <3>2, SMTT(90) DEF IInv, Shape
  <2> QED
    BY <2>2, <2>3, <2>4 DEF IInv, Hints
<1> QED
  BY <1>1, <1>6, <1>7

-----------------------------------------------------------------------------
(* Advance and PurgeOlderThan *)

\* An entry of a list of segment ids is a segment id.
LEMMA EntryInSet ==
  ASSUME NEW S, NEW s \in Seq(S), NEW k \in DOMAIN s
  PROVE  s[k] \in S
OBVIOUS

\* What is left of a list when its first k entries are cut off.
LEMMA SuffixOfSeq ==
  ASSUME NEW S, NEW s \in Seq(S), NEW k \in 1..Len(s), k < Len(s)
  PROVE  LET t == SubSeq(s, k + 1, Len(s))
         IN  /\ t \in Seq(S) /\ Len(t) = Len(s) - k
             /\ \A j \in 1..Len(t) : t[j] = s[j + k]
<1>1. /\ Len(SubSeq(s, k + 1, Len(s))) = Len(s) - k
      /\ \A j \in 1..(Len(s) - k) : SubSeq(s, k + 1, Len(s))[j] = s[j + k]
  OBVIOUS
<1>2. \A i \in (k + 1)..Len(s) : s[i] \in S
  OBVIOUS
<1>3. SubSeq(s, k + 1, Len(s)) \in Seq(S)
  BY <1>2
<1> QED
  BY <1>1, <1>3

\* The head of an open queue is a listed segment whose struct mirrors its file.
LEMMA OpenHead ==
  ASSUME IInv, head # Nil
  PROVE  /\ head \in Listed /\ head \in DOMAIN files /\ head \in DOMAIN segs
         /\ Good(files[head], appended, now)
         /\ segs[head] = OpenSegment(files[head], segs[head].maxSize)
         /\ segs[head].maxSize \in Nat
<1>1. segments # <<>> /\ segments \in Seq(1..MaxID) /\ head = segments[1]
  BY DEF IInv, PointersOK, Shape
<1>2. head \in Listed
  BY <1>1 DEF Listed
<1>3. head \in DOMAIN files /\ head \in DOMAIN segs
      /\ segs[head] = OpenSegment(files[head], segs[head].maxSize)
  BY <1>2 DEF IInv, MemoryMatchesDisk
<1> QED
  BY <1>2, <1>3 DEF IInv, FilesGood, Shape, SegmentOK

\* Trimming the k first of several segments, with their files, keeps structs and
\* pointers right; the tail is not among them.
LEMMA PrefixDropped ==
  ASSUME IInv, head # Nil, NEW k \in 1..(Len(segments) - 1), NEW gone,
         gone = {segments[j] : j \in 1..k},
         files' = Without(files, gone),
         DOMAIN segs' \subseteq DOMAIN segs,
         \A i \in DOMAIN segs \ gone : i \in DOMAIN segs' /\ segs'[i] = segs[i],
         segments' \in Seq(1..MaxID), Len(segments') = Len(segments) - k,
         \A j \in 1..Len(segments') : segments'[j] = segments[j + k],
         head' = segments[k + 1], tail' = tail
  PROVE  MemoryMatchesDisk' /\ PointersOK' /\ tail \notin gone
<1>1. /\ segments \in Seq(1..MaxID) /\ Len(segments) \in Nat /\ segments # <<>>
      /\ DOMAIN segments = 1..Len(segments) /\ DOMAIN segments' = 1..Len(segments')
      /\ DOMAIN files = Listed /\ tail \in DOMAIN segs
      /\ \A i, j \in DOMAIN segments : segments[i] = segments[j] => i = j
      /\ segs[tail].open => tail = segments[Len(segments)]
  BY DEF IInv, PointersOK, Shape
<1>2. \A i \in Listed : i \in DOMAIN files /\ i \in DOMAIN segs
                        /\ segs[i] = OpenSegment(files[i], segs[i].maxSize) /\ segs[i].open
  BY DEF IInv, MemoryMatchesDisk, OpenSegment
<1>3. gone \subseteq Listed
  BY <1>1 DEF Listed
<1>4. tail \notin gone
  <2> SUFFICES ASSUME tail \in gone PROVE FALSE
    OBVIOUS
  <2>1. tail = segments[Len(segments)]
    BY <1>1, <1>2, <1>3
  <2> QED
    BY <2>1, <1>1, SMTT(90)
<1>5. Listed' = Listed \ gone
  <2>1. ASSUME NEW i \in Listed' PROVE i \in Listed \ gone
    <3>1. PICK j \in 1..Len(segments') : i = segments[j + k]
      BY <1>1 DEF Listed
    <3>2. j + k \in DOMAIN segments /\ \A m \in 1..k : m \in DOMAIN segments /\ m # j + k
      BY <1>1
    <3>3. i \in Listed
      BY <3>1, <3>2, Zenon DEF Listed
    <3>4. \A m \in 1..k : segments[m] # i
      BY <3>1, <3>2, <1>1, Zenon
    <3> QED
      BY <3>3, <3>4
  <2>2. ASSUME NEW i \in Listed \ gone PROVE i \in Listed'
    <3>1. PICK j \in 1..Len(segments) : i = segments[j]
      BY <1>1 DEF Listed
    <3>2. j > k /\ j - k \in 1..Len(segments') /\ (j - k) + k = j
      BY <3>1, <1>1
    <3>3. segments'[j - k] = i
      BY <3>1, <3>2
    <3> QED
      BY <3>2, <3>3, <1>1, Zenon DEF Listed
  <2> QED
    BY <2>1, <2>2
<1>6. DOMAIN files' = DOMAIN files \ gone /\ \A i \in DOMAIN files' : files'[i] = files[i]
  BY DEF Without
<1>7. MemoryMatchesDisk'
  <2> SUFFICES ASSUME NEW i \in Listed'
               PROVE  /\ i \in DOMAIN files' /\ i \in DOMAIN segs'
                      /\ segs'[i] = OpenSegment(files'[i], segs'[i].maxSize)
    BY DEF MemoryMatchesDisk
  <2> QED
    BY <1>2, <1>5, <1>6, Zenon
<1>8. PointersOK'
  <2>1. \A i, j \in DOMAIN segments' : segments'[i] = segments'[j] => i = j
    <3> SUFFICES ASSUME NEW i \in DOMAIN segments', NEW j \in DOMAIN segments',
                        segments'[i] = segments'[j]
                 PROVE  i = j
      OBVIOUS
    <3>1. segments[i + k] = segments[j + k] /\ i + k \in DOMAIN segments /\ j + k \in DOMAIN segments
      BY <1>1
    <3>2. i + k = j + k
      BY <3>1, <1>1
    <3> QED
      BY <3>2, <1>1
  <2>2. head' # Nil /\ segments' # <<>> /\ head' = segments'[1]
    <3>1. 1 \in DOMAIN segments' /\ 1 + k = k + 1 /\ k + 1 \in DOMAIN segments
      BY <1>1
    <3>2. segments[k + 1] \in 1..MaxID
      BY <1>1, <3>1, EntryInSet, Zenon
    <3>3. segments'[1] = segments[1 + k]
      BY <3>1, <1>1
    <3> QED
      BY <3>1, <3>2, <3>3 DEF Nil
  <2>3. DOMAIN files' = Listed'
    BY <1>1, <1>5, <1>6
  <2>4. segs'[tail].open => tail = segments'[Len(segments')]
    <3>1. Len(segments') + k = Len(segments) /\ Len(segments') \in 1..Len(segments')
      BY <1>1
    <3> QED
      BY <3>1, <1>1, <1>4, Zenon
  <2> QED
    BY <2>1, <2>2, <2>3, <2>4, <1>1, <1>4 DEF PointersOK
<1> QED
  BY <1>4, <1>7, <1>8

\* Rewriting the footer behind the block it points at makes that block's hint
\* sent and disturbs no other hint.
LEMMA HintPassed ==
  ASSUME Shape, Hints, NEW id \in DOMAIN files, files[id].pos # files[id].end,
         NEW next, next = files[id].pos + files[id].blocks[files[id].pos].len + LenSize,
         files' = With(files, id, MoveFooter(files[id], next)),
         sent' = sent \cup HintAt(files[id], files[id].pos),
         appended' = appended, now' = now, swallowed' = swallowed, purged' = purged
  PROVE  Hints' /\ sent' \subseteq 1..appended
<1> DEFINE f == files[id]
           g == MoveFooter(f, next)
           h == f.blocks[f.pos].hint
<1>1. appended \in Nat /\ now \in Nat /\ now <= now
  BY DEF Shape
<1>2. Good(f, appended, now)
  BY DEF Hints, FilesGood
<1>3. /\ Good(g, appended, now)
      /\ g.blocks = f.blocks /\ g.pos = next
      /\ f.pos \in DOMAIN f.blocks
      /\ Unread(f) = Unread(g) \cup {h}
      /\ \A o \in DOMAIN f.blocks : o >= next <=> (o >= f.pos /\ o # f.pos)
  BY <1>1, <1>2, AdvanceGood, Zenon
<1>4. sent' = sent \cup {h}
  BY <1>3, HintAtFooter, Zenon
<1>5. /\ DOMAIN files' = DOMAIN files /\ files'[id] = g
      /\ \A i \in DOMAIN files \ {id} : files'[i] = files[i]
  BY DEF With
<1> HIDE DEF g
<1>6. FilesGood'
  BY <1>3, <1>5, Zenon DEF Hints, FilesGood
<1>7. \A i \in DOMAIN files : files'[i].blocks = files[i].blocks
  BY <1>3, <1>5, Zenon
<1>8. HintsStoredOnce'
  <2> SUFFICES ASSUME NEW i \in DOMAIN files', NEW j \in DOMAIN files',
                      NEW o \in DOMAIN files'[i].blocks, NEW p \in DOMAIN files'[j].blocks,
                      files'[i].blocks[o].hint = files'[j].blocks[p].hint
               PROVE  i = j /\ o = p
    BY Zenon DEF HintsStoredOnce
  <2>1. \A k \in DOMAIN files' : \A q \in DOMAIN files'[k].blocks :
          /\ k \in DOMAIN files /\ q \in DOMAIN files[k].blocks
          /\ files'[k].blocks[q] = files[k].blocks[q]
    BY <1>5, <1>7, Zenon
  <2>2. /\ i \in DOMAIN files /\ j \in DOMAIN files
        /\ o \in DOMAIN files[i].blocks /\ p \in DOMAIN files[j].blocks
        /\ files[i].blocks[o].hint = files[j].blocks[p].hint
    BY <2>1, Zenon
  <2>3. HintsStoredOnce
    BY Zenon DEF Hints
  <2> QED
    BY ONLY <2>2, <2>3 DEF HintsStoredOnce
<1>9. h \notin Pending'
  <2>0. ASSUME NEW i \in DOMAIN files, NEW o \in DOMAIN files[i].blocks, files[i].blocks[o].hint = h
        PROVE  i = id /\ o = f.pos
    <3>1. HintsStoredOnce /\ f.pos \in DOMAIN files[id].blocks
      BY <1>3, Zenon DEF Hints
    <3>2. files[i].blocks[o].hint = files[id].blocks[f.pos].hint
      BY <2>0
    <3> HIDE DEF f, h
    <3> QED
      BY ONLY <3>1, <3>2, id \in DOMAIN files, i \in DOMAIN files, o \in DOMAIN files[i].blocks DEF HintsStoredOnce
  <2>1. \A o \in DOMAIN f.blocks : o >= next => f.blocks[o].hint # h
    BY <1>3, <2>0, Zenon
  <2>2. h \notin Unread(g)
    <3> HIDE DEF f, h
    <3> QED
      BY <2>1, <1>3, Zenon DEF Unread
  <2>3. \A i \in DOMAIN files \ {id} : h \notin Unread(files[i])
    <3> HIDE DEF f, h
    <3> QED
      BY <2>0 DEF Unread
  <2>4. \A i \in DOMAIN files' : h \notin Unread(files'[i])
    <3> HIDE DEF f, h
    <3> QED
      BY ONLY <2>2, <2>3, <1>5, Zenon
  <2> HIDE DEF h
  <2> QED
    BY ONLY <2>4, Zenon DEF Pending
<1>10. Pending = Pending' \cup {h}
  <2>1. ASSUME NEW i \in DOMAIN files PROVE Unread(files[i]) \subseteq Pending' \cup {h}
    BY <1>3, <1>5, Zenon DEF Pending
  <2>2. ASSUME NEW i \in DOMAIN files PROVE Unread(files'[i]) \subseteq Pending
    BY <1>3, <1>5, Zenon DEF Pending
  <2>3. h \in Pending
    BY <1>3, Zenon DEF Pending
  <2>4. Pending' \subseteq Pending
    BY <2>2, <1>5 DEF Pending
  <2>5. Pending \subseteq Pending' \cup {h}
    BY <2>1 DEF Pending
  <2> QED
    BY <2>3, <2>4, <2>5, Zenon
<1>11. AcknowledgedKept' /\ NotReadTwice'
  BY <1>4, <1>9, <1>10 DEF Hints, AcknowledgedKept, NotReadTwice
<1>12. h \in 1..appended
  BY <1>2, <1>3 DEF Good, FileOK
<1> QED
  BY <1>4, <1>6, <1>8, <1>11, <1>12 DEF Hints, Shape

\* Advance keeps the invariant: at the end of the head segment, inside it, and
\* when it is read to its end and trimmed.
LEMMA AdvanceIInv == IInv /\ Advance => IInv'
<1> SUFFICES ASSUME IInv, Advance PROVE IInv'
  OBVIOUS
<1> DEFINE f == files[head]
           s == segs[head]
           max == s.maxSize
           next == f.pos + f.blocks[f.pos].len + LenSize
           pos == IF AtEnd(s) THEN s.pos ELSE s.pos + s.currentSize + LenSize
           eof == pos = s.size - FooterSize
           size == IF eof THEN 0 ELSE LenAt(f, pos)
           trim == eof /\ Len(segments) > 1
<1>1. /\ head # Nil
      /\ sent' = IF AtEnd(s) THEN sent ELSE sent \cup HintAt(f, s.pos)
      /\ \/ /\ trim
            /\ files' = Without(files, {head}) /\ segs' = Without(segs, {head})
            /\ segments' = Tail(segments) /\ head' = segments[2]
         \/ /\ ~trim
            /\ files' = IF AtEnd(s) THEN files ELSE With(files, head, MoveFooter(f, pos))
            /\ segs' = With(segs, head, MoveSegment(s, pos, size))
            /\ segments' = segments /\ head' = head
      /\ now' = now /\ tail' = tail /\ maxSegmentSize' = maxSegmentSize /\ appended' = appended
      /\ swallowed' = swallowed /\ purged' = purged
  BY Zenon DEF Advance
<1>2. /\ head \in Listed /\ head \in DOMAIN files /\ head \in DOMAIN segs
      /\ Good(f, appended, now) /\ s = OpenSegment(f, max) /\ max \in Nat
  BY <1>1, OpenHead, Zenon
<1>3. appended \in Nat /\ now \in Nat /\ now <= now
  BY DEF IInv, Shape
<1>4. /\ s.pos = f.pos /\ s.size = f.end + FooterSize
      /\ AtEnd(s) <=> f.pos = f.end
      /\ f.pos # f.end => s.currentSize = f.blocks[f.pos].len
      /\ f.pos = f.end => s.currentSize = 0
      /\ f.end \in Nat /\ s.size - FooterSize = f.end
  <2>1. f.end \in Nat
    BY <1>2, Zenon DEF Good, FileOK
  <2>2. /\ s.pos = f.pos /\ s.size = f.end + FooterSize
        /\ AtEnd(s) <=> f.pos = f.end
        /\ f.pos # f.end => s.currentSize = f.blocks[f.pos].len
        /\ f.pos = f.end => s.currentSize = 0
    <3> HIDE DEF f, s, max
    <3>1. LET u == OpenSegment(f, max)
          IN  /\ u.pos = f.pos /\ u.size = f.end + FooterSize
              /\ AtEnd(u) <=> f.pos = f.end
              /\ f.pos # f.end => u.currentSize = f.blocks[f.pos].len
              /\ f.pos = f.end => u.currentSize = 0
      BY <1>2, <1>3, OpenSegmentOK
    <3> QED
      BY <3>1, <1>2 DEF AtEnd
  <2> HIDE DEF f, s, max
  <2>3. s.size - FooterSize = f.end
    BY <2>1, <2>2 DEF FooterSize
  <2> QED
    BY <2>1, <2>2, <2>3
<1>5. pos = IF f.pos = f.end THEN f.pos ELSE next
  <2> HIDE DEF f, s
  <2> QED
    BY <1>4
<1>6. /\ f.pos # f.end => /\ Good(MoveFooter(f, next), appended, now)
                          /\ MoveFooter(f, next).pos = next /\ MoveFooter(f, next).end = f.end
                          /\ f.pos \in DOMAIN f.blocks
                          /\ Unread(f) = Unread(MoveFooter(f, next)) \cup {f.blocks[f.pos].hint}
                          /\ HintAt(f, f.pos) = {f.blocks[f.pos].hint}
  <2> SUFFICES ASSUME f.pos # f.end
               PROVE  /\ Good(MoveFooter(f, next), appended, now)
                      /\ MoveFooter(f, next).pos = next /\ MoveFooter(f, next).end = f.end
                      /\ f.pos \in DOMAIN f.blocks
                      /\ Unread(f) = Unread(MoveFooter(f, next)) \cup {f.blocks[f.pos].hint}
                      /\ HintAt(f, f.pos) = {f.blocks[f.pos].hint}
    BY Zenon
  <2> HIDE DEF f
  <2>1. LET next1 == f.pos + f.blocks[f.pos].len + LenSize
            g == MoveFooter(f, next1)
        IN  /\ Good(g, appended, now)
            /\ g.blocks = f.blocks /\ g.end = f.end /\ g.pos = next1
            /\ f.pos \in DOMAIN f.blocks
            /\ next1 \in DOMAIN f.blocks \cup {f.end}
            /\ f.pos < next1 /\ next1 <= f.end
            /\ Unread(f) = Unread(g) \cup {f.blocks[f.pos].hint}
            /\ \A o \in DOMAIN f.blocks : o >= next1 <=> (o >= f.pos /\ o # f.pos)
    BY <1>2, <1>3, AdvanceGood, Zenon
  <2>2. HintAt(f, f.pos) = {f.blocks[f.pos].hint}
    BY <2>1, HintAtFooter, Zenon
  <2> QED
    BY <2>1, <2>2, Zenon
<1>7. CASE trim
  <2>1. /\ files' = Without(files, {head}) /\ segs' = Without(segs, {head})
        /\ segments' = Tail(segments) /\ head' = segments[2] /\ Len(segments) > 1
    BY <1>1, <1>7, Zenon
  <2>2. segments \in Seq(1..MaxID) /\ Len(segments) \in Nat /\ segments[1] = head /\ segments # <<>>
    BY <1>1 DEF IInv, PointersOK, Shape
  <2>3. /\ segments' \in Seq(1..MaxID) /\ Len(segments') = Len(segments) - 1
        /\ \A j \in 1..Len(segments') : segments'[j] = segments[j + 1]
    BY <2>1, <2>2
  <2>4. {head} = {segments[j] : j \in 1..1}
    BY <2>2
  <2>5. /\ DOMAIN segs' \subseteq DOMAIN segs
        /\ \A i \in DOMAIN segs \ {head} : i \in DOMAIN segs' /\ segs'[i] = segs[i]
        /\ segs' = [i \in DOMAIN segs' |-> segs'[i]]
        /\ \A i \in DOMAIN segs' : segs'[i] = segs[i]
        /\ DOMAIN files' = DOMAIN files \ {head}
        /\ \A i \in DOMAIN files' : files'[i] = files[i]
        /\ files' = [i \in DOMAIN files' |-> files'[i]]
    BY <2>1 DEF Without
  <2>6. MemoryMatchesDisk' /\ PointersOK'
    <3>1. 1 \in 1..(Len(segments) - 1) /\ head' = segments[1 + 1]
      BY <2>1, <2>2, SMTT(30)
    <3> HIDE DEF trim
    <3> QED
      BY <1>1, <2>1, <2>3, <2>4, <2>5, <3>1, PrefixDropped, Zenon
  <2>7. pos = f.end
    BY <1>4, <1>7
  <2>8. sent' = sent \cup Unread(f)
    <3>1. CASE f.pos = f.end
      BY <3>1, <1>1, <1>2, <1>4, ReadToEnd, Zenon
    <3>2. CASE f.pos # f.end
      <4>1. Unread(MoveFooter(f, next)) = {}
        BY <3>2, <1>5, <1>6, <2>7, ReadToEnd, Zenon
      <4>2. sent' = sent \cup {f.blocks[f.pos].hint}
        BY <3>2, <1>1, <1>4, <1>6, Zenon
      <4> QED
        BY <3>2, <1>6, <4>1, <4>2, Zenon
    <3> QED
      BY <3>1, <3>2
  <2>9. Hints' /\ sent' \subseteq 1..appended
    <3>1. {} \cup Unread(f) = UNION {Unread(files[i]) : i \in {head}} /\ purged' = purged \cup {}
      BY <1>1, Zenon
    <3>2. /\ {head} \in SUBSET DOMAIN files /\ DOMAIN files \ {head} \subseteq DOMAIN files'
          /\ \A i \in DOMAIN files \ {head} : files'[i] = files[i]
          /\ \A i \in DOMAIN files' : i \in DOMAIN files \ {head} \/ files'[i] = NewFile
      BY <1>2, <2>5, Zenon
    <3> QED
      BY <1>1, <2>8, <3>1, <3>2, FilesDropped, Zenon DEF IInv, Hints
  <2>10. Shape'
    <3>1. head' \in 1..MaxID
      <4>1. 2 \in DOMAIN segments
        BY <2>1, <2>2
      <4>2. \A j \in DOMAIN segments : segments[j] \in 1..MaxID
        <5>1. segments \in Seq(1..MaxID)
          BY <2>2
        <5> QED
          BY <5>1, BoundAssumption, EntryInSet
      <4>3. segments[2] \in 1..MaxID
        BY <4>1, <4>2
      <4> QED
        BY <4>3, <2>1
    <3> QED
      BY <1>1, <2>3, <2>5, <2>9, <3>1, SMTT(90) DEF IInv, Shape
  <2> QED
    BY <2>6, <2>9, <2>10, Zenon DEF IInv, Hints
<1>8. ASSUME ~trim PROVE segs'[head] = OpenSegment(files'[head], max)
  <2>1. CASE f.pos = f.end
    <3>1. size = 0 /\ pos = s.pos
      BY <2>1, <1>4, <1>5
    <3>2. MoveSegment(s, s.pos, 0) = s
      <4>1. s.currentSize = 0
        BY <2>1, <1>4, Zenon
      <4>2. s = [pos |-> s.pos, size |-> s.size, currentSize |-> s.currentSize, maxSize |-> s.maxSize, open |-> s.open]
        BY <1>2 DEF OpenSegment
      <4> HIDE DEF s
      <4> QED
        BY <4>1, <4>2 DEF MoveSegment
    <3> QED
      BY <3>1, <3>2, <2>1, <1>1, <1>2, <1>4, <1>8, Zenon DEF With
  <2>2. CASE f.pos # f.end
    <3>1. pos = next
      BY <2>2, <1>5
    <3>2. MoveSegment(s, next, IF next = s.size - FooterSize THEN 0 ELSE LenAt(f, next))
            = OpenSegment(MoveFooter(f, next), max)
      <4> HIDE DEF f, s, max, next
      <4>1. next = f.pos + f.blocks[f.pos].len + LenSize
        BY DEF next
      <4> QED
        BY <2>2, <1>2, <1>3, <4>1, MoveSegmentOK, Zenon
    <3>3. files'[head] = MoveFooter(f, next) /\ segs'[head] = MoveSegment(s, next, size)
      BY <3>1, <2>2, <1>1, <1>4, <1>8, Zenon DEF With
    <3>4. size = IF next = s.size - FooterSize THEN 0 ELSE LenAt(f, next)
      BY <3>1
    <3> QED
      BY <3>2, <3>3, <3>4, Zenon
  <2> QED
    BY <2>1, <2>2, Zenon
<1>9. CASE ~trim
  <2>1. segments' = segments /\ head' = head
    BY <1>1, <1>9
  <2>2. /\ DOMAIN files' = DOMAIN files /\ DOMAIN segs' = DOMAIN segs
        /\ \A i \in DOMAIN files \ {head} : files'[i] = files[i]
        /\ \A i \in DOMAIN segs \ {head} : segs'[i] = segs[i]
        /\ files' = [i \in DOMAIN files' |-> files'[i]]
        /\ segs' = [i \in DOMAIN segs' |-> segs'[i]]
    <3> HIDE DEF f, s, max, pos, size, trim
    <3> QED
      BY <1>1, <1>2, <1>9, Zenon DEF With, IInv, Shape
  <2>3. Hints' /\ sent' \subseteq 1..appended
    <3>1. CASE f.pos = f.end
      <4>1. files' = files /\ sent' = sent
        BY <3>1, <1>1, <1>4, <1>9, Zenon
      <4> QED
        BY <4>1, <1>1, SMTT(90) DEF IInv, Hints, FilesGood, HintsStoredOnce, AcknowledgedKept, NotReadTwice,
           Pending, Unread, Shape
    <3>2. CASE f.pos # f.end
      <4>1. files' = With(files, head, MoveFooter(files[head], next))
        BY <3>2, <1>1, <1>4, <1>5, <1>9, Zenon
      <4>2. sent' = sent \cup HintAt(files[head], files[head].pos)
        BY <3>2, <1>1, <1>4, Zenon
      <4> QED
        BY <3>2, <1>1, <1>2, <4>1, <4>2, HintPassed, Zenon DEF IInv, Hints
    <3> QED
      BY <3>1, <3>2
  <2>4. segs'[head] = OpenSegment(files'[head], max)
    BY <1>8, <1>9, Zenon
  <2>5. SegmentOK(segs'[head]) /\ segs'[head].open /\ segs'[head].maxSize = max
    <3>1. Good(files'[head], appended, now)
      BY <2>2, <2>3, <1>1, <1>2 DEF Hints, FilesGood
    <3> DEFINE u == files'[head]
    <3> HIDE DEF max, u
    <3>2. Good(u, appended, now) /\ max \in Nat
      BY <3>1, <1>2 DEF u
    <3>3. LET t == OpenSegment(u, max) IN SegmentOK(t) /\ t.open /\ t.maxSize = max
      BY <3>2, <1>3, OpenSegmentOK, Zenon
    <3> QED
      BY <2>4, <3>3, Zenon DEF u
  <2> HIDE DEF f, s, max, trim
  <2>6. Shape'
    <3>1. \A i \in DOMAIN segs' : SegmentOK(segs'[i])
      BY <2>2, <2>5 DEF IInv, Shape
    <3> QED
      BY <1>1, <2>1, <2>2, <2>3, <3>1 DEF IInv, Shape
  <2>7. MemoryMatchesDisk'
    <3> SUFFICES ASSUME NEW i \in Listed
                 PROVE  /\ i \in DOMAIN files' /\ i \in DOMAIN segs'
                        /\ segs'[i] = OpenSegment(files'[i], segs'[i].maxSize)
      BY <2>1 DEF MemoryMatchesDisk, Listed
    <3>1. i \in DOMAIN files /\ i \in DOMAIN segs /\ segs[i] = OpenSegment(files[i], segs[i].maxSize)
      BY DEF IInv, MemoryMatchesDisk
    <3> QED
      BY <3>1, <2>2, <2>4, <2>5
  <2>8. PointersOK'
    <3>1. tail \in DOMAIN segs /\ (segs'[tail].open => segs[tail].open)
      <4>1. segs[head].open
        BY <1>2 DEF OpenSegment, s
      <4> QED
        BY <4>1, <1>1, <2>2, Zenon DEF IInv, PointersOK
    <3> QED
      BY <3>1, <1>1, <2>1, <2>2 DEF IInv, PointersOK, Listed
  <2> QED
    BY <2>3, <2>6, <2>7, <2>8, Zenon DEF IInv, Hints
<1> QED
  BY <1>7, <1>9

\* PurgeOlderThan keeps the invariant, also when every segment is old and l.tail
\* is left pointing at a closed one.
LEMMA PurgeOlderThanIInv == IInv /\ PurgeOlderThan => IInv'
<1> SUFFICES ASSUME IInv, PurgeOlderThan PROVE IInv'
  OBVIOUS
<1> USE BoundAssumption
<1> DEFINE gone(k) == {segments[j] : j \in 1..k}
           closed(k) == [i \in DOMAIN segs \ (gone(k) \ {tail}) |->
                           IF i \in gone(k) THEN CloseSegment(segs[i]) ELSE segs[i]]
           unread(k) == UNION {Unread(files[i]) : i \in gone(k)}
<1>1. /\ head # Nil /\ now' = now /\ tail' = tail /\ maxSegmentSize' = maxSegmentSize
      /\ appended' = appended /\ swallowed' = swallowed /\ sent' = sent
  BY Zenon DEF PurgeOlderThan
<1>2. PICK k \in DOMAIN segments :
        /\ purged' = purged \cup unread(k)
        /\ \/ /\ k < Len(segments)
              /\ files' = Without(files, gone(k)) /\ segs' = closed(k)
              /\ segments' = SubSeq(segments, k + 1, Len(segments))
              /\ head' = segments[k + 1]
           \/ /\ k = Len(segments)
              /\ segments[k] + 1 <= MaxID
              /\ files' = With(Without(files, gone(k)), segments[k] + 1, NewFile)
              /\ segs' = With(closed(k), segments[k] + 1, OpenSegment(NewFile, maxSegmentSize))
              /\ segments' = <<segments[k] + 1>>
              /\ head' = segments[k] + 1
  BY Zenon DEF PurgeOlderThan
<1>3. /\ segments \in Seq(1..MaxID) /\ Len(segments) \in Nat /\ DOMAIN segments = 1..Len(segments)
      /\ DOMAIN files = Listed /\ tail \in DOMAIN segs
      /\ segs[tail].open => tail = segments[Len(segments)]
  BY <1>1 DEF IInv, PointersOK, Shape
<1>4. gone(k) \subseteq Listed
  BY <1>3 DEF Listed
<1>5. /\ DOMAIN closed(k) = DOMAIN segs \ (gone(k) \ {tail})
      /\ \A i \in DOMAIN segs \ gone(k) : i \in DOMAIN closed(k) /\ closed(k)[i] = segs[i]
      /\ \A i \in DOMAIN closed(k) : SegmentOK(closed(k)[i])
      /\ \A i \in DOMAIN closed(k) \cap gone(k) : closed(k)[i].open = FALSE
      /\ closed(k) = [i \in DOMAIN closed(k) |-> closed(k)[i]]
      /\ tail \in DOMAIN closed(k)
  <2>1. \A i \in DOMAIN segs : SegmentOK(CloseSegment(segs[i])) /\ CloseSegment(segs[i]).open = FALSE
    BY Zenon DEF IInv, Shape, SegmentOK, CloseSegment
  <2>2. \A i \in DOMAIN segs : SegmentOK(segs[i])
    BY DEF IInv, Shape
  <2> HIDE DEF gone
  <2> QED
    BY <2>1, <2>2, <1>3, Zenon
<1>6. ASSUME DOMAIN files \ gone(k) \subseteq DOMAIN files',
             \A i \in DOMAIN files \ gone(k) : files'[i] = files[i],
             \A i \in DOMAIN files' : i \in DOMAIN files \ gone(k) \/ files'[i] = NewFile
      PROVE  Hints' /\ purged' \subseteq 1..appended
  <2>1. unread(k) \cup {} = UNION {Unread(files[i]) : i \in gone(k)} /\ sent' = sent \cup {}
    BY <1>1
  <2>2. gone(k) \in SUBSET DOMAIN files
    BY <1>3, <1>4, Zenon
  <2>3. purged' = purged \cup unread(k)
    BY <1>2
  <2> HIDE DEF gone, unread
  <2> QED
    BY <1>1, <1>6, <2>1, <2>2, <2>3, FilesDropped, Zenon DEF IInv, Hints
<1> HIDE DEF closed
<1>7. CASE /\ k < Len(segments)
           /\ files' = Without(files, gone(k)) /\ segs' = closed(k)
           /\ segments' = SubSeq(segments, k + 1, Len(segments))
           /\ head' = segments[k + 1]
  <2>1. /\ segments' \in Seq(1..MaxID) /\ Len(segments') = Len(segments) - k
        /\ \A j \in 1..Len(segments') : segments'[j] = segments[j + k]
    BY <1>3, <1>7, SuffixOfSeq, ZenonT(90)
  <2>2. k \in 1..(Len(segments) - 1) /\ k + 1 \in DOMAIN segments
    BY <1>3, <1>7
  <2>3. MemoryMatchesDisk' /\ PointersOK'
    <3>1. gone(k) = {segments[j] : j \in 1..k}
      OBVIOUS
    <3> HIDE DEF gone
    <3> QED
      BY <1>1, <1>5, <1>7, <2>1, <2>2, <3>1, PrefixDropped, Zenon
  <2> HIDE DEF gone
  <2>4. /\ DOMAIN files' = DOMAIN files \ gone(k) /\ files' = [i \in DOMAIN files' |-> files'[i]]
        /\ \A i \in DOMAIN files' : files'[i] = files[i]
    BY <1>7 DEF Without
  <2>5. Hints' /\ purged' \subseteq 1..appended
    BY <2>4, <1>6
  <2>6. head' \in 1..MaxID
    BY <1>3, <1>7, <2>2, EntryInSet
  <2>7. Shape'
    <3>1. DOMAIN segs' \subseteq 1..MaxID /\ DOMAIN files' \subseteq 1..MaxID
      BY <1>5, <1>7, <2>4, Zenon DEF IInv, Shape
    <3>2. segs' = [i \in DOMAIN segs' |-> segs'[i]] /\ \A i \in DOMAIN segs' : SegmentOK(segs'[i])
      BY <1>5, <1>7
    <3>3. head' \in 0..MaxID
      BY <2>6, BoundAssumption
    <3>4. /\ tail' \in 0..MaxID /\ maxSegmentSize' \in Nat /\ now' \in 0..MaxTime /\ appended' \in 0..MaxHints
          /\ swallowed' \subseteq 1..appended' /\ sent' \subseteq 1..appended' /\ purged' \subseteq 1..appended'
      BY <1>1, <2>5, Zenon DEF IInv, Shape
    <3> QED
      BY ONLY <2>1, <2>4, <3>1, <3>2, <3>3, <3>4, Zenon DEF Shape
  <2> QED
    BY <2>3, <2>5, <2>7 DEF IInv, Hints
<1>8. CASE /\ k = Len(segments)
           /\ segments[k] + 1 <= MaxID
           /\ files' = With(Without(files, gone(k)), segments[k] + 1, NewFile)
           /\ segs' = With(closed(k), segments[k] + 1, OpenSegment(NewFile, maxSegmentSize))
           /\ segments' = <<segments[k] + 1>>
           /\ head' = segments[k] + 1
  <2> DEFINE id == segments[k] + 1
             new == OpenSegment(NewFile, maxSegmentSize)
  <2>1. segments[k] \in 1..MaxID
    BY <1>3, EntryInSet
  <2>2. id \in 1..MaxID
    BY <2>1, <1>8
  <2>3. gone(k) = DOMAIN files
    BY <1>3, <1>8 DEF Listed
  <2> HIDE DEF gone
  <2>4. /\ DOMAIN files' = {id} /\ files'[id] = NewFile /\ files' = [i \in DOMAIN files' |-> files'[i]]
    BY <1>8, <2>3 DEF Without, With
  <2>5. /\ DOMAIN segs' = DOMAIN closed(k) \cup {id} /\ segs'[id] = new
        /\ \A i \in DOMAIN closed(k) \ {id} : segs'[i] = closed(k)[i]
        /\ segs' = [i \in DOMAIN segs' |-> segs'[i]]
    BY <1>8, Zenon DEF With
  <2>6. SegmentOK(new) /\ new.maxSize = maxSegmentSize
    <3>1. appended \in Nat /\ now \in Nat /\ maxSegmentSize \in Nat
      BY DEF IInv, Shape
    <3> QED
      BY <3>1, NewFileGood, OpenSegmentOK
  <2>7. Hints' /\ purged' \subseteq 1..appended
    BY <2>3, <2>4, <1>6
  <2>8. /\ segments' \in Seq(1..MaxID) /\ segments'[1] = id /\ Len(segments') = 1
        /\ DOMAIN segments' = {1} /\ segments' # <<>>
    BY <1>8, <2>2
  <2> HIDE DEF id, new
  <2>9. Shape'
    <3>1. \A i \in DOMAIN segs' : SegmentOK(segs'[i])
      BY <1>5, <2>5, <2>6
    <3>2. head' = id
      BY <1>8 DEF id
    <3>3. DOMAIN closed(k) \subseteq 1..MaxID
      BY <1>5 DEF IInv, Shape
    <3>4. head' \in 0..MaxID /\ DOMAIN files' \subseteq 1..MaxID /\ DOMAIN segs' \subseteq 1..MaxID
      BY <2>2, <2>4, <2>5, <3>2, <3>3, BoundAssumption
    <3>5. /\ tail' \in 0..MaxID /\ maxSegmentSize' \in Nat /\ now' \in 0..MaxTime /\ appended' \in 0..MaxHints
          /\ swallowed' \subseteq 1..appended' /\ sent' \subseteq 1..appended' /\ purged' \subseteq 1..appended'
      BY <1>1, <2>7, Zenon DEF IInv, Shape
    <3> QED
      BY ONLY <2>4, <2>5, <2>8, <3>1, <3>4, <3>5, Zenon DEF Shape
  <2>10. Listed' = {id}
    BY <2>8 DEF Listed
  <2>11. MemoryMatchesDisk'
    BY <2>4, <2>5, <2>6, <2>10, Zenon DEF MemoryMatchesDisk, new
  <2>12. PointersOK'
    <3>1. segs'[tail].open => tail = id
      <4> SUFFICES ASSUME tail # id, segs'[tail].open PROVE FALSE
        OBVIOUS
      <4>1. segs'[tail] = closed(k)[tail]
        BY <1>5, <2>5
      <4>2. CASE tail \in gone(k)
        BY <4>1, <4>2, <1>5, Zenon
      <4>3. CASE tail \notin gone(k)
        <5>1. segs'[tail] = segs[tail]
          BY <4>1, <4>3, <1>3, <1>5
        <5>2. tail = segments[Len(segments)]
          BY <5>1, <1>3
        <5> QED
          BY <5>2, <4>3, <1>8 DEF gone
      <4> QED
        BY <4>2, <4>3
    <3>2. head' = id /\ head' # Nil
      BY <1>8, <2>2 DEF id, Nil
    <3> QED
      BY <1>1, <1>5, <2>4, <2>5, <2>8, <2>10, <3>1, <3>2 DEF PointersOK
  <2> QED
    BY <2>7, <2>9, <2>11, <2>12 DEF IInv, Hints
<1> QED
  BY <1>2, <1>7, <1>8, Zenon

-----------------------------------------------------------------------------
(* Open, and the theorems *)

\* A function on 1..n is a list of length n.
LEMMA FunctionIsSeq ==
  ASSUME NEW S, NEW T, S \subseteq T, NEW n \in Nat, NEW s \in [1..n -> S]
  PROVE  s \in Seq(T) /\ Len(s) = n /\ DOMAIN s = 1..n
<1>1. s \in [1..n -> T] /\ DOMAIN s = 1..n
  OBVIOUS
<1>2. s \in Seq(T)
  BY <1>1
<1> QED
  BY <1>1, <1>2

\* Open keeps the invariant: the segments found in the directory are listed once
\* each, and only a fully read one is trimmed.
LEMMA OpenIInv == IInv /\ Open => IInv'
<1> SUFFICES ASSUME IInv, Open PROVE IInv'
  OBVIOUS
<1> USE BoundAssumption
<1> DEFINE loaded == IF DOMAIN files = {} THEN [i \in {1} |-> NewFile] ELSE files
           ids == DOMAIN loaded
           mem == [i \in ids |-> OpenSegment(loaded[i], maxSegmentSize)]
           trim(order) == AtEnd(mem[order[1]]) /\ Len(order) > 1
           gone(order) == IF trim(order) THEN {order[1]} ELSE {}
<1>1. /\ head = Nil /\ now' = now /\ maxSegmentSize' = maxSegmentSize /\ appended' = appended
      /\ swallowed' = swallowed /\ sent' = sent /\ purged' = purged
  BY DEF Open, history
<1>2. PICK order \in LoadOrders(ids) :
        /\ files' = Without(loaded, gone(order)) /\ segs' = Without(mem, gone(order))
        /\ segments' = IF trim(order) THEN Tail(order) ELSE order
        /\ head' = IF trim(order) THEN order[2] ELSE order[1]
        /\ tail' = order[Len(order)]
  BY Zenon DEF Open
<1>3. appended \in Nat /\ now \in Nat /\ maxSegmentSize \in Nat
  BY DEF IInv, Shape
<1>4. /\ ids \subseteq 1..MaxID /\ ids # {}
      /\ \A i \in ids : Good(loaded[i], appended, now)
      /\ \A i \in DOMAIN files : i \in ids /\ loaded[i] = files[i]
      /\ \A i \in ids : i \in DOMAIN files \/ loaded[i] = NewFile
  <2>1. Good(NewFile, appended, now)
    BY <1>3, NewFileGood
  <2>2. CASE DOMAIN files = {}
    <3>1. loaded = [i \in {1} |-> NewFile] /\ ids = {1} /\ loaded[1] = NewFile
      BY <2>2
    <3> QED
      BY <2>1, <2>2, <3>1
  <2>3. CASE DOMAIN files # {}
    <3>1. loaded = files
      BY <2>3
    <3> QED
      BY <2>3, <3>1, Zenon DEF IInv, FilesGood, Shape
  <2> QED
    BY <2>2, <2>3, Zenon
<1> HIDE DEF loaded
<1>5. \A i \in ids : /\ mem[i] = OpenSegment(loaded[i], maxSegmentSize)
                     /\ SegmentOK(mem[i]) /\ mem[i].open /\ mem[i].maxSize = maxSegmentSize
                     /\ AtEnd(mem[i]) => Unread(loaded[i]) = {}
  <2> SUFFICES ASSUME NEW i \in ids
               PROVE  LET s == OpenSegment(loaded[i], maxSegmentSize)
                      IN  /\ SegmentOK(s) /\ s.open /\ s.maxSize = maxSegmentSize
                          /\ AtEnd(s) => Unread(loaded[i]) = {}
    BY Zenon
  <2> DEFINE f == loaded[i]
  <2>1. Good(f, appended, now)
    BY <1>4
  <2> HIDE DEF f
  <2>2. LET s == OpenSegment(f, maxSegmentSize)
        IN  /\ SegmentOK(s) /\ s.open /\ s.maxSize = maxSegmentSize
            /\ AtEnd(s) <=> f.pos = f.end
    BY <1>3, <2>1, OpenSegmentOK, Zenon
  <2>3. f.pos = f.end => Unread(f) = {}
    BY <2>1, ReadToEnd
  <2> QED
    BY <2>2, <2>3 DEF f
<1>6. /\ order \in Seq(1..MaxID) /\ Len(order) \in Nat /\ DOMAIN order = 1..Len(order)
      /\ {order[k] : k \in DOMAIN order} = ids
      /\ \A j, k \in DOMAIN order : order[j] = order[k] => j = k
      /\ Len(order) >= 1
  <2> HIDE DEF mem
  <2>1. /\ order \in UNION {[1..n -> ids] : n \in (1..MaxID) \cap {Cardinality(ids)}}
        /\ IsLoadOrder(ids, order)
    BY <1>2 DEF LoadOrders
  <2>2. PICK n \in 1..MaxID : order \in [1..n -> ids]
    BY <2>1
  <2>3. n \in Nat
    BY <2>2
  <2>4. /\ \A i \in ids : \E k \in DOMAIN order : order[k] = i
        /\ \A j, k \in DOMAIN order : j < k => order[j] # order[k]
    BY <2>1 DEF IsLoadOrder
  <2> HIDE DEF ids
  <2>5. order \in Seq(1..MaxID) /\ Len(order) = n /\ DOMAIN order = 1..Len(order)
    BY <2>2, <2>3, <1>4, FunctionIsSeq, ZenonT(30)
  <2>6. \A k \in DOMAIN order : order[k] \in ids
    BY <2>2
  <2>7. \A j, k \in DOMAIN order : order[j] = order[k] => j = k
    BY <2>3, <2>4, <2>5
  <2>8. {order[k] : k \in DOMAIN order} = ids
    BY <2>4, <2>6
  <2> QED
    BY <1>4, <2>3, <2>4, <2>5, <2>7, <2>8, SMTT(30)
<1> DEFINE out == gone(order)
<1>7. /\ DOMAIN files' = ids \ out /\ DOMAIN segs' = ids \ out
      /\ \A i \in ids \ out : files'[i] = loaded[i] /\ segs'[i] = mem[i]
      /\ files' = [i \in DOMAIN files' |-> files'[i]]
      /\ segs' = [i \in DOMAIN segs' |-> segs'[i]]
  <2>1. files' = Without(loaded, out) /\ segs' = Without(mem, out)
    BY <1>2, Zenon
  <2> HIDE DEF out
  <2> QED
    BY <2>1 DEF Without
<1>8. /\ segments' \in Seq(1..MaxID) /\ segments' # <<>>
      /\ Listed' = ids \ out
      /\ \A j, k \in DOMAIN segments' : segments'[j] = segments'[k] => j = k
      /\ head' = segments'[1] /\ tail' = segments'[Len(segments')]
      /\ head' \in 1..MaxID /\ tail' \in ids \ out
  <2>1. CASE ~trim(order)
    <3>1. segments' = order /\ head' = order[1] /\ tail' = order[Len(order)] /\ out = {}
      BY <1>2, <2>1
    <3>2. 1 \in DOMAIN order /\ Len(order) \in DOMAIN order /\ order # <<>>
      BY <1>6
    <3> HIDE DEF mem, ids, out
    <3>3. head' \in 1..MaxID /\ tail' \in ids
      BY <3>1, <3>2, <1>6, EntryInSet
    <3> QED
      BY <3>1, <3>2, <3>3, <1>6, SMTT(30) DEF Listed
  <2>2. CASE trim(order)
    <3>1. /\ segments' = Tail(order) /\ head' = order[2] /\ tail' = order[Len(order)]
          /\ out = {order[1]} /\ Len(order) > 1
      BY <1>2, <2>2, Zenon
    <3> HIDE DEF mem, ids, out, trim
    <3>2. 2 \in DOMAIN order /\ Len(order) \in DOMAIN order /\ Len(order) # 1 /\ 1 \in DOMAIN order
      BY <1>6, <3>1
    <3>3. /\ segments' \in Seq(1..MaxID) /\ Len(segments') = Len(order) - 1
          /\ \A j \in 1..Len(segments') : segments'[j] = order[j + 1]
          /\ DOMAIN segments' = 1..Len(segments') /\ segments' # <<>>
      BY <3>1, <1>6, SMTT(30)
    <3>4. Listed' = ids \ out
      <4>1. ASSUME NEW i \in Listed' PROVE i \in ids \ out
        <5>1. PICK j \in 1..Len(segments') : i = order[j + 1]
          BY <3>3 DEF Listed
        <5>2. j + 1 \in DOMAIN order /\ j + 1 # 1
          BY <3>3, <1>6, SMTT(90)
        <5> QED
          BY <5>1, <5>2, <3>1, <3>2, <1>6, Zenon
      <4>2. ASSUME NEW i \in ids \ out PROVE i \in Listed'
        <5>1. PICK j \in DOMAIN order : i = order[j]
          BY <1>6
        <5>2. j # 1
          BY <5>1, <3>1
        <5>3. j - 1 \in 1..Len(segments') /\ (j - 1) + 1 = j
          <6>1. /\ j \in 1..Len(order) /\ Len(order) \in Nat
                /\ Len(segments') = Len(order) - 1
            BY <3>3, <1>6
          <6> QED
            BY <5>2, <6>1
        <5>4. segments'[j - 1] = i
          BY <5>1, <5>3, <3>3
        <5> QED
          BY <5>3, <5>4, <3>3 DEF Listed
      <4> QED
        BY <4>1, <4>2
    <3>5. ASSUME NEW j \in DOMAIN segments', NEW k \in DOMAIN segments', segments'[j] = segments'[k]
          PROVE  j = k
      <4>1. order[j + 1] = order[k + 1]
        BY <3>3, <3>5, Zenon
      <4>2. j + 1 \in DOMAIN order /\ k + 1 \in DOMAIN order
        <5>1. /\ j \in 1..(Len(order) - 1) /\ k \in 1..(Len(order) - 1)
              /\ Len(order) \in Nat /\ DOMAIN order = 1..Len(order)
          BY <3>3, <1>6
        <5> QED
          BY <5>1
      <4>3. j + 1 = k + 1
        BY <4>1, <4>2, <1>6
      <4> QED
        BY <4>3, <3>3
    <3>6. head' = segments'[1] /\ tail' = segments'[Len(segments')]
      <4>1. 1 \in 1..Len(segments') /\ 1 + 1 = 2
            /\ Len(segments') \in 1..Len(segments') /\ Len(segments') + 1 = Len(order)
        BY <3>1, <3>3, <1>6
      <4> QED
        BY <4>1, <3>1, <3>3
    <3>7. head' \in 1..MaxID /\ tail' \in ids /\ tail' \notin out
      BY <3>1, <3>2, <1>6, EntryInSet, Zenon
    <3> QED
      BY <3>3, <3>4, <3>5, <3>6, <3>7
  <2> QED
    BY <2>1, <2>2, Zenon
<1>9. Hints'
  <2> DEFINE dropped == out \cap DOMAIN files
  <2>1. UNION {Unread(files[i]) : i \in dropped} = {}
    <3> SUFFICES ASSUME NEW i \in dropped PROVE Unread(files[i]) = {}
      BY Zenon
    <3>1. i = order[1] /\ AtEnd(mem[i]) /\ i \in DOMAIN files
      OBVIOUS
    <3> HIDE DEF mem
    <3> QED
      BY <3>1, <1>4, <1>5, Zenon
  <2> HIDE DEF out, mem
  <2>2. /\ DOMAIN files \ dropped \subseteq DOMAIN files'
        /\ \A i \in DOMAIN files \ dropped : files'[i] = files[i]
        /\ \A i \in DOMAIN files' : i \in DOMAIN files \ dropped \/ files'[i] = NewFile
        /\ dropped \in SUBSET DOMAIN files
    BY <1>4, <1>7
  <2>3. purged' = purged \cup {} /\ sent' = sent \cup {} /\ {} \cup {} = {}
    BY <1>1, Zenon
  <2> HIDE DEF dropped
  <2> QED
    BY <1>1, <2>1, <2>2, <2>3, FilesDropped, Zenon DEF IInv, Hints
<1> HIDE DEF out, mem, ids
<1>10. Shape'
  <2>1. \A i \in DOMAIN segs' : SegmentOK(segs'[i])
    BY <1>5, <1>7
  <2>2. DOMAIN segs' \subseteq 1..MaxID /\ DOMAIN files' \subseteq 1..MaxID /\ tail' \in 1..MaxID
    BY <1>4, <1>7, <1>8
  <2> QED
    <3>1. head' \in 0..MaxID /\ tail' \in 0..MaxID /\ segments' \in Seq(1..MaxID)
      BY <1>8, <2>2
    <3> QED
      BY <1>1, <1>7, <2>1, <2>2, <3>1, Zenon DEF IInv, Shape
<1>11. MemoryMatchesDisk'
  BY <1>5, <1>7, <1>8 DEF MemoryMatchesDisk
<1>12. PointersOK'
  BY <1>7, <1>8 DEF PointersOK, Nil
<1> QED
  BY <1>9, <1>10, <1>11, <1>12, Zenon DEF IInv, Hints

-----------------------------------------------------------------------------
(* The theorems *)

\* Every step of the queue keeps the inductive invariant.
LEMMA NextIInv == IInv /\ [Next]_vars => IInv'
<1> SUFFICES ASSUME IInv, [Next]_vars PROVE IInv'
  OBVIOUS
<1>1. CASE Open
  BY <1>1, OpenIInv
<1>2. CASE Close \/ Restart
  BY <1>2, CloseIInv
<1>3. CASE Remove
  BY <1>3, RemoveIInv
<1>4. CASE \E size \in SegmentSizes : SetMaxSegmentSize(size)
  BY <1>4, SizeAssumption, SetMaxSegmentSizeIInv
<1>5. ASSUME NEW len \in Lens, AppendHint(len) PROVE IInv'
  <2>1. AppendFrame /\ len \in Nat \ {0} /\ (AppendToTail(len) \/ AppendToNew(len) \/ AppendSwallowed(len))
    BY <1>5, LensAssumption DEF AppendHint, AppendFrame
  <2> QED
    BY <2>1, AppendToTailIInv, AppendToNewIInv, AppendSwallowedIInv
<1>6. CASE Advance
  BY <1>6, AdvanceIInv
<1>7. CASE PurgeOlderThan
  BY <1>7, PurgeOlderThanIInv
<1>8. CASE Tick
  BY <1>8, TickIInv
<1>9. CASE UNCHANGED vars
  <2>1. /\ files' = files /\ segs' = segs /\ segments' = segments /\ head' = head /\ tail' = tail
        /\ maxSegmentSize' = maxSegmentSize /\ appended' = appended /\ swallowed' = swallowed
        /\ sent' = sent /\ purged' = purged /\ now' = now
    BY <1>9 DEF vars, disk, memory, history
  <2>2. Shape' /\ FilesGood'
    BY <2>1 DEF IInv, Shape, FilesGood
  <2>3. MemoryMatchesDisk' /\ PointersOK'
    <3>1. Listed' = Listed
      BY <2>1 DEF Listed
    <3>2. PointersOK'
      BY <2>1, <3>1 DEF IInv, PointersOK
    <3>3. MemoryMatchesDisk'
      BY <2>1, <3>1 DEF IInv, MemoryMatchesDisk
    <3> QED
      BY <3>2, <3>3
  <2>4. HintsStoredOnce'
    BY <2>1 DEF IInv, HintsStoredOnce
  <2>5. Pending' = Pending
    BY <2>1 DEF Pending, Unread
  <2>6. AcknowledgedKept' /\ NotReadTwice'
    BY <2>1, <2>5 DEF IInv, AcknowledgedKept, NotReadTwice
  <2> QED
    BY <2>2, <2>3, <2>4, <2>6 DEF IInv
<1> QED
  BY <1>1, <1>2, <1>3, <1>4, <1>5, <1>6, <1>7, <1>8, <1>9 DEF Next

\* The inductive invariant holds in every reachable state.
LEMMA Invariance == Spec => []IInv
BY InitIInv, NextIInv, PTL DEF Spec

\* The queue's files, structs, pointers and counters keep their types.
THEOREM TypeCorrect == Spec => []TypeOK
BY Invariance, IInvImplies, PTL

\* No sequence of appends, advances, trims, purges, resizes and restarts moves a
\* footer or a cached block size off a block boundary.
THEOREM FootersStayOnBlocks == Spec => []FootersOnBlocks
BY Invariance, IInvImplies, PTL

\* Losing the queue's memory loses nothing: what a segment struct caches is what
\* segment.open reads back from its file.
THEOREM MemoryIsOnDisk == Spec => []MemoryMatchesDisk
<1>1. IInv => MemoryMatchesDisk
  BY DEF IInv
<1> QED
  BY <1>1, Invariance, PTL

\* An acknowledged hint stays pending until it is sent or purged, unless Append
\* dropped the error of its write.
THEOREM AcknowledgedHintsKept == Spec => []AcknowledgedKept
<1>1. IInv => AcknowledgedKept
  BY DEF IInv
<1> QED
  BY <1>1, Invariance, PTL

\* A hint that was advanced past or purged never becomes readable again.
THEOREM HintsNotReadTwice == Spec => []NotReadTwice
<1>1. IInv => NotReadTwice
  BY DEF IInv
<1> QED
  BY <1>1, Invariance, PTL
=============================================================================
