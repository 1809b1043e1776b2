------------------------- MODULE HHQueueRefinement -------------------------
(***************************************************************************)
(* The hinted-handoff queue implements HintFIFO.  Files are listed by      *)
(* name, so hints are read in the order of their acknowledgement only      *)
(* while the order of names is that of ids: NamesInOrder, which holds up   *)
(* to nine segments.  The inductive invariant of HHQueueProofs is          *)
(* strengthened by InOrder: a block is older the lower its file's id and   *)
(* its offset, the listed segments ascend, and no block holds a hint whose *)
(* write failed.                                                           *)
(***************************************************************************)
EXTENDS HHQueueProofs

HintsOrdered ==
  \A i, j \in DOMAIN files :
    \A o \in DOMAIN files[i].blocks, p \in DOMAIN files[j].blocks :
      i < j \/ (i = j /\ o < p) => files[i].blocks[o].hint < files[j].blocks[p].hint

SwallowedUnwritten ==
  \A i \in DOMAIN files : \A o \in DOMAIN files[i].blocks : files[i].blocks[o].hint \notin swallowed

AscendingSeq(s) == \A j, k \in 1..Len(s) : j < k => s[j] < s[k]
Ascending == AscendingSeq(segments)

InOrder == HintsOrdered /\ SwallowedUnwritten /\ Ascending

-----------------------------------------------------------------------------
(* That the hints stay in order *)

\* A step after which every block of a file is one that was there before.
BlocksKept ==
  \A i \in DOMAIN files' : \A o \in DOMAIN files'[i].blocks :
    /\ i \in DOMAIN files /\ o \in DOMAIN files[i].blocks
    /\ files'[i].blocks[o].hint = files[i].blocks[o].hint

\* Without a new block hints stay in order.
LEMMA OrderKept ==
  ASSUME HintsOrdered, BlocksKept PROVE HintsOrdered'
BY DEF HintsOrdered, BlocksKept

\* Without a new block no hint whose write failed gets written.
LEMMA UnwrittenKept ==
  ASSUME IInv, SwallowedUnwritten, BlocksKept,
         swallowed' \subseteq swallowed \cup {appended + 1}
  PROVE  SwallowedUnwritten'
<1> SUFFICES ASSUME NEW i \in DOMAIN files', NEW o \in DOMAIN files'[i].blocks
             PROVE  files'[i].blocks[o].hint \notin swallowed'
  BY DEF SwallowedUnwritten
<1>1. /\ i \in DOMAIN files /\ o \in DOMAIN files[i].blocks
      /\ files'[i].blocks[o].hint = files[i].blocks[o].hint
  BY DEF BlocksKept
<1>2. Good(files[i], appended, now)
  BY <1>1 DEF IInv, FilesGood
<1>3. files[i].blocks[o].hint \in 1..appended
  BY <1>1, <1>2 DEF Good, FileOK
<1>4. files[i].blocks[o].hint # appended + 1
  BY <1>3 DEF IInv, Shape
<1> QED
  BY <1>1, <1>4 DEF SwallowedUnwritten

\* A hint written behind the last block of the file with the largest id is behind all others.
LEMMA OrderExtended ==
  ASSUME IInv, HintsOrdered, SwallowedUnwritten, NEW len \in Nat \ {0}, NEW id \in 1..MaxID, NEW f,
         id \in DOMAIN files => f = files[id], id \notin DOMAIN files => f = NewFile,
         \A i \in DOMAIN files : i <= id,
         files' = With(files, id, AppendBlock(f, f.pos, len, appended + 1)),
         swallowed' = swallowed
  PROVE  HintsOrdered' /\ SwallowedUnwritten'
<1> DEFINE g == AppendBlock(f, f.pos, len, appended + 1)
<1>1. appended \in Nat /\ now \in Nat /\ DOMAIN files \subseteq 1..MaxID /\ swallowed \subseteq 1..appended
  BY DEF IInv, Shape
<1>2. Good(f, appended, now)
  BY <1>1, NewFileGood DEF IInv, FilesGood
<1>3. \A o \in DOMAIN f.blocks : o \in Nat /\ o < f.end /\ f.end \in Nat
  BY <1>2 DEF Good, FileOK, Tiled, LenSize
<1>4. /\ DOMAIN files' = DOMAIN files \cup {id} /\ files'[id] = g
      /\ \A i \in DOMAIN files \ {id} : files'[i] = files[i]
  BY DEF With
<1>5. /\ DOMAIN g.blocks = DOMAIN f.blocks \cup {f.end}
      /\ g.blocks[f.end].hint = appended + 1
      /\ \A o \in DOMAIN f.blocks : o # f.end /\ g.blocks[o] = f.blocks[o]
  BY <1>3 DEF AppendBlock
<1>6. id \notin DOMAIN files => DOMAIN f.blocks = {}
  BY <1>1, NewFileGood
<1>7. \A i \in DOMAIN files : \A o \in DOMAIN files[i].blocks : files[i].blocks[o].hint \in 1..appended
  BY DEF IInv, FilesGood, Good, FileOK
<1> HIDE DEF g
\* a block is the new one or was there before
<1>8. ASSUME NEW i \in DOMAIN files', NEW o \in DOMAIN files'[i].blocks
      PROVE  \/ i = id /\ o = f.end /\ files'[i].blocks[o].hint = appended + 1
             \/ /\ i \in DOMAIN files /\ o \in DOMAIN files[i].blocks
                /\ files'[i].blocks[o].hint = files[i].blocks[o].hint
                /\ files[i].blocks[o].hint \in 1..appended
                /\ i = id => o < f.end /\ o \in Nat
  <2>1. CASE i = id
    BY <2>1, <1>3, <1>4, <1>5, <1>6, <1>7
  <2>2. CASE i # id
    BY <2>2, <1>4, <1>7
  <2> QED
    BY <2>1, <2>2
<1>9. HintsOrdered'
  <2> SUFFICES ASSUME NEW i \in DOMAIN files', NEW j \in DOMAIN files',
                      NEW o \in DOMAIN files'[i].blocks, NEW p \in DOMAIN files'[j].blocks,
                      i < j \/ (i = j /\ o < p)
               PROVE  files'[i].blocks[o].hint < files'[j].blocks[p].hint
    BY DEF HintsOrdered
  <2> DEFINE h == files'[i].blocks[o].hint
             k == files'[j].blocks[p].hint
  <2>1. \/ i = id /\ o = f.end /\ h = appended + 1
        \/ /\ i \in DOMAIN files /\ o \in DOMAIN files[i].blocks
           /\ h = files[i].blocks[o].hint /\ h \in 1..appended
           /\ i = id => o < f.end /\ o \in Nat
    BY <1>8
  <2>2. \/ j = id /\ p = f.end /\ k = appended + 1
        \/ /\ j \in DOMAIN files /\ p \in DOMAIN files[j].blocks
           /\ k = files[j].blocks[p].hint /\ k \in 1..appended
           /\ j = id => p < f.end /\ p \in Nat
    BY <1>8
  <2>3. i \in 1..MaxID /\ j \in 1..MaxID /\ i <= id /\ j <= id
    BY <1>1, <1>4
  <2>4. f.end \in Nat
    BY <1>2 DEF Good, FileOK
  <2> SUFFICES h < k
    OBVIOUS
  <2> HIDE DEF h, k
  <2>5. CASE i = id /\ o = f.end /\ h = appended + 1
    BY <2>2, <2>3, <2>4, <2>5
  <2>6. CASE h \in 1..appended /\ k = appended + 1
    BY <2>6, <1>1
  <2>7. CASE /\ i \in DOMAIN files /\ o \in DOMAIN files[i].blocks /\ h = files[i].blocks[o].hint
             /\ j \in DOMAIN files /\ p \in DOMAIN files[j].blocks /\ k = files[j].blocks[p].hint
    BY <2>7 DEF HintsOrdered
  <2> QED
    BY <2>1, <2>2, <2>5, <2>6, <2>7
<1>10. SwallowedUnwritten'
  <2> SUFFICES ASSUME NEW i \in DOMAIN files', NEW o \in DOMAIN files'[i].blocks
               PROVE  files'[i].blocks[o].hint \notin swallowed
    BY DEF SwallowedUnwritten
  <2>1. appended + 1 \notin swallowed
    BY <1>1
  <2> QED
    BY <1>8, <2>1 DEF SwallowedUnwritten
<1> QED
  BY <1>9, <1>10

\* What is left of an ascending list when its first k entries are cut off ascends.
LEMMA AscendingSuffix ==
  ASSUME NEW s, NEW t, AscendingSeq(s), Len(s) \in Nat, NEW k \in Nat, k <= Len(s),
         Len(t) = Len(s) - k, \A j \in 1..Len(t) : t[j] = s[j + k]
  PROVE  AscendingSeq(t)
<1> SUFFICES ASSUME NEW i \in 1..Len(t), NEW j \in 1..Len(t), i < j
             PROVE  t[i] < t[j]
  BY DEF AscendingSeq
<1>1. i + k \in 1..Len(s) /\ j + k \in 1..Len(s) /\ i + k < j + k
  OBVIOUS
<1>2. s[i + k] < s[j + k]
  BY <1>1 DEF AscendingSeq
<1> QED
  BY <1>2

\* addSegment adds an id that is larger than the listed ones.
LEMMA AscendingAppend ==
  ASSUME IInv, Ascending, head # Nil, NEW id \in 1..MaxID, IsNextSegmentID(id, DOMAIN files),
         segments' = Append(segments, id)
  PROVE  Ascending'
<1>1. segments \in Seq(1..MaxID) /\ DOMAIN files = Listed
  BY DEF IInv, Shape, PointersOK
<1>2. \A k \in 1..Len(segments) : segments[k] < id
  BY <1>1 DEF Listed, IsNextSegmentID
<1> QED
  BY <1>1, <1>2 DEF Ascending, AscendingSeq

\* The tail of an open queue has the largest id.
LEMMA TailIsLast ==
  ASSUME IInv, Ascending, tail # Nil, segs[tail].open
  PROVE  \A i \in DOMAIN files : i <= tail
<1>1. /\ segments \in Seq(1..MaxID) /\ segments # <<>> /\ DOMAIN files = Listed
      /\ tail = segments[Len(segments)]
  BY DEF IInv, Shape, PointersOK
<1> SUFFICES ASSUME NEW k \in 1..Len(segments) PROVE segments[k] <= segments[Len(segments)]
  BY <1>1 DEF Listed
<1>2. Len(segments) \in 1..Len(segments)
  BY <1>1
<1>3. segments[Len(segments)] \in Int /\ segments[k] \in Int
  <2>1. k \in DOMAIN segments /\ Len(segments) \in DOMAIN segments
    BY <1>1, <1>2
  <2>2. segments[Len(segments)] \in 1..MaxID /\ segments[k] \in 1..MaxID
    BY <1>1, <2>1, EntryInSet, Zenon
  <2> QED
    BY <2>2
<1>4. CASE k < Len(segments)
  BY <1>2, <1>3, <1>4 DEF Ascending, AscendingSeq
<1>5. CASE k = Len(segments)
  BY <1>3, <1>5
<1> QED
  BY <1>1, <1>4, <1>5

\* A loaded list ascends if names are in order, also when its first entry is trimmed.
LEMMA OpenAscending == NamesInOrder /\ IInv /\ IInv' /\ Open => Ascending'
<1> SUFFICES ASSUME NamesInOrder, IInv, IInv', Open PROVE Ascending'
  OBVIOUS
<1> DEFINE loaded == IF DOMAIN files = {} THEN [i \in {1} |-> NewFile] ELSE files
           ids == DOMAIN loaded
<1>1. PICK order \in LoadOrders(ids) : segments' = Tail(order) \/ segments' = order
  BY Zenon DEF Open
<1>2. /\ order \in UNION {[1..n -> ids] : n \in (1..MaxID) \cap {Cardinality(ids)}}
      /\ IsLoadOrder(ids, order)
  BY <1>1 DEF LoadOrders
<1>3. PICK n \in 1..MaxID : order \in [1..n -> ids]
  BY <1>2
<1>4. ids \subseteq 1..MaxID
  <2>1. DOMAIN files \subseteq 1..MaxID /\ 1 \in 1..MaxID
    BY BoundAssumption, SMTT(30) DEF IInv, Shape
  <2>2. ids = {1} \/ ids = DOMAIN files
    BY Zenon
  <2> QED
    BY <2>1, <2>2
<1> HIDE DEF ids
<1>5. n \in Nat /\ n >= 1
  BY <1>3
<1>6. order \in Seq(1..MaxID) /\ Len(order) = n /\ DOMAIN order = 1..n
  BY <1>3, <1>4, <1>5, FunctionIsSeq, ZenonT(30)
<1>7. AscendingSeq(order)
  <2>1. \A j \in 1..n : order[j] \in 1..MaxID
    BY <1>6, EntryInSet, Zenon
  <2> QED
    BY <1>2, <1>6, <2>1 DEF IsLoadOrder, NamesInOrder, AscendingSeq
<1>8. CASE segments' = order
  BY <1>7, <1>8 DEF Ascending
<1>9. CASE segments' = Tail(order)
  <2>1. Len(segments') = n - 1 /\ \A j \in 1..(n - 1) : segments'[j] = order[j + 1]
    BY <1>5, <1>6, <1>9
  <2>2. AscendingSeq(segments')
    BY <1>5, <1>6, <1>7, <2>1, AscendingSuffix
  <2> QED
    BY <2>2 DEF Ascending
<1> QED
  BY <1>1, <1>8, <1>9

\* Without new blocks, a step keeps hints in order if it keeps the list ascending.
LEMMA InOrderKept ==
  ASSUME IInv, InOrder, Ascending', swallowed' \subseteq swallowed \cup {appended + 1},
         \A i \in DOMAIN files' : \/ i \in DOMAIN files /\ files'[i].blocks = files[i].blocks
                                  \/ DOMAIN files'[i].blocks = {}
  PROVE  InOrder'
<1>1. BlocksKept
  BY DEF BlocksKept
<1>2. HintsOrdered'
  BY <1>1, OrderKept DEF InOrder
<1>3. SwallowedUnwritten'
  BY <1>1, UnwrittenKept DEF InOrder
<1> QED
  BY <1>2, <1>3 DEF InOrder

\* Append keeps hints in order: the tail has the largest id, a new segment a larger one.
LEMMA AppendInOrder ==
  ASSUME IInv, InOrder, NEW len \in Nat \ {0}, AppendHint(len)
  PROVE  InOrder'
<1>1. /\ tail # Nil /\ head # Nil /\ now' = now
      /\ AppendToTail(len) \/ AppendToNew(len) \/ AppendSwallowed(len)
      /\ appended \in Nat /\ now \in Nat
  BY DEF AppendHint, IInv, PointersOK, Shape
<1>2. CASE AppendToTail(len)
  <2>1. /\ segs[tail].open /\ segments' = segments /\ swallowed' = swallowed
        /\ files' = With(files, tail, AppendBlock(files[tail], segs[tail].pos, len, appended + 1))
    BY <1>2 DEF AppendToTail
  <2>2. tail \in DOMAIN files /\ segs[tail] = OpenSegment(files[tail], segs[tail].maxSize) /\ tail \in 1..MaxID
    BY <1>1, <2>1, OpenTail DEF IInv, Shape
  <2>3. segs[tail].pos = files[tail].pos
    BY <2>2 DEF OpenSegment
  <2>4. \A i \in DOMAIN files : i <= tail
    BY <1>1, <2>1, TailIsLast DEF InOrder
  <2>5. files' = With(files, tail, AppendBlock(files[tail], files[tail].pos, len, appended + 1))
    BY <2>1, <2>3
  <2>6. HintsOrdered' /\ SwallowedUnwritten'
    BY <2>1, <2>2, <2>4, <2>5, OrderExtended, Zenon DEF InOrder
  <2> QED
    BY <2>1, <2>6 DEF InOrder, Ascending
<1>3. CASE AppendToNew(len)
  <2>1. PICK id \in 1..MaxID :
          /\ IsNextSegmentID(id, DOMAIN files)
          /\ \/ files' = With(files, id, AppendBlock(NewFile, 0, len, appended + 1))
             \/ files' = With(files, id, NewFile)
          /\ segments' = Append(segments, id)
    BY <1>3, Zenon DEF AppendToNew
  <2>2. Ascending' /\ swallowed' = swallowed
    BY <1>1, <1>3, <2>1, AscendingAppend DEF InOrder, AppendToNew
  <2>3. \A i \in DOMAIN files : i <= id /\ i # id
    BY <2>1 DEF IInv, Shape, IsNextSegmentID
  <2>4. CASE files' = With(files, id, AppendBlock(NewFile, 0, len, appended + 1))
    <3>1. NewFile.pos = 0 /\ id \notin DOMAIN files
      BY <2>3 DEF NewFile
    <3>2. files' = With(files, id, AppendBlock(NewFile, NewFile.pos, len, appended + 1))
      BY <2>4, <3>1
    <3>3. HintsOrdered' /\ SwallowedUnwritten'
      BY <2>2, <2>3, <3>1, <3>2, OrderExtended, Zenon DEF InOrder
    <3> QED
      BY <2>2, <3>3 DEF InOrder
  <2>5. CASE files' = With(files, id, NewFile)
    <3>1. DOMAIN NewFile.blocks = {}
      BY <1>1, NewFileGood
    <3>2. \A i \in DOMAIN files' : \/ i \in DOMAIN files /\ files'[i].blocks = files[i].blocks
                                   \/ DOMAIN files'[i].blocks = {}
      BY <2>5, <3>1, Zenon DEF With
    <3> QED
      BY <2>2, <3>2, InOrderKept
  <2> QED
    BY <2>1, <2>4, <2>5
<1>4. CASE AppendSwallowed(len)
  <2>1. files' = files /\ segments' = segments /\ swallowed' = swallowed \cup {appended + 1}
    BY <1>4 DEF AppendSwallowed
  <2>2. Ascending'
    BY <2>1 DEF InOrder, Ascending
  <2> QED
    BY <2>1, <2>2, InOrderKept
<1> QED
  BY <1>1, <1>2, <1>3, <1>4

\* Advance keeps hints in order: it writes a footer or trims the head.
LEMMA AdvanceInOrder ==
  ASSUME IInv, InOrder, Advance
  PROVE  InOrder'
<1>1. /\ swallowed' = swallowed /\ head # Nil
      /\ \/ files' = Without(files, {head}) /\ segments' = Tail(segments)
         \/ segments' = segments /\ files' = files
         \/ segments' = segments /\ \E pos : files' = With(files, head, MoveFooter(files[head], pos))
  BY Zenon DEF Advance
<1>2. \A i \in DOMAIN files' : i \in DOMAIN files /\ files'[i].blocks = files[i].blocks
  <2>1. CASE files' = Without(files, {head})
    BY <2>1 DEF Without
  <2>2. CASE files' = files
    BY <2>2
  <2>3. ASSUME NEW pos, files' = With(files, head, MoveFooter(files[head], pos))
        PROVE  \A i \in DOMAIN files' : i \in DOMAIN files /\ files'[i].blocks = files[i].blocks
    BY <1>1, <2>3, OpenHead DEF With, MoveFooter
  <2> QED
    BY <1>1, <2>1, <2>2, <2>3
<1>3. Ascending'
  <2>1. CASE segments' = segments
    BY <2>1 DEF InOrder, Ascending
  <2>2. CASE segments' = Tail(segments)
    <3>1. segments \in Seq(1..MaxID) /\ segments # <<>>
      BY <1>1 DEF IInv, Shape, PointersOK
    <3>2. /\ Len(segments) \in Nat /\ 1 <= Len(segments) /\ Len(segments') = Len(segments) - 1
          /\ \A j \in 1..Len(segments') : segments'[j] = segments[j + 1]
      BY <3>1, <2>2
    <3>3. AscendingSeq(segments')
      BY <3>2, AscendingSuffix DEF InOrder, Ascending
    <3> QED
      BY <3>3 DEF Ascending
  <2> QED
    BY <1>1, <2>1, <2>2
<1> QED
  BY <1>1, <1>2, <1>3, InOrderKept

\* PurgeOlderThan keeps hints in order: it trims leading segments, and may add an
\* empty one.
LEMMA PurgeInOrder ==
  ASSUME IInv, InOrder, PurgeOlderThan
  PROVE  InOrder'
<1> DEFINE gone(k) == {segments[j] : j \in 1..k}
<1>1. PICK k \in DOMAIN segments :
        \/ /\ k < Len(segments) /\ files' = Without(files, gone(k))
           /\ segments' = SubSeq(segments, k + 1, Len(segments))
        \/ /\ files' = With(Without(files, gone(k)), segments[k] + 1, NewFile)
           /\ segments' = <<segments[k] + 1>>
  BY Zenon DEF PurgeOlderThan
<1>2. swallowed' = swallowed /\ now \in Nat /\ appended \in Nat /\ segments \in Seq(1..MaxID)
  BY DEF PurgeOlderThan, IInv, Shape
<1>3. \A i \in DOMAIN files' : \/ i \in DOMAIN files /\ files'[i].blocks = files[i].blocks
                               \/ DOMAIN files'[i].blocks = {}
  <2>1. DOMAIN NewFile.blocks = {}
    BY <1>2, NewFileGood
  <2> HIDE DEF gone
  <2> QED
    BY <1>1, <2>1, Zenon DEF With, Without
<1>4. Ascending'
  <2>1. CASE k < Len(segments) /\ segments' = SubSeq(segments, k + 1, Len(segments))
    <3>1. k \in 1..Len(segments) /\ k \in Nat /\ Len(segments) \in Nat /\ k <= Len(segments)
      BY <1>2, <2>1
    <3>2. /\ Len(segments') = Len(segments) - k
          /\ \A j \in 1..Len(segments') : segments'[j] = segments[j + k]
      BY <1>2, <2>1, <3>1, SuffixOfSeq, Zenon
    <3>3. AscendingSeq(segments')
      BY <3>1, <3>2, AscendingSuffix, Zenon DEF InOrder, Ascending
    <3> QED
      BY <3>3 DEF Ascending
  <2>2. CASE segments' = <<segments[k] + 1>>
    <3>1. Len(segments') = 1
      BY <2>2
    <3> QED
      BY <3>1 DEF Ascending, AscendingSeq
  <2> QED
    BY <1>1, <2>1, <2>2
<1> QED
  BY <1>2, <1>3, <1>4, InOrderKept

\* Open keeps hints in order if it lists the segments in the order of their ids.
LEMMA OpenInOrder ==
  ASSUME NamesInOrder, IInv, IInv', InOrder, Open
  PROVE  InOrder'
<1> DEFINE loaded == IF DOMAIN files = {} THEN [i \in {1} |-> NewFile] ELSE files
<1>1. \E gone : files' = Without(loaded, gone)
  BY Zenon DEF Open
<1>2. swallowed' = swallowed /\ now \in Nat /\ appended \in Nat
  BY DEF Open, history, IInv, Shape
<1>3. DOMAIN NewFile.blocks = {}
  BY <1>2, NewFileGood
<1>4. \A i \in DOMAIN loaded : \/ i \in DOMAIN files /\ loaded[i].blocks = files[i].blocks
                               \/ DOMAIN loaded[i].blocks = {}
  <2>1. CASE DOMAIN files = {}
    <3>1. loaded = [i \in {1} |-> NewFile]
      BY <2>1
    <3> QED
      BY <3>1, <1>3
  <2>2. CASE DOMAIN files # {}
    BY <2>2
  <2> QED
    BY <2>1, <2>2
<1> HIDE DEF loaded
<1>5. \A i \in DOMAIN files' : \/ i \in DOMAIN files /\ files'[i].blocks = files[i].blocks
                               \/ DOMAIN files'[i].blocks = {}
  BY <1>1, <1>4, Zenon DEF Without
<1>6. Ascending'
  BY OpenAscending
<1> QED
  BY <1>2, <1>5, <1>6, InOrderKept

\* Every step keeps hints in order.
LEMMA NextInOrder ==
  ASSUME NamesInOrder, IInv, IInv', InOrder, [Next]_vars
  PROVE  InOrder'
<1>1. CASE Open
  BY <1>1, OpenInOrder
<1>2. CASE Close \/ Restart
  <2>1. files' = files /\ swallowed' = swallowed /\ segments' = <<>>
    BY <1>2 DEF Close, Restart, disk, history
  <2>2. Ascending'
    BY <2>1 DEF Ascending, AscendingSeq
  <2> QED
    BY <2>1, <2>2, InOrderKept
<1>3. CASE Remove
  <2>1. DOMAIN files' = {} /\ swallowed' = swallowed /\ segments' = segments
    BY <1>3 DEF Remove, memory
  <2>2. Ascending'
    BY <2>1 DEF InOrder, Ascending
  <2> QED
    BY <2>1, <2>2, InOrderKept
<1>4. ASSUME NEW size \in SegmentSizes, SetMaxSegmentSize(size) PROVE InOrder'
  <2>1. /\ head # Nil /\ swallowed' = swallowed
        /\ \/ files' = files /\ segments' = segments
           \/ \E id \in 1..MaxID : /\ IsNextSegmentID(id, DOMAIN files)
                                   /\ files' = With(files, id, NewFile)
                                   /\ segments' = Append(segments, id)
    BY <1>4, Zenon DEF SetMaxSegmentSize, disk, history
  <2>2. CASE files' = files /\ segments' = segments
    <3>1. Ascending'
      BY <2>2 DEF InOrder, Ascending
    <3> QED
      BY <2>1, <2>2, <3>1, InOrderKept
  <2>3. ASSUME NEW id \in 1..MaxID, IsNextSegmentID(id, DOMAIN files),
               files' = With(files, id, NewFile), segments' = Append(segments, id)
        PROVE  InOrder'
    <3>1. Ascending'
      BY <2>1, <2>3, AscendingAppend DEF InOrder
    <3>2. DOMAIN NewFile.blocks = {}
      BY NewFileGood DEF IInv, Shape
    <3>3. \A i \in DOMAIN files' : \/ i \in DOMAIN files /\ files'[i].blocks = files[i].blocks
                                   \/ DOMAIN files'[i].blocks = {}
      BY <2>3, <3>2, Zenon DEF With
    <3> QED
      BY <2>1, <3>1, <3>3, InOrderKept
  <2> QED
    BY <2>1, <2>2, <2>3
<1>5. ASSUME NEW len \in Lens, AppendHint(len) PROVE InOrder'
  BY <1>5, LensAssumption, AppendInOrder
<1>6. CASE Advance
  BY <1>6, AdvanceInOrder
<1>7. CASE PurgeOlderThan
  BY <1>7, PurgeInOrder
<1>8. CASE Tick \/ UNCHANGED vars
  <2>1. files' = files /\ swallowed' = swallowed /\ segments' = segments
    BY <1>8 DEF Tick, vars, disk, memory, history
  <2>2. Ascending'
    BY <2>1 DEF InOrder, Ascending
  <2> QED
    BY <2>1, <2>2, InOrderKept
<1> QED
  BY <1>1, <1>2, <1>3, <1>4, <1>5, <1>6, <1>7, <1>8 DEF Next

-----------------------------------------------------------------------------
(* That a step is a step of the FIFO *)

\* The unread hints are those that were acknowledged but for the ones that were never
\* written, advanced past or purged.
LEMMA PendingIs ==
  ASSUME IInv, InOrder
  PROVE  /\ Pending = (1..appended) \ (swallowed \cup sent \cup purged)
         /\ appended \in Nat
<1>1. ASSUME NEW h \in Pending PROVE h \in 1..appended /\ h \notin swallowed
  <2>1. PICK i \in DOMAIN files : \E o \in DOMAIN files[i].blocks : h = files[i].blocks[o].hint
    BY <1>1 DEF Pending, Unread
  <2>2. Good(files[i], appended, now)
    BY DEF IInv, FilesGood
  <2> QED
    BY <2>1, <2>2 DEF Good, FileOK, InOrder, SwallowedUnwritten
<1>2. Pending \cap (sent \cup purged) = {} /\ 1..appended \ swallowed \subseteq Pending \cup sent \cup purged
  BY DEF IInv, NotReadTwice, AcknowledgedKept
<1> QED
  BY <1>1, <1>2 DEF IInv, Shape

\* The block at the head's footer holds the oldest unread hint.
LEMMA HeadOldest ==
  ASSUME IInv, InOrder, head # Nil, files[head].pos # files[head].end
  PROVE  \E h \in Pending : /\ HintAt(files[head], files[head].pos) = {h}
                            /\ \A g \in Pending : h <= g
<1> DEFINE f == files[head]
           h == f.blocks[f.pos].hint
<1>1. /\ head \in DOMAIN files /\ Good(f, appended, now) /\ DOMAIN files = Listed
      /\ segments \in Seq(1..MaxID) /\ segments # <<>> /\ head = segments[1]
  BY OpenHead DEF IInv, PointersOK, Shape
<1>2. f.pos \in DOMAIN f.blocks /\ f.pos \in Nat
  BY <1>1 DEF Good, FileOK
<1>3. HintAt(f, f.pos) = {h}
  BY <1>2, HintAtFooter, Zenon
<1>4. h \in Unread(f)
  BY <1>2 DEF Unread
<1>5. h \in Pending
  BY <1>1, <1>4 DEF Pending
<1>6. ASSUME NEW g \in Pending PROVE h <= g
  <2>1. PICK i \in DOMAIN files : g \in Unread(files[i])
    BY DEF Pending
  <2>2. PICK o \in DOMAIN files[i].blocks : o >= files[i].pos /\ g = files[i].blocks[o].hint
    BY <2>1 DEF Unread
  <2>3. h \in Int /\ g \in Int
    BY <1>5, PendingIs
  <2>4. CASE i = head /\ o = f.pos
    BY <2>2, <2>3, <2>4
  <2>5. CASE i = head /\ o # f.pos
    <3>1. o \in Nat
      BY <1>1, <2>5 DEF Good, FileOK
    <3>2. f.pos < o
      BY <1>2, <2>2, <2>5, <3>1, SMTT(30)
    <3>3. h < g
      BY <1>1, <1>2, <2>2, <2>5, <3>2 DEF InOrder, HintsOrdered
    <3> QED
      BY <2>3, <3>3
  <2>6. CASE i # head
    <3>1. PICK k \in 1..Len(segments) : i = segments[k]
      BY <1>1 DEF Listed
    <3>2. 1 \in 1..Len(segments) /\ 1 < k
      BY <1>1, <2>6, <3>1
    <3>3. head < i
      BY <1>1, <3>1, <3>2 DEF InOrder, Ascending, AscendingSeq
    <3>4. h < g
      BY <1>1, <1>2, <2>2, <3>3 DEF InOrder, HintsOrdered
    <3> QED
      BY <2>3, <3>4
  <2> QED
    BY <2>4, <2>5, <2>6
<1> QED
  BY <1>3, <1>5, <1>6

\* The hints of the k first listed segments are older than the others.
LEMMA PrefixOldest ==
  ASSUME IInv, InOrder, head # Nil, NEW k \in DOMAIN segments,
         NEW h \in UNION {Unread(files[i]) : i \in {segments[j] : j \in 1..k}},
         NEW g \in Pending,
         g \notin UNION {Unread(files[i]) : i \in {segments[j] : j \in 1..k}}
  PROVE  h < g
<1>1. DOMAIN files = Listed /\ segments \in Seq(1..MaxID) /\ DOMAIN segments = 1..Len(segments)
  BY DEF IInv, PointersOK, Shape
<1>2. PICK j \in 1..k : h \in Unread(files[segments[j]])
  OBVIOUS
<1>3. PICK m \in DOMAIN segments : g \in Unread(files[segments[m]])
  BY <1>1 DEF Pending, Listed
<1>4. m > k
  BY <1>1, <1>3
<1>5. j \in 1..Len(segments) /\ m \in 1..Len(segments) /\ j < m
  BY <1>1, <1>2, <1>3, <1>4
<1>6. segments[j] < segments[m] /\ segments[j] \in DOMAIN files /\ segments[m] \in DOMAIN files
  BY <1>1, <1>5 DEF InOrder, Ascending, AscendingSeq, Listed
<1>7. PICK o \in DOMAIN files[segments[j]].blocks : h = files[segments[j]].blocks[o].hint
  BY <1>2 DEF Unread
<1>8. PICK p \in DOMAIN files[segments[m]].blocks : g = files[segments[m]].blocks[p].hint
  BY <1>3 DEF Unread
<1> QED
  BY <1>6, <1>7, <1>8 DEF InOrder, HintsOrdered

\* Every step of the queue is a step of the FIFO or none.
LEMMA StepIsFIFO ==
  ASSUME IInv, IInv', InOrder, InOrder', [Next]_vars
  PROVE  [FIFO!Next]_(FIFO!vars)
<1>1. /\ Pending = (1..appended) \ (swallowed \cup sent \cup purged) /\ appended \in Nat
      /\ swallowed \subseteq 1..appended /\ sent \subseteq 1..appended /\ purged \subseteq 1..appended
  BY PendingIs, Zenon DEF IInv, Shape
<1>2. /\ Pending' = (1..(appended')) \ (swallowed' \cup sent' \cup purged')
      /\ appended' \in Nat
  <2>1. ASSUME NEW h \in Pending' PROVE h \in 1..(appended') /\ h \notin swallowed'
    <3>1. PICK i \in DOMAIN files' : \E o \in DOMAIN files'[i].blocks : h = files'[i].blocks[o].hint
      BY <2>1 DEF Pending, Unread
    <3>2. Good(files'[i], appended', now')
      BY DEF IInv, FilesGood
    <3> QED
      BY <3>1, <3>2 DEF Good, FileOK, InOrder, SwallowedUnwritten
  <2>2. /\ Pending' \cap (sent' \cup purged') = {}
        /\ (1..(appended')) \ swallowed' \subseteq Pending' \cup sent' \cup purged'
    BY DEF IInv, NotReadTwice, AcknowledgedKept
  <2> QED
    BY <2>1, <2>2 DEF IInv, Shape
<1>3. ASSUME UNCHANGED history PROVE UNCHANGED FIFO!vars
  BY <1>1, <1>2, <1>3 DEF history, FIFO!vars
<1>4. CASE Open \/ Close \/ Restart \/ Tick \/ UNCHANGED vars
  <2>1. UNCHANGED history
    BY <1>4 DEF Open, Close, Restart, Tick, vars
  <2> QED
    BY <1>3, <2>1
<1>5. ASSUME NEW size \in SegmentSizes, SetMaxSegmentSize(size) PROVE UNCHANGED FIFO!vars
  <2>1. UNCHANGED history
    BY <1>5, Zenon DEF SetMaxSegmentSize
  <2> QED
    BY <1>3, <2>1
<1>6. CASE Remove
  <2>1. /\ purged' = purged \cup Pending /\ appended' = appended /\ swallowed' = swallowed /\ sent' = sent
    BY <1>6 DEF Remove, Pending
  <2>2. Pending' = Pending \ Pending
    BY <1>1, <1>2, <2>1
  <2>3. FIFO!Expire
    BY <2>1, <2>2 DEF FIFO!Expire
  <2> QED
    BY <2>3 DEF FIFO!Next
<1>7. ASSUME NEW len \in Lens, AppendHint(len) PROVE [FIFO!Next]_(FIFO!vars)
  <2>1. /\ sent' = sent /\ purged' = purged
        /\ AppendToTail(len) \/ AppendToNew(len) \/ AppendSwallowed(len)
    BY <1>7 DEF AppendHint
  <2>2. \/ appended' = appended + 1 /\ swallowed' = swallowed
        \/ appended' = appended + 1 /\ swallowed' = swallowed \cup {appended + 1}
        \/ appended' = appended /\ swallowed' = swallowed
    BY <2>1, Zenon DEF AppendToTail, AppendToNew, AppendSwallowed
  <2>3. CASE appended' = appended + 1 /\ swallowed' = swallowed
    <3>1. Pending' = Pending \cup {appended + 1}
      BY <1>1, <1>2, <2>1, <2>3
    <3>2. FIFO!Put
      BY <2>3, <3>1 DEF FIFO!Put
    <3> QED
      BY <3>2 DEF FIFO!Next
  <2>4. CASE appended' = appended + 1 /\ swallowed' = swallowed \cup {appended + 1}
    <3>1. Pending' = Pending
      BY <1>1, <1>2, <2>1, <2>4
    <3>2. FIFO!Lose
      BY <2>4, <3>1 DEF FIFO!Lose
    <3> QED
      BY <3>2 DEF FIFO!Next
  <2>5. CASE appended' = appended /\ swallowed' = swallowed
    <3>1. UNCHANGED history
      BY <2>1, <2>5 DEF history
    <3> QED
      BY <1>3, <3>1
  <2> QED
    BY <2>2, <2>3, <2>4, <2>5
<1>8. CASE Advance
  <2>1. /\ head # Nil /\ appended' = appended /\ swallowed' = swallowed /\ purged' = purged
        /\ sent' = IF AtEnd(segs[head]) THEN sent ELSE sent \cup HintAt(files[head], segs[head].pos)
    BY <1>8, Zenon DEF Advance
  <2>2. CASE AtEnd(segs[head])
    <3>1. UNCHANGED history
      BY <2>1, <2>2 DEF history
    <3> QED
      BY <1>3, <3>1
  <2>3. CASE ~AtEnd(segs[head])
    <3>1. /\ segs[head] = OpenSegment(files[head], segs[head].maxSize)
          /\ Good(files[head], appended, now)
      BY <2>1, OpenHead, Zenon
    <3>2. segs[head].pos = files[head].pos /\ files[head].pos # files[head].end
      BY <2>3, <3>1 DEF OpenSegment, AtEnd, FooterSize, Good, FileOK
    <3>3. PICK h \in Pending : /\ HintAt(files[head], files[head].pos) = {h}
                               /\ \A g \in Pending : h <= g
      BY <2>1, <3>2, HeadOldest
    <3>4. sent' = sent \cup {h}
      BY <2>1, <2>3, <3>2, <3>3
    <3>5. Pending' = Pending \ {h}
      BY <1>1, <1>2, <2>1, <3>4
    <3>6. FIFO!Take
      BY <2>1, <3>3, <3>5 DEF FIFO!Take
    <3> QED
      BY <3>6 DEF FIFO!Next
  <2> QED
    BY <2>2, <2>3
<1>9. CASE PurgeOlderThan
  <2>1. PICK k \in DOMAIN segments :
          purged' = purged \cup UNION {Unread(files[i]) : i \in {segments[j] : j \in 1..k}}
    BY <1>9, Zenon DEF PurgeOlderThan
  <2>2. head # Nil /\ appended' = appended /\ swallowed' = swallowed /\ sent' = sent
    BY <1>9 DEF PurgeOlderThan
  <2> DEFINE old == UNION {Unread(files[i]) : i \in {segments[j] : j \in 1..k}}
  <2>3. \A h \in old : \A g \in Pending \ old : h < g
    BY <2>2, PrefixOldest
  <2>4. old \subseteq Pending
    <3>1. \A j \in 1..k : segments[j] \in DOMAIN files
      BY <2>2, SMTT(30) DEF IInv, PointersOK, Shape, Listed
    <3> QED
      BY <3>1 DEF Pending
  <2> HIDE DEF old
  <2>5. Pending' = Pending \ old
    BY <1>1, <1>2, <2>1, <2>2 DEF old
  <2>6. FIFO!Expire
    BY <2>2, <2>3, <2>4, <2>5 DEF FIFO!Expire
  <2> QED
    BY <2>6 DEF FIFO!Next
<1> QED
  BY <1>4, <1>5, <1>6, <1>7, <1>8, <1>9 DEF Next

-----------------------------------------------------------------------------
(* The theorems *)

\* While names are in the order of ids hints stay in order.
LEMMA OrderInvariance ==
  ASSUME NamesInOrder PROVE Spec => []InOrder
<1>1. Init => InOrder
  <2> SUFFICES ASSUME Init PROVE InOrder
    OBVIOUS
  <2>1. DOMAIN NewFile.blocks = {}
    BY DEF NewFile
  <2> QED
    BY <2>1 DEF Init, InOrder, HintsOrdered, SwallowedUnwritten, Ascending, AscendingSeq
<1>2. IInv /\ IInv' /\ InOrder /\ [Next]_vars => InOrder'
  BY NextInOrder
<1> QED
  BY <1>1, <1>2, Invariance, PTL DEF Spec

\* "byte slices can be appended and read back in-order": the queue implements HintFIFO,
\* over any sequence of appends, advances, purges, crashes and reopenings, for every
\* choice of sizes, as long as the directory lists the segment files in the order of
\* their ids.
THEOREM QueueIsFIFO == NamesInOrder => (Spec => IsFIFO)
<1> SUFFICES ASSUME NamesInOrder PROVE Spec => IsFIFO
  OBVIOUS
<1>1. Init => FIFO!Init
  <2> SUFFICES ASSUME Init PROVE Pending = {} /\ appended = 0 /\ swallowed = {}
    BY DEF FIFO!Init
  <2>1. Unread(NewFile) = {}
    BY DEF NewFile, Unread
  <2> QED
    BY <2>1 DEF Init, Pending
<1>2. IInv /\ IInv' /\ InOrder /\ InOrder' /\ [Next]_vars => [FIFO!Next]_(FIFO!vars)
  BY StepIsFIFO
<1>3. Spec => []InOrder
  BY OrderInvariance
<1> QED
  BY <1>1, <1>2, <1>3, Invariance, PTL DEF Spec, IsFIFO, FIFO!Spec

\* The promise of queue in every state: what Current reads is the oldest unread hint,
\* as long as the directory lists the segment files in the order of their ids.
THEOREM CurrentIsOldest == NamesInOrder => (Spec => []HeadIsOldest)
<1> SUFFICES ASSUME NamesInOrder PROVE Spec => []HeadIsOldest
  OBVIOUS
<1>1. IInv /\ InOrder => HeadIsOldest
  <2> SUFFICES ASSUME IInv, InOrder, head # Nil, NEW h \in HintAt(files[head], segs[head].pos),
                      NEW g \in Pending
               PROVE  h <= g
    BY DEF HeadIsOldest
  <2>1. segs[head].pos = files[head].pos /\ Good(files[head], appended, now)
    BY OpenHead DEF OpenSegment
  <2>2. files[head].pos # files[head].end
    BY <2>1 DEF HintAt, Good, FileOK, Tiled, LenSize
  <2>3. PICK m \in Pending : HintAt(files[head], files[head].pos) = {m} /\ \A q \in Pending : m <= q
    BY <2>2, HeadOldest
  <2> QED
    BY <2>1, <2>3
<1>2. Spec => []InOrder
  BY OrderInvariance
<1> QED
  BY <1>1, <1>2, Invariance, PTL
=============================================================================
