------------------------- MODULE CoordinationProofs -------------------------
(***************************************************************************)
(* Proofs about what a node does for and with the others.                  *)
(* The hinted-handoff service: for any nodes, writers and bounds, an       *)
(* accepted hint is kept until it is delivered, skipped or purged, and     *)
(* every directory has one live processor.                                 *)
(* The meta client: for any meta nodes, commands and retries, the copy is  *)
(* the metadata after some entry of the log, and a caller finds in it what *)
(* its command created, until something changes the copy alone.            *)
(***************************************************************************)
EXTENDS HHService, MetaClient, TLAPS

(* The hinted-handoff service *)

ProcRecords == [node : Nodes \cup {None}, done : {"nil", "open", "closed"},
                run : {"none", "select", "rlock", "write", "advance"}, cur : Nat, wait : Nat]
ThreadPCs == {"idle", "select", "lock", "each", "plock", "pwait", "pdone", "join", "exited"}
ThreadRecords == [pc : ThreadPCs, p : Nat, todo : SUBSET Nodes]
WriterRecords == [pc : {"idle", "create", "append"}, node : Nodes \cup {None}, p : Nat]

TypeOK ==
  /\ DOMAIN queue \in SUBSET Nodes /\ queue = [n \in DOMAIN queue |-> queue[n]]
  /\ \A n \in DOMAIN queue : queue[n] \in Seq(Nat)
  /\ processors = [n \in DOMAIN processors |-> processors[n]]
  /\ proc \in [Procs -> ProcRecords]
  /\ th \in [Threads -> ThreadRecords]
  /\ wr \in [Writers -> WriterRecords]
  /\ used \in 0 .. MaxProcs
  /\ accepted \in Nat

\* While the process is down there are no goroutines.
Down == ~up => th = [t \in Threads |-> Idle] /\ wr = [w \in Writers |-> Returned]

\* Service.mu has one owner.
Exclusive == \A s, t \in Threads : HoldsService(s) /\ HoldsService(t) => s = t

Alive(p) == proc[p].done # "nil" \/ proc[p].run # "none"

\* The map leads to objects that were made, each for its node and its directory, and to
\* all that are alive; run ends before done is set to nil.
Objects ==
  /\ \A p \in Procs : p > used => ~Alive(p)
  /\ \A n \in DOMAIN processors :
       processors[n] \in 1 .. used /\ proc[processors[n]].node = n /\ n \in DOMAIN queue
  /\ \A p \in Procs : proc[p].done = "nil" => proc[p].run = "none"
  /\ \A p \in Procs : Alive(p) => proc[p].node \in DOMAIN processors /\ processors[proc[p].node] = p

\* What WriteShard looked up is an object of its node.
LookedUp ==
  \A w \in Writers :
    /\ wr[w].pc # "idle" => wr[w].node \in Nodes
    /\ wr[w].pc = "append" => wr[w].p \in 1 .. used /\ proc[wr[w].p].node = wr[w].node

\* The processor that t is closing.
Closing(t) == th[t].pc \in {"plock", "pwait", "pdone"}

\* A thread with the lock goes over listed processors; the one it is closing is listed,
\* and not met again.
Listed ==
  \A t \in Threads :
    /\ HoldsService(t) => th[t].todo \subseteq DOMAIN processors
    /\ Closing(t) => /\ th[t].p \in 1 .. used
                     /\ proc[th[t].p].node \in DOMAIN processors \ th[t].todo
                     /\ processors[proc[th[t].p].node] = th[t].p
    /\ th[t].pc = "pdone" => proc[th[t].p].done = "nil"

\* SendWrite sends the head of the queue, and advances past what the node took.
SendsHead ==
  \A p \in Procs :
    /\ Sending(p) => queue[proc[p].node] # <<>> /\ Head(queue[proc[p].node]) = proc[p].cur
    /\ proc[p].run = "advance" => proc[p].cur \in delivered

\* AcceptedKept, hint by hint.
Kept(h) ==
  \/ \E n \in DOMAIN queue : \E k \in DOMAIN queue[n] : queue[n][k] = h
  \/ h \in delivered \/ h \in skipped \/ h \in purged
AllKept == \A h \in 1 .. accepted : Kept(h)

IInv == TypeOK /\ Down /\ Exclusive /\ Objects /\ LookedUp /\ Listed /\ SendsHead /\ AllKept

-----------------------------------------------------------------------------
(* NodeProcessor.run *)

\* An object made so far is one of those the bound allows.
LEMMA MadeIsProc ==
  ASSUME TypeOK, NEW i \in 1 .. used
  PROVE  i \in Procs
BY ServiceBounds DEF TypeOK, Procs

\* A live processor's directory exists.
LEMMA AliveHasQueue ==
  ASSUME TypeOK, Objects, NEW p \in Procs, Alive(p)
  PROVE  /\ proc[p].node \in DOMAIN processors /\ processors[proc[p].node] = p
         /\ proc[p].node \in DOMAIN queue /\ proc[p].node \in Nodes
         /\ queue[proc[p].node] \in Seq(Nat)
<1>1. proc[p].node \in DOMAIN processors /\ processors[proc[p].node] = p
  BY DEF Objects
<1>2. proc[p].node \in DOMAIN queue
  BY <1>1 DEF Objects
<1> QED
  BY <1>1, <1>2 DEF TypeOK

\* Tail takes away the head and nothing else.
LEMMA TailKeeps ==
  ASSUME NEW q \in Seq(Nat), q # <<>>, NEW S, Head(q) \in S
  PROVE  /\ Tail(q) \in Seq(Nat)
         /\ \A i \in DOMAIN q : (\E j \in DOMAIN Tail(q) : Tail(q)[j] = q[i]) \/ q[i] \in S
<1>1. Tail(q) \in Seq(Nat) /\ Len(Tail(q)) = Len(q) - 1 /\ \A j \in 1 .. Len(q) - 1 : Tail(q)[j] = q[j + 1]
  OBVIOUS
<1>2. ASSUME NEW i \in DOMAIN q
      PROVE  (\E j \in DOMAIN Tail(q) : Tail(q)[j] = q[i]) \/ q[i] \in S
  <2>1. i \in 1 .. Len(q)
    OBVIOUS
  <2>2. CASE i = 1
    BY <2>2
  <2>3. CASE i # 1
    <3>1. i - 1 \in 1 .. Len(Tail(q)) /\ Tail(q)[i - 1] = q[i]
      BY <1>1, <2>1, <2>3
    <3>2. i - 1 \in DOMAIN Tail(q)
      BY <1>1, <3>1
    <3> QED
      BY <3>1, <3>2
  <2> QED
    BY <2>2, <2>3
<1> QED
  BY <1>1, <1>2

\* A step of run changes its own object, which stays alive and of its node, and its own
\* queue, from which only hints that are accounted for are taken.
LEMMA RunKeeps ==
  ASSUME IInv, NEW p \in Procs, proc[p].run # "none", RunFrame,
         NEW r \in ProcRecords, proc' = [proc EXCEPT ![p] = r],
         r.node = proc[p].node, r.done = proc[p].done,
         NEW s \in Seq(Nat), queue' = [queue EXCEPT ![proc[p].node] = s],
         delivered \subseteq delivered', skipped \subseteq skipped', purged \subseteq purged',
         \A k \in DOMAIN queue[proc[p].node] :
           \/ \E j \in DOMAIN s : s[j] = queue[proc[p].node][k]
           \/ queue[proc[p].node][k] \in delivered' \cup skipped' \cup purged',
         r.run \in {"write", "advance"} => s # <<>> /\ Head(s) = r.cur,
         r.run = "advance" => r.cur \in delivered'
  PROVE  IInv'
<1> DEFINE n == proc[p].node
<1>0. Alive(p) /\ proc[p].done # "nil"
  BY DEF IInv, Objects, Alive
<1>1. n \in DOMAIN processors /\ processors[n] = p /\ n \in DOMAIN queue /\ n \in Nodes
  BY <1>0, AliveHasQueue DEF IInv
<1>2. /\ proc'[p] = r
      /\ \A q \in Procs \ {p} : proc'[q] = proc[q]
      /\ \A q \in Procs : proc'[q].node = proc[q].node /\ proc'[q].done = proc[q].done
      /\ \A q \in Procs : Alive(q)' <=> Alive(q)
  BY <1>0 DEF IInv, TypeOK, Alive
<1>3. /\ DOMAIN queue' = DOMAIN queue /\ queue'[n] = s
      /\ \A m \in DOMAIN queue \ {n} : queue'[m] = queue[m]
  BY <1>1 DEF IInv, TypeOK
<1>4. UNCHANGED <<up, processors, th, wr, used, accepted>>
  BY DEF RunFrame
<1>5. TypeOK'
  <2>1. queue' = [m \in DOMAIN queue' |-> queue'[m]]
    BY Zenon DEF IInv, TypeOK
  <2>2. \A m \in DOMAIN queue' : queue'[m] \in Seq(Nat)
    BY <1>3 DEF IInv, TypeOK
  <2>3. proc' \in [Procs -> ProcRecords]
    BY DEF IInv, TypeOK
  <2> QED
    BY <1>3, <1>4, <2>1, <2>2, <2>3 DEF IInv, TypeOK
<1>6. Down' /\ Exclusive'
  BY <1>4 DEF IInv, Down, Exclusive, HoldsService
<1>7. Objects'
  <2>1. \A q \in Procs : q > used' => ~Alive(q)'
    BY <1>2, <1>4 DEF IInv, Objects
  <2>2. \A m \in DOMAIN processors' :
          processors'[m] \in 1 .. used' /\ proc'[processors'[m]].node = m /\ m \in DOMAIN queue'
    <3> SUFFICES ASSUME NEW m \in DOMAIN processors
                 PROVE  processors[m] \in 1 .. used /\ proc'[processors[m]].node = m /\ m \in DOMAIN queue
      BY <1>3, <1>4
    <3>1. processors[m] \in 1 .. used /\ proc[processors[m]].node = m /\ m \in DOMAIN queue
      BY DEF IInv, Objects
    <3>2. processors[m] \in Procs
      BY <3>1, MadeIsProc, Zenon DEF IInv
    <3> QED
      BY <1>2, <3>1, <3>2
  <2>3. \A q \in Procs : proc'[q].done = "nil" => proc'[q].run = "none"
    BY <1>0, <1>2 DEF IInv, Objects
  <2>4. \A q \in Procs : Alive(q)' =>
          proc'[q].node \in DOMAIN processors' /\ processors'[proc'[q].node] = q
    BY <1>2, <1>4 DEF IInv, Objects
  <2> QED
    BY <2>1, <2>2, <2>3, <2>4 DEF Objects
<1>8. LookedUp'
  <2> SUFFICES ASSUME NEW w \in Writers, wr[w].pc = "append"
               PROVE  wr[w].p \in 1 .. used /\ proc'[wr[w].p].node = wr[w].node
    BY <1>4 DEF IInv, LookedUp
  <2>1. wr[w].p \in 1 .. used /\ proc[wr[w].p].node = wr[w].node
    BY DEF IInv, LookedUp
  <2>2. wr[w].p \in Procs
    BY <2>1, MadeIsProc, Zenon DEF IInv
  <2> QED
    BY <1>2, <2>1, <2>2
<1>9. Listed'
  <2> SUFFICES ASSUME NEW t \in Threads, Closing(t)
               PROVE  /\ th[t].p \in 1 .. used
                      /\ proc'[th[t].p].node \in DOMAIN processors \ th[t].todo
                      /\ processors[proc'[th[t].p].node] = th[t].p
                      /\ th[t].pc = "pdone" => proc'[th[t].p].done = "nil"
    BY <1>4 DEF IInv, Listed, Closing, HoldsService
  <2>1. /\ th[t].p \in 1 .. used
        /\ proc[th[t].p].node \in DOMAIN processors \ th[t].todo
        /\ processors[proc[th[t].p].node] = th[t].p
        /\ th[t].pc = "pdone" => proc[th[t].p].done = "nil"
    BY DEF IInv, Listed
  <2>2. th[t].p \in Procs
    BY <2>1, MadeIsProc, Zenon DEF IInv
  <2> QED
    BY <1>2, <2>1, <2>2, Zenon
<1>10. SendsHead'
  <2> SUFFICES ASSUME NEW q \in Procs
               PROVE  /\ Sending(q)' => queue'[proc'[q].node] # <<>> /\ Head(queue'[proc'[q].node]) = proc'[q].cur
                      /\ proc'[q].run = "advance" => proc'[q].cur \in delivered'
    BY DEF SendsHead, Sending
  <2>1. CASE q = p
    BY <1>2, <1>3, <2>1 DEF Sending
  <2>2. CASE q # p /\ Sending(q)
    <3>1. Alive(q)
      BY <2>2 DEF Alive, Sending
    <3>2. proc[q].node \in DOMAIN queue /\ processors[proc[q].node] = q
      BY <3>1, AliveHasQueue DEF IInv
    <3>3. proc[q].node # n
      BY <1>1, <2>2, <3>2
    <3>4. proc'[q] = proc[q] /\ queue'[proc[q].node] = queue[proc[q].node]
      BY <1>2, <1>3, <2>2, <3>2, <3>3
    <3> QED
      BY <2>2, <3>4 DEF IInv, SendsHead, Sending
  <2>3. CASE q # p /\ ~Sending(q)
    BY <1>2, <2>3 DEF Sending
  <2> QED
    BY <2>1, <2>2, <2>3
<1>11. AllKept'
  <2> SUFFICES ASSUME NEW h \in 1 .. accepted
               PROVE  Kept(h)'
    BY <1>4 DEF AllKept
  <2>1. CASE h \in delivered \/ h \in skipped \/ h \in purged
    BY <2>1 DEF Kept
  <2>2. ASSUME NEW m \in DOMAIN queue, NEW k \in DOMAIN queue[m], queue[m][k] = h
        PROVE  Kept(h)'
    <3>1. CASE m = n
      BY <1>3, <2>2, <3>1 DEF Kept
    <3>2. CASE m # n
      BY <1>3, <2>2, <3>2 DEF Kept
    <3> QED
      BY <3>1, <3>2
  <2> QED
    BY <2>1, <2>2 DEF IInv, AllKept, Kept
<1> QED
  BY <1>5, <1>6, <1>7, <1>8, <1>9, <1>10, <1>11 DEF IInv

LEMMA RunStep ==
  ASSUME IInv, NEW p \in Procs, Run(p)
  PROVE  IInv'
<1> DEFINE n == proc[p].node
           q == queue[n]
<1>0. proc[p] \in ProcRecords /\ RetryInterval \in Nat /\ RetryMaxInterval \in Nat
  BY ServiceBounds, Zenon DEF IInv, TypeOK
<1>1. proc[p].run # "none" /\ RunFrame
  BY Zenon DEF Run, RunExit, RunPurge, RunRetry, RunRead, RunWriteFails, RunWrite, RunAdvance
<1>2. n \in DOMAIN queue /\ q \in Seq(Nat)
  BY <1>1, AliveHasQueue DEF IInv, Alive
<1>3. queue = [queue EXCEPT ![n] = q]
  BY <1>2 DEF IInv, TypeOK
<1>4. proc = [proc EXCEPT ![p] = proc[p]]
  BY DEF IInv, TypeOK
<1>5. CASE RunExit(p)
  <2> DEFINE r == [proc[p] EXCEPT !.run = "none"]
  <2>1. r \in ProcRecords /\ r.node = n /\ r.done = proc[p].done /\ r.run = "none"
    BY <1>0 DEF ProcRecords
  <2>2. proc' = [proc EXCEPT ![p] = r] /\ queue' = [queue EXCEPT ![n] = q]
    BY <1>3, <1>5 DEF RunExit
  <2> HIDE DEF r
  <2> QED
    BY <1>1, <1>2, <1>5, <2>1, <2>2, RunKeeps, Zenon DEF RunExit
<1>6. CASE RunPurge(p)
  <2>1. PICK k \in 1 .. Len(q) : /\ queue' = [queue EXCEPT ![n] = SubSeq(q, k + 1, Len(q))]
                                /\ purged' = purged \cup {q[j] : j \in 1 .. k}
    BY <1>6, Zenon DEF RunPurge
  <2> DEFINE s == SubSeq(q, k + 1, Len(q))
  <2>2. s \in Seq(Nat) /\ Len(s) = Len(q) - k /\ \A j \in 1 .. Len(s) : s[j] = q[k + j]
    BY <1>2
  <2>3. queue' = [queue EXCEPT ![n] = s]
    BY <2>1
  <2> HIDE DEF s
  <2>4. ASSUME NEW i \in DOMAIN q
        PROVE  (\E j \in DOMAIN s : s[j] = q[i]) \/ q[i] \in purged'
    <3>1. i \in 1 .. Len(q)
      BY <1>2
    <3>2. CASE i <= k
      BY <2>1, <3>1, <3>2
    <3>3. CASE i > k
      <4>0. Len(s) = Len(q) - k /\ Len(q) \in Nat
        BY <1>2, <2>2
      <4>1. i - k \in 1 .. Len(s) /\ k + (i - k) = i
        BY <3>1, <3>3, <4>0
      <4>2. i - k \in DOMAIN s
        BY <2>2, <4>1
      <4> QED
        BY <2>2, <4>1, <4>2, Zenon
    <3> QED
      BY <3>1, <3>2, <3>3
  <2>5. /\ proc' = [proc EXCEPT ![p] = proc[p]]
        /\ delivered' = delivered /\ skipped' = skipped /\ purged \subseteq purged'
        /\ proc[p].run = "select"
    BY <1>4, <1>6, <2>1 DEF RunPurge
  <2> QED
    BY <1>0, <1>1, <2>2, <2>3, <2>4, <2>5, RunKeeps, Zenon
<1>7. CASE RunRetry(p)
  <2> DEFINE r == [proc[p] EXCEPT !.run = "rlock"]
  <2>1. r \in ProcRecords /\ r.node = n /\ r.done = proc[p].done /\ r.run = "rlock"
    BY <1>0 DEF ProcRecords
  <2>2. proc' = [proc EXCEPT ![p] = r] /\ queue' = [queue EXCEPT ![n] = q]
    BY <1>3, <1>7 DEF RunRetry
  <2> HIDE DEF r
  <2> QED
    BY <1>1, <1>2, <1>7, <2>1, <2>2, RunKeeps, Zenon DEF RunRetry
<1>8. PICK e \in ProcRecords : /\ e.node = n /\ e.done = proc[p].done /\ e.run = "select"
                              /\ AfterError(p) = [proc EXCEPT ![p] = e]
  <2> DEFINE e == [proc[p] EXCEPT !.run = "select", !.cur = None,
                                  !.wait = Shorter(2 * proc[p].wait, RetryMaxInterval)]
  <2>1. Shorter(2 * proc[p].wait, RetryMaxInterval) \in Nat
    BY <1>0 DEF Shorter, ProcRecords
  <2>2. e \in ProcRecords /\ e.node = n /\ e.done = proc[p].done /\ e.run = "select"
    BY <1>0, <2>1, Zenon DEF ProcRecords, None
  <2>3. AfterError(p) = [proc EXCEPT ![p] = e]
    BY Zenon DEF AfterError, IInv, TypeOK
  <2> QED
    BY <2>2, <2>3, Zenon
<1>9. PICK f \in ProcRecords : /\ f.node = n /\ f.done = proc[p].done /\ f.run = "select"
                              /\ AfterEOF(p) = [proc EXCEPT ![p] = f]
  <2> DEFINE f == [proc[p] EXCEPT !.run = "select", !.cur = None, !.wait = RetryInterval]
  <2>1. f \in ProcRecords /\ f.node = n /\ f.done = proc[p].done /\ f.run = "select"
    BY <1>0, Zenon DEF ProcRecords, None
  <2>2. AfterEOF(p) = [proc EXCEPT ![p] = f]
    BY Zenon DEF AfterEOF, IInv, TypeOK
  <2> QED
    BY <2>1, <2>2, Zenon
<1>10. CASE RunRead(p)
  <2>0. delivered' = delivered /\ purged' = purged
    BY <1>10 DEF RunRead
  <2>1. CASE UNCHANGED <<queue, skipped>> /\ proc' = AfterError(p)
    BY <1>1, <1>2, <1>3, <1>8, <2>0, <2>1, RunKeeps, Zenon
  <2>2. CASE UNCHANGED <<queue, skipped>> /\ proc' = AfterEOF(p)
    BY <1>1, <1>2, <1>3, <1>9, <2>0, <2>2, RunKeeps, ZenonT(30)
  <2>3. CASE /\ q # <<>> /\ proc' = AfterError(p)
             /\ queue' = [queue EXCEPT ![n] = Tail(q)]
             /\ skipped' = skipped \cup {Head(q)}
    <3>1. /\ Tail(q) \in Seq(Nat)
          /\ \A i \in DOMAIN q : (\E j \in DOMAIN Tail(q) : Tail(q)[j] = q[i]) \/ q[i] \in skipped'
      BY <1>2, <2>3, TailKeeps, Zenon
    <3> QED
      BY <1>1, <1>8, <2>0, <2>3, <3>1, RunKeeps, Zenon
  <2>4. CASE /\ q # <<>> /\ proc' = [proc EXCEPT ![p].run = "write", ![p].cur = Head(q)]
             /\ UNCHANGED <<queue, skipped>>
    <3> DEFINE r == [proc[p] EXCEPT !.run = "write", !.cur = Head(q)]
    <3>1. Head(q) \in Nat
      BY <1>2, <2>4
    <3>2. r \in ProcRecords /\ r.node = n /\ r.done = proc[p].done /\ r.run = "write" /\ r.cur = Head(q)
      BY <1>0, <3>1, Zenon DEF ProcRecords
    <3>3. proc' = [proc EXCEPT ![p] = r]
      BY <2>4, Zenon DEF IInv, TypeOK
    <3> HIDE DEF r
    <3> QED
      BY <1>1, <1>2, <1>3, <2>0, <2>4, <3>2, <3>3, RunKeeps, Zenon
  <2> QED
    BY <1>10, <2>1, <2>2, <2>3, <2>4 DEF RunRead
<1>11. CASE RunWriteFails(p)
  BY <1>1, <1>2, <1>3, <1>8, <1>11, RunKeeps, Zenon DEF RunWriteFails
<1>12. CASE RunWrite(p)
  <2> DEFINE r == [proc[p] EXCEPT !.run = "advance"]
  <2>1. /\ r \in ProcRecords /\ r.node = n /\ r.done = proc[p].done /\ r.run = "advance"
        /\ r.cur = proc[p].cur
    BY <1>0 DEF ProcRecords
  <2>2. proc' = [proc EXCEPT ![p] = r] /\ queue' = [queue EXCEPT ![n] = q]
    BY <1>3, <1>12 DEF RunWrite
  <2>3. q # <<>> /\ Head(q) = proc[p].cur
    BY <1>12 DEF RunWrite, IInv, SendsHead, Sending
  <2> HIDE DEF r
  <2> QED
    BY <1>1, <1>2, <1>12, <2>1, <2>2, <2>3, RunKeeps, ZenonT(30) DEF RunWrite
<1>13. CASE RunAdvance(p)
  <2> DEFINE r == [proc[p] EXCEPT !.run = "rlock", !.cur = None, !.wait = RetryInterval]
  <2>1. r \in ProcRecords /\ r.node = n /\ r.done = proc[p].done /\ r.run = "rlock"
    BY <1>0, Zenon DEF ProcRecords, None
  <2>2. proc' = [proc EXCEPT ![p] = r] /\ queue' = [queue EXCEPT ![n] = Tail(q)]
    BY <1>2, <1>13, Zenon DEF RunAdvance, IInv, TypeOK
  <2>3. q # <<>> /\ Head(q) \in delivered
    BY <1>13 DEF RunAdvance, IInv, SendsHead, Sending
  <2>4. /\ Tail(q) \in Seq(Nat)
        /\ \A i \in DOMAIN q : (\E j \in DOMAIN Tail(q) : Tail(q)[j] = q[i]) \/ q[i] \in delivered
    BY <1>2, <2>3, TailKeeps, Zenon
  <2> HIDE DEF r
  <2> QED
    BY <1>1, <1>13, <2>1, <2>2, <2>4, RunKeeps, Zenon DEF RunAdvance
<1> QED
  BY <1>5, <1>6, <1>7, <1>10, <1>11, <1>12, <1>13 DEF Run

-----------------------------------------------------------------------------
(* Service.Close, the purge loop and NodeProcessor.Close *)

\* A step of a thread that leaves the map and the queues alone, and of the objects
\* changes at most done: which it does not set back to nil while run goes on.
LEMMA ThreadKeeps ==
  ASSUME IInv, up, NEW t \in Threads, NEW x \in ThreadRecords, th' = [th EXCEPT ![t] = x],
         UNCHANGED <<queue, up, processors, wr, used, accepted, delivered, skipped, purged>>,
         proc' \in [Procs -> ProcRecords],
         \A q \in Procs : /\ proc'[q].node = proc[q].node /\ proc'[q].run = proc[q].run
                          /\ proc'[q].cur = proc[q].cur
                          /\ proc[q].done = "nil" => proc'[q].done = "nil"
                          /\ proc'[q].done = "nil" => proc[q].run = "none",
         x.pc \in {"each", "plock", "pwait", "pdone", "join"} =>
           /\ \A s \in Threads \ {t} : ~HoldsService(s)
           /\ x.todo \subseteq DOMAIN processors,
         x.pc \in {"plock", "pwait", "pdone"} =>
           /\ x.p \in 1 .. used
           /\ proc[x.p].node \in DOMAIN processors \ x.todo
           /\ processors[proc[x.p].node] = x.p,
         x.pc = "pdone" => proc'[x.p].done = "nil"
  PROVE  IInv'
<1>1. th'[t] = x /\ \A s \in Threads \ {t} : th'[s] = th[s]
  BY DEF IInv, TypeOK
<1>2. ASSUME NEW i \in 1 .. used
      PROVE  i \in Procs
  BY MadeIsProc, Zenon DEF IInv
<1>3. TypeOK'
  BY DEF IInv, TypeOK
<1>4. Down'
  BY DEF Down
<1>5. Exclusive'
  BY <1>1 DEF IInv, Exclusive, HoldsService
<1>6. Objects'
  <2>1. \A q \in Procs : Alive(q)' => Alive(q)
    BY DEF Alive
  <2>2. \A q \in Procs : q > used' => ~Alive(q)'
    BY <2>1 DEF IInv, Objects
  <2>3. \A m \in DOMAIN processors' :
          processors'[m] \in 1 .. used' /\ proc'[processors'[m]].node = m /\ m \in DOMAIN queue'
    BY <1>2 DEF IInv, Objects
  <2>4. \A q \in Procs : proc'[q].done = "nil" => proc'[q].run = "none"
    OBVIOUS
  <2>5. \A q \in Procs : Alive(q)' =>
          proc'[q].node \in DOMAIN processors' /\ processors'[proc'[q].node] = q
    BY <2>1 DEF IInv, Objects
  <2> QED
    BY <2>2, <2>3, <2>4, <2>5 DEF Objects
<1>7. LookedUp'
  <2> SUFFICES ASSUME NEW w \in Writers, wr[w].pc = "append"
               PROVE  wr[w].p \in 1 .. used /\ proc'[wr[w].p].node = wr[w].node
    BY Zenon DEF IInv, LookedUp
  <2> QED
    BY <1>2 DEF IInv, LookedUp
<1>8. Listed'
  <2> SUFFICES ASSUME NEW s \in Threads
               PROVE  /\ HoldsService(s)' => th'[s].todo \subseteq DOMAIN processors
                      /\ Closing(s)' => /\ th'[s].p \in 1 .. used
                                        /\ proc'[th'[s].p].node \in DOMAIN processors \ th'[s].todo
                                        /\ processors[proc'[th'[s].p].node] = th'[s].p
                      /\ th'[s].pc = "pdone" => proc'[th'[s].p].done = "nil"
    BY DEF Listed, Closing
  <2>1. CASE s = t
    <3>1. x.p \in 1 .. used => proc'[x.p].node = proc[x.p].node
      BY <1>2, Zenon
    <3> QED
      BY <1>1, <2>1, <3>1, Zenon DEF HoldsService, Closing
  <2>2. CASE s # t
    <3>1. th'[s] = th[s]
      BY <1>1, <2>2, Zenon
    <3>2. /\ HoldsService(s) => th[s].todo \subseteq DOMAIN processors
          /\ Closing(s) => /\ th[s].p \in 1 .. used
                           /\ proc[th[s].p].node \in DOMAIN processors \ th[s].todo
                           /\ processors[proc[th[s].p].node] = th[s].p
          /\ th[s].pc = "pdone" => proc[th[s].p].done = "nil"
      BY DEF IInv, Listed
    <3>3. Closing(s) => th[s].p \in Procs
      BY <1>2, <3>2
    <3> QED
      BY <3>1, <3>2, <3>3 DEF HoldsService, Closing
  <2> QED
    BY <2>1, <2>2, Zenon
<1>9. SendsHead' /\ AllKept'
  BY DEF IInv, SendsHead, Sending, AllKept, Kept
<1> QED
  BY <1>3, <1>4, <1>5, <1>6, <1>7, <1>8, <1>9 DEF IInv

\* A thread that has started runs in a process that is up.
LEMMA StartedUp ==
  ASSUME IInv, NEW t \in Threads, th[t].pc # "idle"
  PROVE  up
BY DEF IInv, Down, Idle

\* The steps of the two loops between the lock and the next processor to close.
LEMMA LoopStep ==
  ASSUME IInv,
         \/ CloseStart \/ PurgerTick \/ PurgerExit \/ PurgerDone \/ CloseWait \/ CloseDone
         \/ \E n \in Nodes : PurgerKeep(n)
         \/ \E t \in Threads : ServiceLock(t) \/ \E n \in Nodes : CloseNext(t, n)
  PROVE  IInv'
<1>0. "closer" \in Threads /\ "purger" \in Threads
  BY DEF Threads
<1>1. /\ \A t \in Threads : th[t] \in ThreadRecords
      /\ \A t \in Threads, c \in ThreadPCs :
           /\ [th[t] EXCEPT !.pc = c] \in ThreadRecords
           /\ [th[t] EXCEPT !.pc = c].pc = c
           /\ [th[t] EXCEPT !.pc = c].todo = th[t].todo
           /\ At(t, c) = [th EXCEPT ![t] = [th[t] EXCEPT !.pc = c]]
  BY Zenon DEF IInv, TypeOK, ThreadRecords, At
<1>2. ASSUME proc' = proc
      PROVE  /\ proc' \in [Procs -> ProcRecords]
             /\ \A q \in Procs : /\ proc'[q].node = proc[q].node /\ proc'[q].run = proc[q].run
                                 /\ proc'[q].cur = proc[q].cur
                                 /\ proc[q].done = "nil" => proc'[q].done = "nil"
                                 /\ proc'[q].done = "nil" => proc[q].run = "none"
  BY <1>2 DEF IInv, TypeOK, Objects
<1>3. ASSUME NEW t \in Threads, NEW c \in ThreadPCs, th' = At(t, c), up, ThreadFrame,
             UNCHANGED <<queue, processors, proc, purged>>,
             c \notin {"plock", "pwait", "pdone"}, c \in {"each", "join"} => HoldsService(t)
      PROVE  IInv'
  <2> DEFINE x == [th[t] EXCEPT !.pc = c]
  <2>1. x \in ThreadRecords /\ x.pc = c /\ x.todo = th[t].todo /\ th' = [th EXCEPT ![t] = x]
    BY <1>1, <1>3
  <2>2. HoldsService(t) => /\ th[t].todo \subseteq DOMAIN processors
                           /\ \A s \in Threads \ {t} : ~HoldsService(s)
    BY <1>3 DEF IInv, Listed, Exclusive
  <2>3. UNCHANGED <<queue, up, processors, wr, used, accepted, delivered, skipped, purged>> /\ proc' = proc
    BY <1>3, Zenon DEF ThreadFrame
  <2> HIDE DEF x
  <2> QED
    BY <1>2, <1>3, <2>1, <2>2, <2>3, ThreadKeeps, Zenon
<1>4. CASE CloseStart
  BY <1>0, <1>3, <1>4 DEF CloseStart, ThreadPCs
<1>5. CASE PurgerTick
  BY <1>0, <1>3, <1>5, StartedUp DEF PurgerTick, ThreadPCs
<1>6. CASE PurgerExit
  BY <1>0, <1>3, <1>6, StartedUp DEF PurgerExit, ThreadPCs
<1>7. CASE PurgerDone
  BY <1>0, <1>3, <1>7, StartedUp DEF PurgerDone, ThreadPCs
<1>8. CASE CloseWait
  BY <1>0, <1>3, <1>8, StartedUp DEF CloseWait, ThreadPCs, HoldsService
<1>9. CASE CloseDone
  BY <1>0, <1>3, <1>9, StartedUp DEF CloseDone, ThreadPCs
<1>10. ASSUME NEW n \in Nodes, PurgerKeep(n)
      PROVE  IInv'
  <2> DEFINE x == [th["purger"] EXCEPT !.todo = @ \ {n}]
  <2>1. x \in ThreadRecords /\ x.pc = "each" /\ x.todo \subseteq th["purger"].todo
    BY <1>0, <1>1, <1>10 DEF PurgerKeep, ThreadRecords
  <2>2. th' = [th EXCEPT !["purger"] = x]
    BY <1>10 DEF PurgerKeep
  <2>3. HoldsService("purger") /\ \A s \in Threads \ {"purger"} : ~HoldsService(s)
    BY <1>0, <1>10 DEF PurgerKeep, HoldsService, IInv, Exclusive
  <2>4. x.todo \subseteq DOMAIN processors
    BY <1>0, <2>1, <2>3 DEF IInv, Listed
  <2> HIDE DEF x
  <2> QED
    BY <1>0, <1>2, <1>10, <2>1, <2>2, <2>3, <2>4, StartedUp, ThreadKeeps, Zenon DEF PurgerKeep, ThreadFrame
<1>11. ASSUME NEW t \in Threads, ServiceLock(t)
       PROVE  IInv'
  <2> DEFINE x == [pc |-> "each", p |-> None, todo |-> DOMAIN processors]
  <2>1. x \in ThreadRecords /\ x.pc = "each" /\ x.todo = DOMAIN processors
    <3>1. DOMAIN processors \subseteq Nodes
      BY DEF IInv, TypeOK, Objects
    <3> QED
      BY <3>1 DEF ThreadRecords, ThreadPCs, None
  <2>2. th' = [th EXCEPT ![t] = x] /\ \A s \in Threads : ~HoldsService(s)
    BY <1>11 DEF ServiceLock, ServiceFree
  <2> HIDE DEF x
  <2> QED
    BY <1>2, <1>11, <2>1, <2>2, StartedUp, ThreadKeeps, Zenon DEF ServiceLock, ThreadFrame
<1>12. ASSUME NEW t \in Threads, NEW n \in Nodes, CloseNext(t, n)
       PROVE  IInv'
  <2> DEFINE x == [pc |-> "plock", p |-> processors[n], todo |-> th[t].todo \ {n}]
  <2>1. HoldsService(t) /\ \A s \in Threads \ {t} : ~HoldsService(s)
    BY <1>12, Zenon DEF CloseNext, HoldsService, IInv, Exclusive
  <2>2. n \in th[t].todo /\ n \in DOMAIN processors /\ th[t].todo \subseteq DOMAIN processors
    BY <1>12, <2>1 DEF CloseNext, IInv, Listed
  <2>3. processors[n] \in 1 .. used /\ proc[processors[n]].node = n
    BY <2>2 DEF IInv, Objects
  <2>4. /\ x \in ThreadRecords /\ x.pc = "plock" /\ x.p = processors[n]
        /\ x.todo = th[t].todo \ {n}
    <3>1. processors[n] \in Nat /\ th[t].todo \ {n} \in SUBSET Nodes
      BY <1>1, <2>3 DEF ThreadRecords, IInv, TypeOK
    <3> QED
      BY <3>1 DEF ThreadRecords, ThreadPCs
  <2>5. th' = [th EXCEPT ![t] = x]
    BY <1>12, Zenon DEF CloseNext, IInv, TypeOK
  <2> HIDE DEF x
  <2>6. /\ x.p \in 1 .. used
        /\ proc[x.p].node \in DOMAIN processors \ x.todo
        /\ processors[proc[x.p].node] = x.p
        /\ x.todo \subseteq DOMAIN processors
    BY <2>2, <2>3, <2>4
  <2>7. UNCHANGED <<queue, up, processors, wr, used, accepted, delivered, skipped, purged>> /\ proc' = proc
    BY <1>12, Zenon DEF CloseNext, ThreadFrame
  <2>8. up
    BY <1>12, StartedUp, Zenon DEF CloseNext
  <2> QED
    BY <1>2, <2>1, <2>4, <2>5, <2>6, <2>7, <2>8, ThreadKeeps, Zenon
<1> QED
  BY <1>4, <1>5, <1>6, <1>7, <1>8, <1>9, <1>10, <1>11, <1>12

\* NodeProcessor.Close.
LEMMA CloseStep ==
  ASSUME IInv, NEW t \in Threads, CloseLock(t) \/ CloseJoined(t)
  PROVE  IInv'
<1> DEFINE p == th[t].p
<1>1. th[t].pc \in {"plock", "pwait"} /\ th[t] \in ThreadRecords
  BY DEF CloseLock, CloseJoined, IInv, TypeOK
<1>2. up /\ HoldsService(t) /\ \A s \in Threads \ {t} : ~HoldsService(s)
  BY <1>1, StartedUp, Zenon DEF HoldsService, IInv, Exclusive
<1>3. /\ th[t].todo \subseteq DOMAIN processors
      /\ p \in 1 .. used /\ proc[p].node \in DOMAIN processors \ th[t].todo
      /\ processors[proc[p].node] = p
  BY <1>1, <1>2 DEF IInv, Listed, Closing
<1>4. p \in Procs
  BY <1>3, MadeIsProc, Zenon DEF IInv
<1>5. PICK c \in ThreadPCs, d \in {"nil", "closed"} :
        /\ th' = [th EXCEPT ![t] = [th[t] EXCEPT !.pc = c]]
        /\ proc' = [proc EXCEPT ![p] = [proc[p] EXCEPT !.done = d]]
        /\ c \in {"each", "pwait", "pdone"}
        /\ d = "nil" => proc[p].run = "none"
        /\ d = "closed" => proc[p].done # "nil"
        /\ c = "pdone" => d = "nil"
  <2>1. CASE CloseLock(t) /\ proc[p].done = "nil"
    <3>1. proc' = [proc EXCEPT ![p] = [proc[p] EXCEPT !.done = "nil"]]
      <4>1. [proc[p] EXCEPT !.done = "nil"] = proc[p]
        BY <1>4, <2>1, ZenonT(30) DEF IInv, TypeOK, ProcRecords
      <4>2. proc' = proc /\ proc = [proc EXCEPT ![p] = proc[p]]
        BY <2>1 DEF CloseLock, IInv, TypeOK
      <4> QED
        BY <4>1, <4>2
    <3>2. proc[p].run = "none"
      BY <1>4, <2>1, Zenon DEF IInv, Objects
    <3> QED
      BY <2>1, <3>1, <3>2 DEF CloseLock, At, ThreadPCs
  <2>2. CASE CloseLock(t) /\ proc[p].done # "nil"
    BY <2>2 DEF CloseLock, At, ThreadPCs
  <2>3. CASE CloseJoined(t)
    BY <2>3, Zenon DEF CloseJoined, At, ThreadPCs
  <2> QED
    BY <2>1, <2>2, <2>3
<1> DEFINE x == [th[t] EXCEPT !.pc = c]
<1>6. x \in ThreadRecords /\ x.pc = c /\ x.p = p /\ x.todo = th[t].todo
  BY <1>1 DEF ThreadRecords
<1>7. /\ proc' \in [Procs -> ProcRecords]
      /\ \A q \in Procs : /\ proc'[q].node = proc[q].node /\ proc'[q].run = proc[q].run
                          /\ proc'[q].cur = proc[q].cur
                          /\ q # p => proc'[q].done = proc[q].done
      /\ proc'[p].done = d
  <2> DEFINE r == [proc[p] EXCEPT !.done = d]
  <2>1. /\ r \in ProcRecords /\ r.node = proc[p].node /\ r.run = proc[p].run /\ r.cur = proc[p].cur
        /\ r.done = d
    BY <1>4, ZenonT(30) DEF IInv, TypeOK, ProcRecords
  <2>2. proc' = [proc EXCEPT ![p] = r]
    BY <1>5
  <2> HIDE DEF r
  <2> QED
    BY <1>4, <2>1, <2>2 DEF IInv, TypeOK
<1>8. \A q \in Procs : /\ proc[q].done = "nil" => proc'[q].done = "nil"
                       /\ proc'[q].done = "nil" => proc[q].run = "none"
  BY <1>5, <1>7 DEF IInv, Objects
<1>9. UNCHANGED <<queue, up, processors, wr, used, accepted, delivered, skipped, purged>>
  BY DEF CloseLock, CloseJoined, ThreadFrame
<1>10. th' = [th EXCEPT ![t] = x]
  BY <1>5
<1> HIDE DEF x
<1>11. /\ x.p \in 1 .. used
       /\ proc[x.p].node \in DOMAIN processors \ x.todo
       /\ processors[proc[x.p].node] = x.p
       /\ x.todo \subseteq DOMAIN processors
       /\ x.pc = "pdone" => proc'[x.p].done = "nil"
  BY <1>3, <1>5, <1>6, <1>7
<1> QED
  BY <1>2, <1>6, <1>7, <1>8, <1>9, <1>10, <1>11, ThreadKeeps, Zenon

\* The purge loop removes a directory whose processor was closed: no other is alive
\* for that node, and what the queue held counts as purged.
LEMMA DeleteStep ==
  ASSUME IInv, PurgerDelete
  PROVE  IInv'
<1> DEFINE p == th["purger"].p
           n == proc[p].node
<1>0. "purger" \in Threads /\ th["purger"] \in ThreadRecords
  BY DEF Threads, IInv, TypeOK
<1>1. /\ HoldsService("purger") /\ Closing("purger") /\ th["purger"].pc = "pdone"
      /\ \A s \in Threads \ {"purger"} : ~HoldsService(s)
      /\ up
  BY <1>0, StartedUp DEF PurgerDelete, HoldsService, Closing, IInv, Exclusive
<1>2. /\ th["purger"].todo \subseteq DOMAIN processors
      /\ p \in 1 .. used /\ n \in DOMAIN processors \ th["purger"].todo
      /\ processors[n] = p /\ proc[p].done = "nil"
  BY <1>0, <1>1 DEF IInv, Listed
<1>3. p \in Procs /\ ~Alive(p)
  BY <1>2, MadeIsProc, Zenon DEF IInv, Objects, Alive
<1>4. /\ UNCHANGED <<proc, up, wr, used, accepted, delivered, skipped>>
      /\ DOMAIN queue' = DOMAIN queue \ {n}
      /\ \A m \in DOMAIN queue' : queue'[m] = queue[m]
      /\ DOMAIN processors' = DOMAIN processors \ {n}
      /\ \A m \in DOMAIN processors' : processors'[m] = processors[m]
      /\ purged' = purged \cup {queue[n][k] : k \in DOMAIN queue[n]}
  BY Zenon DEF PurgerDelete, ThreadFrame
<1>5. /\ th' \in [Threads -> ThreadRecords] /\ th'["purger"].pc = "each"
      /\ th'["purger"].todo = th["purger"].todo
      /\ \A s \in Threads \ {"purger"} : th'[s] = th[s]
  <2> DEFINE x == [th["purger"] EXCEPT !.pc = "each"]
  <2>1. x \in ThreadRecords /\ x.pc = "each" /\ x.todo = th["purger"].todo
    BY <1>0 DEF ThreadRecords, ThreadPCs
  <2>2. th' = [th EXCEPT !["purger"] = x]
    BY DEF PurgerDelete, At
  <2> HIDE DEF x
  <2> QED
    BY <1>0, <2>1, <2>2 DEF IInv, TypeOK
<1>6. \A q \in Procs : Alive(q) => /\ proc[q].node \in DOMAIN processors' /\ processors'[proc[q].node] = q
                                   /\ proc[q].node \in DOMAIN queue'
  <2> SUFFICES ASSUME NEW q \in Procs, Alive(q)
               PROVE  /\ proc[q].node \in DOMAIN processors' /\ processors'[proc[q].node] = q
                      /\ proc[q].node \in DOMAIN queue'
    OBVIOUS
  <2>1. proc[q].node \in DOMAIN processors /\ processors[proc[q].node] = q /\ proc[q].node \in DOMAIN queue
    BY AliveHasQueue DEF IInv
  <2>2. proc[q].node # n
    BY <1>2, <1>3, <2>1
  <2> QED
    BY <1>4, <2>1, <2>2, Zenon
<1>7. TypeOK'
  <2>1. queue' = [m \in DOMAIN queue' |-> queue'[m]] /\ processors' = [m \in DOMAIN processors' |-> processors'[m]]
    BY Zenon DEF PurgerDelete
  <2> QED
    BY <1>4, <1>5, <2>1, Zenon DEF IInv, TypeOK
<1>8. Down' /\ Exclusive'
  BY <1>1, <1>4, <1>5, Zenon DEF Down, Exclusive, HoldsService
<1>9. Objects'
  <2>1. \A q \in Procs : Alive(q)' <=> Alive(q)
    BY <1>4, Zenon DEF Alive
  <2>2. \A m \in DOMAIN processors' :
          processors'[m] \in 1 .. used' /\ proc'[processors'[m]].node = m /\ m \in DOMAIN queue'
    BY <1>4, Zenon DEF IInv, Objects
  <2> QED
    BY <1>4, <1>6, <2>1, <2>2, Zenon DEF IInv, Objects
<1>10. LookedUp'
  BY <1>4, Zenon DEF IInv, LookedUp
<1>11. Listed'
  <2>1. \A s \in Threads \ {"purger"} : ~HoldsService(s)' /\ ~Closing(s)' /\ th'[s].pc # "pdone"
    BY <1>1, <1>5 DEF HoldsService, Closing
  <2>2. th'["purger"].todo \subseteq DOMAIN processors' /\ ~Closing("purger")' /\ th'["purger"].pc # "pdone"
    BY <1>2, <1>4, <1>5, Zenon DEF Closing
  <2> QED
    BY <2>1, <2>2 DEF Listed
<1>12. SendsHead'
  <2> SUFFICES ASSUME NEW q \in Procs, Sending(q)
               PROVE  queue'[proc[q].node] = queue[proc[q].node]
    BY <1>4, Zenon DEF IInv, SendsHead, Sending
  <2>1. Alive(q)
    BY DEF Alive, Sending
  <2> QED
    BY <1>4, <1>6, <2>1, Zenon
<1>13. AllKept'
  <2> SUFFICES ASSUME NEW h \in 1 .. accepted
               PROVE  Kept(h)'
    BY <1>4 DEF AllKept
  <2>1. CASE h \in delivered \/ h \in skipped \/ h \in purged
    BY <1>4, <2>1, Zenon DEF Kept
  <2>2. ASSUME NEW m \in DOMAIN queue, NEW k \in DOMAIN queue[m], queue[m][k] = h
        PROVE  Kept(h)'
    <3>1. CASE m = n
      BY <1>4, <2>2, <3>1, Zenon DEF Kept
    <3>2. CASE m # n
      BY <1>4, <2>2, <3>2, Zenon DEF Kept
    <3> QED
      BY <3>1, <3>2, Zenon
  <2> QED
    BY <2>1, <2>2, Zenon DEF IInv, AllKept, Kept
<1> QED
  BY <1>7, <1>8, <1>9, <1>10, <1>11, <1>12, <1>13 DEF IInv

-----------------------------------------------------------------------------
(* Service.WriteShard *)

LEMMA LookupStep ==
  ASSUME IInv, NEW w \in Writers, NEW n \in Nodes, WriteLookup(w, n)
  PROVE  IInv'
<1>1. UNCHANGED <<queue, up, processors, proc, th, used, accepted, delivered, skipped, purged>> /\ up
  BY DEF WriteLookup, ghosts
<1>2. PICK x \in WriterRecords : /\ wr' = [wr EXCEPT ![w] = x] /\ x.node = n
                                 /\ x.pc = "append" => n \in DOMAIN processors /\ x.p = processors[n]
  <2>1. CASE n \in DOMAIN processors
    <3>1. processors[n] \in Nat
      BY <2>1 DEF IInv, Objects, TypeOK
    <3>2. [pc |-> "append", node |-> n, p |-> processors[n]] \in WriterRecords
      BY <3>1 DEF WriterRecords
    <3> QED
      BY <2>1, <3>2, Zenon DEF WriteLookup
  <2>2. CASE n \notin DOMAIN processors
    <3>1. [pc |-> "create", node |-> n, p |-> None] \in WriterRecords
      BY DEF WriterRecords, None
    <3> QED
      BY <2>2, <3>1, Zenon DEF WriteLookup
  <2> QED
    BY <2>1, <2>2
<1>3. TypeOK'
  BY <1>1, <1>2, Zenon DEF IInv, TypeOK
<1>4. LookedUp'
  <2>1. wr'[w] = x /\ \A v \in Writers \ {w} : wr'[v] = wr[v]
    BY <1>2 DEF IInv, TypeOK
  <2>2. n \in DOMAIN processors => processors[n] \in 1 .. used /\ proc[processors[n]].node = n
    BY DEF IInv, Objects
  <2> QED
    BY <1>1, <1>2, <2>1, <2>2 DEF IInv, LookedUp
<1>5. Down' /\ Exclusive' /\ Objects'
  BY <1>1, Zenon DEF IInv, Down, Exclusive, HoldsService, Objects, Alive
<1>6. Listed' /\ SendsHead' /\ AllKept'
  BY <1>1, Zenon DEF IInv, Listed, Closing, HoldsService, SendsHead, Sending, AllKept, Kept
<1> QED
  BY <1>3, <1>4, <1>5, <1>6 DEF IInv

\* The processor that is made is a new object, for a node that had none.
LEMMA CreateStep ==
  ASSUME IInv, NEW w \in Writers, WriteCreate(w)
  PROVE  IInv'
<1> DEFINE n == wr[w].node
           p == used + 1
<1>0. /\ n \in Nodes /\ wr[w] \in WriterRecords /\ wr[w].pc = "create"
      /\ \A t \in Threads : ~HoldsService(t)
      /\ UNCHANGED <<up, th, accepted, delivered, skipped, purged>>
  BY DEF WriteCreate, ghosts, IInv, LookedUp, TypeOK, ServiceFree
<1>1. up
  BY <1>0 DEF IInv, Down, Returned
<1>2. CASE n \in DOMAIN processors
  <2> DEFINE x == [wr[w] EXCEPT !.pc = "append", !.p = processors[n]]
  <2>1. wr' = [wr EXCEPT ![w] = x] /\ UNCHANGED <<queue, processors, proc, used>>
    BY <1>2, Zenon DEF WriteCreate
  <2>2. processors[n] \in 1 .. used /\ proc[processors[n]].node = n /\ processors[n] \in Nat
    BY <1>2 DEF IInv, Objects, TypeOK
  <2>3. x \in WriterRecords /\ x.pc = "append" /\ x.node = n /\ x.p = processors[n]
    BY <1>0, <2>2, ZenonT(30) DEF WriterRecords
  <2> HIDE DEF x
  <2>4. wr'[w] = x /\ \A v \in Writers \ {w} : wr'[v] = wr[v]
    BY <2>1 DEF IInv, TypeOK
  <2>5. TypeOK'
    BY <1>0, <2>1, <2>3 DEF IInv, TypeOK
  <2>6. LookedUp'
    BY <1>0, <2>1, <2>2, <2>3, <2>4, SMTT(30) DEF IInv, LookedUp
  <2>7. Down' /\ Exclusive' /\ Objects'
    BY <1>0, <1>1, <2>1, Zenon DEF IInv, Down, Exclusive, HoldsService, Objects, Alive
  <2>8. Listed' /\ SendsHead' /\ AllKept'
    BY <1>0, <2>1 DEF IInv, Listed, Closing, HoldsService, SendsHead, Sending, AllKept, Kept
  <2> QED
    BY <2>5, <2>6, <2>7, <2>8 DEF IInv
<1>3. CASE n \notin DOMAIN processors
  <2> DEFINE x == [wr[w] EXCEPT !.pc = "append", !.p = p]
  <2>1. /\ wr' = [wr EXCEPT ![w] = x] /\ p \in Procs /\ used' = p
        /\ proc' = [proc EXCEPT ![p] = Opened(n)]
        /\ processors' = Put(processors, n, p)
        /\ queue' = Put(queue, n, IF n \in DOMAIN queue THEN queue[n] ELSE <<>>)
    BY <1>3, Zenon DEF WriteCreate
  <2>2. used \in Nat /\ p \in Nat
    BY DEF IInv, TypeOK
  <2>3. x \in WriterRecords /\ x.pc = "append" /\ x.node = n /\ x.p = p
    BY <1>0, <2>2, ZenonT(30) DEF WriterRecords
  <2> HIDE DEF x
  <2>4. wr'[w] = x /\ \A v \in Writers \ {w} : wr'[v] = wr[v]
    BY <2>1 DEF IInv, TypeOK
  <2>5. /\ Opened(n) \in ProcRecords /\ Opened(n).node = n /\ Opened(n).done = "open"
        /\ Opened(n).run = "select"
    BY <1>0, ServiceBounds, Zenon DEF Opened, ProcRecords, Shorter, None
  <2>6. /\ proc' \in [Procs -> ProcRecords] /\ proc'[p] = Opened(n)
        /\ \A q \in Procs \ {p} : proc'[q] = proc[q]
    BY <2>1, <2>5 DEF IInv, TypeOK
  <2>7. /\ DOMAIN processors' = DOMAIN processors \cup {n} /\ processors'[n] = p
        /\ \A m \in DOMAIN processors : processors'[m] = processors[m]
        /\ processors' = [m \in DOMAIN processors' |-> processors'[m]]
    BY <1>3, <2>1 DEF Put
  <2>8. /\ DOMAIN queue' = DOMAIN queue \cup {n}
        /\ \A m \in DOMAIN queue : queue'[m] = queue[m]
        /\ n \notin DOMAIN queue => queue'[n] = <<>>
        /\ queue' = [m \in DOMAIN queue' |-> queue'[m]]
    BY <2>1, Zenon DEF Put
  <2>9. TypeOK'
    <3>1. DOMAIN queue' \in SUBSET Nodes /\ \A m \in DOMAIN queue' : queue'[m] \in Seq(Nat)
      <4>1. DOMAIN queue \in SUBSET Nodes /\ \A m \in DOMAIN queue : queue[m] \in Seq(Nat)
        BY DEF IInv, TypeOK
      <4>2. ASSUME NEW m \in DOMAIN queue'
            PROVE  queue'[m] \in Seq(Nat)
        <5>1. CASE m \in DOMAIN queue
          BY <2>8, <4>1, <5>1
        <5>2. CASE m \notin DOMAIN queue
          <6>1. m = n /\ queue'[m] = <<>>
            BY <2>8, <4>2, <5>2
          <6> QED
            BY <6>1
        <5> QED
          BY <5>1, <5>2
      <4> QED
        BY <1>0, <2>8, <4>1, <4>2
    <3>2. used' \in 0 .. MaxProcs
      BY <2>1, <2>2, ServiceBounds DEF Procs
    <3> QED
      BY <1>0, <2>1, <2>3, <2>6, <2>7, <2>8, <3>1, <3>2 DEF IInv, TypeOK
  <2>10. Down' /\ Exclusive'
    BY <1>0, <1>1 DEF IInv, Down, Exclusive, HoldsService
  <2>11. ASSUME NEW i \in 1 .. used
         PROVE  i \in Procs /\ proc'[i] = proc[i] /\ i \in 1 .. used'
    <3>1. i \in Procs
      BY MadeIsProc, Zenon DEF IInv
    <3>2. i \in 1 .. used' /\ i # p
      BY <2>1, <2>2
    <3> QED
      BY <2>6, <3>1, <3>2, Zenon
  <2>12. Objects'
    <3>1. \A q \in Procs : q > used' => ~Alive(q)'
      BY <2>1, <2>2, <2>6, SMTT(30) DEF IInv, Objects, Alive, Procs
    <3>2. \A m \in DOMAIN processors' :
            processors'[m] \in 1 .. used' /\ proc'[processors'[m]].node = m /\ m \in DOMAIN queue'
      <4> SUFFICES ASSUME NEW m \in DOMAIN processors'
                   PROVE  processors'[m] \in 1 .. used' /\ proc'[processors'[m]].node = m /\ m \in DOMAIN queue'
        BY Zenon
      <4>1. CASE m = n
        BY <2>1, <2>2, <2>5, <2>6, <2>7, <2>8, <4>1
      <4>2. CASE m # n
        <5>1. m \in DOMAIN processors /\ processors'[m] = processors[m]
          BY <2>7, <4>2, Zenon
        <5>2. processors[m] \in 1 .. used /\ proc[processors[m]].node = m /\ m \in DOMAIN queue
          BY <5>1 DEF IInv, Objects
        <5> QED
          BY <2>8, <2>11, <5>1, <5>2
      <4> QED
        BY <4>1, <4>2
    <3>3. \A q \in Procs : proc'[q].done = "nil" => proc'[q].run = "none"
      BY <2>5, <2>6 DEF IInv, Objects
    <3>4. \A q \in Procs : Alive(q)' =>
            proc'[q].node \in DOMAIN processors' /\ processors'[proc'[q].node] = q
      <4> SUFFICES ASSUME NEW q \in Procs, Alive(q)'
                   PROVE  proc'[q].node \in DOMAIN processors' /\ processors'[proc'[q].node] = q
        OBVIOUS
      <4>1. CASE q = p
        BY <2>5, <2>6, <2>7, <4>1
      <4>2. CASE q # p
        BY <2>6, <2>7, <4>2 DEF IInv, Objects, Alive
      <4> QED
        BY <4>1, <4>2
    <3> QED
      BY <3>1, <3>2, <3>3, <3>4, Zenon DEF Objects
  <2>13. LookedUp'
    <3> SUFFICES ASSUME NEW v \in Writers
                 PROVE  /\ wr'[v].pc # "idle" => wr'[v].node \in Nodes
                        /\ wr'[v].pc = "append" => wr'[v].p \in 1 .. used' /\ proc'[wr'[v].p].node = wr'[v].node
      BY Zenon DEF LookedUp
    <3>1. CASE v = w
      <4>1. p \in 1 .. used' /\ p \in Procs
        BY <2>1, <2>2
      <4>2. proc'[p].node = n
        BY <2>5, <2>6, <4>1
      <4> QED
        BY <1>0, <2>3, <2>4, <3>1, <4>1, <4>2, Zenon
    <3>2. CASE v # w
      BY <2>4, <2>11, <3>2, Zenon DEF IInv, LookedUp
    <3> QED
      BY <3>1, <3>2
  <2>14. Listed'
    BY <1>0, Zenon DEF Listed, Closing, HoldsService
  <2>15. SendsHead'
    <3> SUFFICES ASSUME NEW q \in Procs
                 PROVE  /\ Sending(q)' => queue'[proc'[q].node] # <<>> /\ Head(queue'[proc'[q].node]) = proc'[q].cur
                        /\ proc'[q].run = "advance" => proc'[q].cur \in delivered'
      BY Zenon DEF SendsHead, Sending
    <3>1. CASE q = p
      BY <2>5, <2>6, <3>1 DEF Sending
    <3>2. CASE q # p /\ Sending(q)
      <4>1. Alive(q)
        BY <3>2 DEF Alive, Sending
      <4>2. proc[q].node \in DOMAIN queue
        BY <4>1, AliveHasQueue DEF IInv
      <4> QED
        BY <1>0, <2>6, <2>8, <3>2, <4>2 DEF IInv, SendsHead, Sending
    <3>3. CASE q # p /\ ~Sending(q)
      BY <2>6, <3>3 DEF Sending
    <3> QED
      BY <3>1, <3>2, <3>3, Zenon
  <2>16. AllKept'
    BY <1>0, <2>8, SMTT(30) DEF IInv, AllKept, Kept
  <2> QED
    BY <2>9, <2>10, <2>12, <2>13, <2>14, <2>15, <2>16 DEF IInv
<1> QED
  BY <1>2, <1>3

\* A hint is appended through the processor looked up earlier: if it is not closed it is
\* still the one in the map, and the queue is there.
LEMMA AppendStep ==
  ASSUME IInv, NEW w \in Writers, WriteAppend(w)
  PROVE  IInv'
<1> DEFINE p == wr[w].p
           n == wr[w].node
<1>0. /\ p \in 1 .. used /\ proc[p].node = n /\ wr[w].pc = "append"
      /\ UNCHANGED <<up, processors, proc, th, used, delivered, skipped, purged>>
  BY Zenon DEF WriteAppend, IInv, LookedUp
<1>1. p \in Procs /\ up /\ accepted \in Nat
  <2>1. p \in Procs
    BY <1>0, MadeIsProc, Zenon DEF IInv
  <2>2. up /\ accepted \in Nat
    BY <1>0 DEF IInv, TypeOK, Down, Returned
  <2> QED
    BY <2>1, <2>2
<1>2. /\ wr' \in [Writers -> WriterRecords] /\ wr'[w] = Returned
      /\ \A v \in Writers \ {w} : wr'[v] = wr[v]
  BY Zenon DEF WriteAppend, IInv, TypeOK, WriterRecords, Returned, None
<1>3. LookedUp'
  <2>1. wr'[w].pc = "idle"
    BY <1>2 DEF Returned
  <2> QED
    BY <1>0, <1>2, <2>1, Zenon DEF IInv, LookedUp
<1>4. Down' /\ Exclusive' /\ Listed'
  BY <1>0, <1>1, Zenon DEF IInv, Down, Exclusive, HoldsService, Listed, Closing
<1>5. CASE UNCHANGED <<queue, accepted>>
  <2>1. TypeOK'
    BY <1>0, <1>2, <1>5, Zenon DEF IInv, TypeOK
  <2>2. Objects' /\ SendsHead' /\ AllKept'
    BY <1>0, <1>5 DEF IInv, Objects, Alive, SendsHead, Sending, AllKept, Kept
  <2> QED
    BY <1>3, <1>4, <2>1, <2>2 DEF IInv
<1>6. CASE /\ proc[p].done # "nil" /\ accepted' = accepted + 1
           /\ queue' = [queue EXCEPT ![n] = Append(@, accepted + 1)]
  <2>1. n \in DOMAIN queue /\ queue[n] \in Seq(Nat)
    BY <1>0, <1>1, <1>6, AliveHasQueue DEF IInv, Alive
  <2> DEFINE s == Append(queue[n], accepted + 1)
  <2>2. /\ s \in Seq(Nat) /\ s # <<>> /\ Len(s) = Len(queue[n]) + 1
        /\ s[Len(queue[n]) + 1] = accepted + 1
        /\ \A k \in 1 .. Len(queue[n]) : s[k] = queue[n][k]
        /\ queue[n] # <<>> => Head(s) = Head(queue[n])
    BY <1>1, <2>1
  <2>3. queue' = [queue EXCEPT ![n] = s]
    BY <1>6, <2>1 DEF IInv, TypeOK
  <2> HIDE DEF s
  <2>4. /\ DOMAIN queue' = DOMAIN queue /\ queue'[n] = s
        /\ \A m \in DOMAIN queue \ {n} : queue'[m] = queue[m]
    BY <2>1, <2>3, Zenon DEF IInv, TypeOK
  <2>5. TypeOK'
    <3>1. queue' = [m \in DOMAIN queue' |-> queue'[m]]
      BY <2>3, ZenonT(30) DEF IInv, TypeOK
    <3>2. \A m \in DOMAIN queue' : queue'[m] \in Seq(Nat)
      BY <2>2, <2>4, Zenon DEF IInv, TypeOK
    <3> QED
      BY <1>0, <1>1, <1>2, <1>6, <2>4, <3>1, <3>2 DEF IInv, TypeOK
  <2>6. Objects'
    BY <1>0, <2>4, Zenon DEF IInv, Objects, Alive
  <2>7. SendsHead'
    <3> SUFFICES ASSUME NEW q \in Procs, Sending(q)
                 PROVE  queue'[proc[q].node] # <<>> /\ Head(queue'[proc[q].node]) = proc[q].cur
      BY <1>0, Zenon DEF IInv, SendsHead, Sending
    <3>1. queue[proc[q].node] # <<>> /\ Head(queue[proc[q].node]) = proc[q].cur
      BY DEF IInv, SendsHead
    <3>2. proc[q].node \in DOMAIN queue
      BY AliveHasQueue DEF IInv, Alive, Sending
    <3> QED
      BY <2>2, <2>4, <3>1, <3>2, Zenon
  <2>8. AllKept'
    <3>0. DOMAIN queue[n] = 1 .. Len(queue[n]) /\ Len(queue[n]) \in Nat /\ DOMAIN s = 1 .. Len(s)
      BY <2>1, <2>2
    <3>1. \A k \in DOMAIN queue[n] : k \in DOMAIN s /\ s[k] = queue[n][k]
      BY <2>2, <3>0
    <3>2. Len(queue[n]) + 1 \in DOMAIN s
      BY <2>2, <3>0
    <3> SUFFICES ASSUME NEW h \in 1 .. accepted + 1
                 PROVE  Kept(h)'
      BY <1>6 DEF AllKept
    <3>3. CASE h = accepted + 1
      BY <2>1, <2>2, <2>4, <3>2, <3>3 DEF Kept
    <3>4. CASE h \in 1 .. accepted
      <4>1. CASE h \in delivered \/ h \in skipped \/ h \in purged
        BY <1>0, <4>1 DEF Kept
      <4>2. ASSUME NEW m \in DOMAIN queue, NEW k \in DOMAIN queue[m], queue[m][k] = h
            PROVE  Kept(h)'
        <5>1. CASE m = n
          BY <2>4, <3>1, <4>2, <5>1 DEF Kept
        <5>2. CASE m # n
          BY <2>4, <4>2, <5>2 DEF Kept
        <5> QED
          BY <5>1, <5>2
      <4> QED
        BY <3>4, <4>1, <4>2 DEF IInv, AllKept, Kept
    <3> QED
      BY <1>1, <3>3, <3>4
  <2> QED
    BY <1>3, <1>4, <2>5, <2>6, <2>7, <2>8, Zenon DEF IInv
<1> QED
  BY <1>5, <1>6, Zenon DEF WriteAppend

-----------------------------------------------------------------------------
(* Start and stop *)

LEMMA OpenStep ==
  ASSUME IInv, ServiceOpen
  PROVE  IInv'
<1> DEFINE D == DOMAIN queue
<1>1. PICK count \in 0 .. MaxProcs : \E number \in [D -> 1 .. count] :
        LET nodeOf(p) == {n \in D : number[n] = p}
        IN  /\ \A m, n \in D : number[m] = number[n] => m = n
            /\ processors' = number
            /\ proc' = [p \in Procs |-> IF nodeOf(p) = {} THEN Free ELSE Opened(CHOOSE n \in nodeOf(p) : TRUE)]
            /\ used' = count
  BY DEF ServiceOpen
<1>2. PICK number \in [D -> 1 .. count] :
        LET nodeOf(p) == {n \in D : number[n] = p}
        IN  /\ \A m, n \in D : number[m] = number[n] => m = n
            /\ processors' = number
            /\ proc' = [p \in Procs |-> IF nodeOf(p) = {} THEN Free ELSE Opened(CHOOSE n \in nodeOf(p) : TRUE)]
            /\ used' = count
  BY <1>1
<1> DEFINE nodeOf(p) == {n \in D : number[n] = p}
<1>3. /\ ~up /\ up' = TRUE /\ th' = At("purger", "select")
      /\ UNCHANGED <<queue, wr, accepted, delivered, skipped, purged>>
      /\ D \in SUBSET Nodes
  BY DEF ServiceOpen, ghosts, IInv, TypeOK
<1>4. th = [t \in Threads |-> Idle] /\ wr = [w \in Writers |-> Returned]
  BY <1>3 DEF IInv, Down
<1>5. ASSUME NEW n \in D
      PROVE  number[n] \in 1 .. count /\ number[n] \in Procs
  BY <1>5, ServiceBounds DEF Procs
<1>6. \A n \in D : nodeOf(number[n]) = {n}
  BY <1>2
<1>7. \A n \in D : proc'[number[n]] = Opened(n)
  <2> SUFFICES ASSUME NEW n \in D
               PROVE  proc'[number[n]] = Opened(n)
    OBVIOUS
  <2>1. nodeOf(number[n]) # {} /\ (CHOOSE m \in nodeOf(number[n]) : TRUE) = n
    BY <1>6
  <2> QED
    BY <1>2, <1>5, <2>1
<1>8. \A p \in Procs : proc'[p] = Free \/ \E n \in D : p = number[n] /\ proc'[p] = Opened(n)
  <2> SUFFICES ASSUME NEW p \in Procs, nodeOf(p) # {}
               PROVE  \E n \in D : p = number[n] /\ proc'[p] = Opened(n)
    BY <1>2
  <2>1. PICK n \in D : p = number[n]
    BY Zenon
  <2> QED
    BY <1>7, <2>1
<1> HIDE DEF nodeOf
<1>9. /\ \A n \in D : /\ Opened(n) \in ProcRecords /\ Opened(n).node = n
                      /\ Opened(n).done = "open" /\ Opened(n).run = "select"
      /\ Free \in ProcRecords /\ Free.done = "nil" /\ Free.run = "none"
  BY <1>3, ServiceBounds DEF Opened, Free, ProcRecords, Shorter, None
<1>10. \A s \in Threads : th'[s].pc \in {"idle", "select"}
  BY <1>3, <1>4 DEF At, Idle
<1>11. TypeOK'
  <2>1. proc' \in [Procs -> ProcRecords]
    <3>1. \A p \in Procs : proc'[p] \in ProcRecords
      BY <1>8, <1>9
    <3>2. proc' = [p \in Procs |-> proc'[p]]
      BY <1>2
    <3> QED
      BY <3>1, <3>2
  <2>2. th' \in [Threads -> ThreadRecords]
    <3> DEFINE x == [Idle EXCEPT !.pc = "select"]
    <3>1. x \in ThreadRecords /\ Idle \in ThreadRecords
      BY DEF Idle, ThreadRecords, ThreadPCs, None
    <3>2. th' = [th EXCEPT !["purger"] = x]
      BY <1>3, <1>4 DEF At, Threads
    <3> HIDE DEF x
    <3> QED
      BY <1>4, <3>1, <3>2, ZenonT(30)
  <2>3. processors' = [n \in DOMAIN processors' |-> processors'[n]]
    BY <1>2, <1>3
  <2>4. used' \in 0 .. MaxProcs
    BY <1>2, Zenon
  <2> QED
    BY <1>3, <2>1, <2>2, <2>3, <2>4, Zenon DEF IInv, TypeOK
<1>12. Down' /\ Exclusive' /\ Listed'
  BY <1>3, <1>10 DEF Down, Exclusive, HoldsService, Listed, Closing
<1>13. Objects'
  <2>1. DOMAIN processors' = D /\ DOMAIN queue' = D /\ processors' = number /\ used' = count
    BY <1>2, <1>3
  <2>2. \A p \in Procs : p > used' => ~Alive(p)'
    BY <1>1, <1>5, <1>8, <1>9, <2>1 DEF Alive
  <2>3. \A n \in DOMAIN processors' :
          processors'[n] \in 1 .. used' /\ proc'[processors'[n]].node = n /\ n \in DOMAIN queue'
    BY <1>5, <1>7, <1>9, <2>1
  <2>4. \A p \in Procs : proc'[p].done = "nil" => proc'[p].run = "none"
    BY <1>8, <1>9
  <2>5. \A p \in Procs : Alive(p)' =>
          proc'[p].node \in DOMAIN processors' /\ processors'[proc'[p].node] = p
    BY <1>8, <1>9, <2>1 DEF Alive
  <2> QED
    BY <2>2, <2>3, <2>4, <2>5 DEF Objects
<1>14. LookedUp'
  BY <1>3, <1>4, Zenon DEF LookedUp, Returned
<1>15. SendsHead'
  BY <1>8, <1>9 DEF SendsHead, Sending
<1>16. AllKept'
  BY <1>3 DEF IInv, AllKept, Kept
<1> QED
  BY <1>11, <1>12, <1>13, <1>14, <1>15, <1>16 DEF IInv

\* What a stopped process leaves: the queues, and no object or goroutine.
LEMMA Stopped ==
  ASSUME ~up', processors' = [n \in {} |-> None], proc' = [p \in Procs |-> Free],
         th' = [t \in Threads |-> Idle], wr' = [w \in Writers |-> Returned], used' = 0
  PROVE  /\ processors' = [n \in DOMAIN processors' |-> processors'[n]]
         /\ proc' \in [Procs -> ProcRecords] /\ th' \in [Threads -> ThreadRecords]
         /\ wr' \in [Writers -> WriterRecords] /\ used' \in 0 .. MaxProcs
         /\ Down' /\ Exclusive' /\ Objects' /\ LookedUp' /\ Listed' /\ SendsHead'
<1>1. Free \in ProcRecords /\ Idle \in ThreadRecords /\ Returned \in WriterRecords
  BY DEF Free, Idle, Returned, ProcRecords, ThreadRecords, ThreadPCs, WriterRecords, None
<1>2. /\ proc' \in [Procs -> ProcRecords] /\ th' \in [Threads -> ThreadRecords]
      /\ wr' \in [Writers -> WriterRecords] /\ used' \in 0 .. MaxProcs
      /\ DOMAIN processors' = {} /\ processors' = [n \in DOMAIN processors' |-> processors'[n]]
  BY <1>1, ServiceBounds
<1>3. /\ \A p \in Procs : ~Alive(p)' /\ ~Sending(p)' /\ proc'[p].run = "none"
      /\ \A t \in Threads : th'[t].pc = "idle"
      /\ \A w \in Writers : wr'[w].pc = "idle"
  BY DEF Free, Idle, Returned, Alive, Sending
<1>4. Down' /\ Exclusive' /\ Listed' /\ LookedUp'
  BY <1>3, Zenon DEF Down, Exclusive, HoldsService, Listed, Closing, LookedUp
<1>5. Objects' /\ SendsHead'
  BY <1>2, <1>3 DEF Objects, SendsHead
<1> QED
  BY <1>2, <1>4, <1>5, Zenon

LEMMA CrashStep ==
  ASSUME IInv, Crash
  PROVE  IInv'
<1>1. UNCHANGED <<queue, accepted, delivered, skipped, purged>>
  BY DEF Crash, ghosts
<1>2. /\ processors' = [n \in DOMAIN processors' |-> processors'[n]]
      /\ proc' \in [Procs -> ProcRecords] /\ th' \in [Threads -> ThreadRecords]
      /\ wr' \in [Writers -> WriterRecords] /\ used' \in 0 .. MaxProcs
      /\ Down' /\ Exclusive' /\ Objects' /\ LookedUp' /\ Listed' /\ SendsHead'
  BY Stopped DEF Crash
<1>3. TypeOK' /\ AllKept'
  BY <1>1, <1>2 DEF IInv, TypeOK, AllKept, Kept
<1> QED
  BY <1>2, <1>3 DEF IInv

-----------------------------------------------------------------------------
LEMMA IInvInit == Init => IInv
<1> SUFFICES ASSUME Init PROVE IInv
  BY Zenon
<1>1. Free \in ProcRecords /\ Idle \in ThreadRecords /\ Returned \in WriterRecords
  BY DEF Free, Idle, Returned, ProcRecords, ThreadRecords, ThreadPCs, WriterRecords, None
<1>2. DOMAIN queue = {} /\ DOMAIN processors = {} /\ accepted = 0
  BY DEF Init
<1>3. TypeOK
  <2>1. /\ queue = [n \in DOMAIN queue |-> queue[n]]
        /\ processors = [n \in DOMAIN processors |-> processors[n]]
        /\ proc \in [Procs -> ProcRecords] /\ th \in [Threads -> ThreadRecords]
        /\ wr \in [Writers -> WriterRecords] /\ used \in 0 .. MaxProcs
    BY <1>1, ServiceBounds DEF Init
  <2> QED
    BY <1>2, <2>1 DEF TypeOK
<1>4. /\ \A p \in Procs : ~Alive(p) /\ ~Sending(p) /\ proc[p].run = "none"
      /\ \A t \in Threads : th[t].pc = "idle"
      /\ \A w \in Writers : wr[w].pc = "idle"
  BY DEF Init, Free, Idle, Returned, Alive, Sending
<1>5. Down /\ Exclusive /\ Listed /\ LookedUp
  BY <1>4, Zenon DEF Init, Down, Exclusive, HoldsService, Listed, Closing, LookedUp
<1>6. Objects /\ SendsHead /\ AllKept
  BY <1>2, <1>4 DEF Objects, SendsHead, AllKept
<1> QED
  BY <1>3, <1>5, <1>6 DEF IInv

LEMMA IInvStep == IInv /\ [Next]_vars => IInv'
<1> SUFFICES ASSUME IInv, [Next]_vars PROVE IInv'
  OBVIOUS
<1>1. CASE ServiceOpen
  BY <1>1, OpenStep
<1>2. CASE Crash
  BY <1>2, CrashStep
<1>3. CASE CloseStart \/ Closer
  BY <1>3, LoopStep DEF Closer
<1>4. CASE Purger
  BY <1>4, LoopStep, DeleteStep DEF Purger
<1>5. CASE \E p \in Procs : Run(p)
  BY <1>5, RunStep
<1>6. CASE \E t \in Threads : Thread(t)
  BY <1>6, LoopStep, CloseStep DEF Thread
<1>7. CASE \E w \in Writers : WriteCreate(w) \/ WriteAppend(w) \/ \E n \in Nodes : WriteLookup(w, n)
  BY <1>7, CreateStep, AppendStep, LookupStep
<1>8. CASE (\E n \in Nodes : DropNode(n) \/ Age(n)) \/ UNCHANGED vars
  <2>1. UNCHANGED <<queue, up, processors, proc, th, wr, used, accepted, delivered, skipped, purged>>
    BY <1>8, Zenon DEF DropNode, Age, vars, ghosts
  <2>2. TypeOK' /\ Down' /\ Exclusive' /\ LookedUp'
    BY <2>1, Zenon DEF IInv, TypeOK, Down, Exclusive, HoldsService, LookedUp
  <2>3. Objects' /\ Listed'
    BY <2>1, Zenon DEF IInv, Objects, Alive, Listed, Closing, HoldsService
  <2>4. SendsHead' /\ AllKept'
    BY <2>1 DEF IInv, SendsHead, Sending, AllKept, Kept
  <2> QED
    BY <2>2, <2>3, <2>4, Zenon DEF IInv
<1> QED
  BY <1>1, <1>2, <1>3, <1>4, <1>5, <1>6, <1>7, <1>8 DEF Next

LEMMA IInvAlways == Spec => []IInv
BY IInvInit, IInvStep, PTL DEF Spec

\* What Service.WriteShard accepted is in a queue, delivered, skipped or purged, for any
\* nodes and writers and however often the process stops.
THEOREM AcceptedKeptThm == Spec => []AcceptedKept
<1>1. IInv => AcceptedKept
  <2> SUFFICES ASSUME IInv, NEW h \in 1 .. accepted
               PROVE  h \in (UNION {Pending(n) : n \in Nodes}) \cup delivered \cup skipped \cup purged
    BY DEF AcceptedKept
  <2>1. Kept(h)
    BY DEF IInv, AllKept
  <2>2. ASSUME NEW n \in DOMAIN queue, NEW k \in DOMAIN queue[n], queue[n][k] = h
        PROVE  n \in Nodes /\ h \in Pending(n)
    BY <2>2 DEF IInv, TypeOK, Pending
  <2>3. (\E n \in Nodes : h \in Pending(n)) \/ h \in delivered \/ h \in skipped \/ h \in purged
    BY <2>1, <2>2 DEF Kept
  <2>4. CASE \E n \in Nodes : h \in Pending(n)
    BY <2>4, Zenon
  <2>5. CASE h \in delivered \/ h \in skipped \/ h \in purged
    BY <2>5, Zenon
  <2> QED
    BY <2>3, <2>4, <2>5
<1> QED
  BY <1>1, IInvAlways, PTL

\* A directory has one live processor, the one in Service.processors, and what SendWrite
\* advances past is the block it sent.
THEOREM OneOwnerThm == Spec => []OneOwner
<1>1. IInv => OneOwner
  BY DEF IInv, Objects, Alive, SendsHead, OneOwner
<1> QED
  BY <1>1, IInvAlways, PTL

-----------------------------------------------------------------------------
(* The meta client *)

\* The client knows at least one meta node.
SomeServer == Len(Servers) \in Nat \ {0} /\ DOMAIN Servers = 1 .. Len(Servers)

Metadata == [index : Nat, data : SUBSET Commands]
Polls == [pc : {"index", "ask", "wait", "got"}, at : DOMAIN Servers, idx : Nat, since : Nat, got : Metadata]
Calls == [pc : {"idle", "exec", "wait", "ok", "error"}, cmd : Commands \cup {"none"}, tries : Nat, index : Nat]
USE DEF Metadata, Polls, Calls

ClientTypeOK ==
  /\ log \in Seq(Commands)
  /\ applied \in [MetaNodes -> Nat]
  /\ cache \in Metadata
  /\ poll \in Polls
  /\ call \in Calls
  /\ commits \in Nat

\* The metadata d are those after an entry of the log.
InLog(d) == \E n \in 0 .. Len(log) : d = DataAt(n)

\* An answer to a poll is such, and the copy as long as nothing else changes it; a
\* caller waits for the entry with its command.
ClientInv ==
  /\ ClientTypeOK
  /\ \A s \in MetaNodes : applied[s] <= Len(log)
  /\ InLog(poll.got)
  /\ commits = 0 => InLog(cache)
  /\ call.pc = "exec" => call.cmd \in Commands
  /\ call.pc = "wait" => call.index \in 1 .. Len(log) /\ log[call.index] = call.cmd

-----------------------------------------------------------------------------
(* The log                                                                 *)

\* What the first n entries created.
LEMMA DataOf ==
  ASSUME NEW S, NEW q \in Seq(S), NEW n \in 0 .. Len(q)
  PROVE  Range(SubSeq(q, 1, n)) = {q[i] : i \in 1 .. n}
<1>1. DOMAIN SubSeq(q, 1, n) = 1 .. n /\ \A i \in 1 .. n : SubSeq(q, 1, n)[i] = q[i]  OBVIOUS
<1>2. QED  BY <1>1, Zenon DEF Range

\* The log keeps its entries.
Longer == log' = log \/ \E c \in Commands : log' = Append(log, c)

\* What was the metadata after an entry stays so.
LEMMA LongerLog ==
  ASSUME log \in Seq(Commands), Longer
  PROVE  /\ log' \in Seq(Commands) /\ Len(log) \in Nat /\ Len(log') \in Nat /\ Len(log) <= Len(log')
         /\ \A i \in 1 .. Len(log) : log'[i] = log[i]
         /\ \A d : InLog(d) => InLog(d)'
<1>1. /\ log' \in Seq(Commands) /\ Len(log) \in Nat /\ Len(log') \in Nat /\ Len(log) <= Len(log')
      /\ \A i \in 1 .. Len(log) : log'[i] = log[i]
  BY DEF Longer
<1>2. ASSUME NEW d, InLog(d)
      PROVE  InLog(d)'
  <2>1. PICK n \in 0 .. Len(log) : d = DataAt(n)  BY <1>2 DEF InLog
  <2>2. n \in 0 .. Len(log')  BY <1>1, <2>1
  <2>3. Range(SubSeq(log, 1, n)) = {log[i] : i \in 1 .. n}  BY DataOf
  <2>4. Range(SubSeq(log', 1, n)) = {log'[i] : i \in 1 .. n}  BY <1>1, <2>2, DataOf
  <2>5. \A i \in 1 .. n : log'[i] = log[i]  BY <1>1
  <2>6. Range(SubSeq(log', 1, n)) = Range(SubSeq(log, 1, n))  BY <2>3, <2>4, <2>5, Zenon
  <2>7. d = DataAt(n)'  BY <2>1, <2>6 DEF DataAt
  <2>8. QED  BY <2>2, <2>7 DEF InLog
<1>3. QED  BY <1>1, <1>2

\* A meta node's data are in the log, and typed.
LEMMA ServersData ==
  ASSUME ClientInv, NEW s \in MetaNodes
  PROVE  InLog(DataAt(applied[s])) /\ DataAt(applied[s]) \in Metadata
<1>1. applied[s] \in 0 .. Len(log) /\ log \in Seq(Commands) /\ Len(log) \in Nat  BY DEF ClientInv, ClientTypeOK
<1>2. Range(SubSeq(log, 1, applied[s])) = {log[i] : i \in 1 .. applied[s]}  BY <1>1, DataOf
<1>3. Range(SubSeq(log, 1, applied[s])) \subseteq Commands  BY <1>1, <1>2
<1>4. QED  BY <1>1, <1>3 DEF InLog, DataAt

\* The server after this one, around.
LEMMA NextServer ==
  ASSUME SomeServer, NEW at \in DOMAIN Servers
  PROVE  (at % Len(Servers)) + 1 \in DOMAIN Servers /\ 1 \in DOMAIN Servers /\ Servers[at] \in MetaNodes
<1>1. (at % Len(Servers)) + 1 \in 1 .. Len(Servers) /\ 1 \in 1 .. Len(Servers)  BY DEF SomeServer
<1>2. QED  BY <1>1 DEF SomeServer, MetaNodes, Range

-----------------------------------------------------------------------------
(* The invariant, action by action                                         *)

\* The first copy is that of one entry.
LEMMA ClientInitInv == SomeServer /\ ClientInit => ClientInv
<1> SUFFICES ASSUME SomeServer, ClientInit PROVE ClientInv  OBVIOUS
<1>1. PICK c \in Commands : log = <<c>>  BY DEF ClientInit
<1>2. log \in Seq(Commands) /\ Len(log) = 1  BY <1>1
<1>3. DataAt(1) \in Metadata /\ InLog(DataAt(1))
  <2>0. 1 \in 0 .. Len(log)  BY <1>2
  <2>1. Range(SubSeq(log, 1, 1)) = {log[i] : i \in 1 .. 1}  BY <1>2, <2>0, DataOf, Zenon
  <2>2. Range(SubSeq(log, 1, 1)) \subseteq Commands
    <3>1. \A i \in 1 .. 1 : log[i] \in Commands  BY <1>1, SMTT(30)
    <3>2. QED  BY <2>1, <3>1, Zenon
  <2>3. QED  BY <1>2, <2>2 DEF DataAt, InLog
<1>4. ClientTypeOK
  <2>1. applied \in [MetaNodes -> Nat]  BY DEF ClientInit
  <2>2. 1 \in DOMAIN Servers  BY SMTT(30) DEF SomeServer
  <2>3. QED  BY <1>2, <1>3, <2>1, <2>2, Zenon DEF ClientInit, ClientTypeOK, NoCall
<1>5. QED  BY <1>2, <1>3, <1>4 DEF ClientInv, ClientInit, NoCall

\* The log grows or not, the answer and the copy stay as they are.
LEMMA LogIInv ==
  ASSUME ClientInv, Longer, UNCHANGED <<cache, commits>>,
         applied' \in [MetaNodes -> Nat], \A s \in MetaNodes : applied'[s] <= Len(log'),
         poll' \in Polls,
         poll'.got = poll.got,
         call' \in Calls,
         call'.pc = "exec" => call'.cmd \in Commands,
         call'.pc = "wait" => call' = call \/ (call'.index \in 1 .. Len(log') /\ log'[call'.index] = call'.cmd)
  PROVE  ClientInv'
<1>1. log \in Seq(Commands)  BY Zenon DEF ClientInv, ClientTypeOK
<1>2. /\ log' \in Seq(Commands) /\ Len(log) \in Nat /\ Len(log') \in Nat /\ Len(log) <= Len(log')
      /\ \A i \in 1 .. Len(log) : log'[i] = log[i]
      /\ \A d : InLog(d) => InLog(d)'
  BY <1>1, LongerLog, Zenon
<1>3. ClientTypeOK'  BY <1>2, Zenon DEF ClientInv, ClientTypeOK
<1>4. InLog(poll.got)'
  <2>1. PICK d : d = poll.got  BY Zenon
  <2>2. InLog(d)'  BY <1>2, <2>1 DEF ClientInv
  <2>3. QED  BY <2>1, <2>2 DEF InLog
<1>5. commits' = 0 => InLog(cache)'
  <2>1. PICK d : d = cache  BY Zenon
  <2>2. commits = 0 => InLog(d)'  BY <1>2, <2>1, Zenon DEF ClientInv
  <2>3. QED  BY <2>1, <2>2 DEF InLog
<1>6. call'.pc = "wait" => call'.index \in 1 .. Len(log') /\ log'[call'.index] = call'.cmd
  BY <1>2 DEF ClientInv
<1>7. QED  BY <1>3, <1>4, <1>5, <1>6 DEF ClientInv

\* The steps of the meta nodes.
LEMMA ServerIInv ==
  ASSUME SomeServer, ClientInv, OtherExec \/ \E s \in MetaNodes : Apply(s) \/ Restart(s)
  PROVE  ClientInv'
<1>1. /\ log \in Seq(Commands) /\ Len(log) \in Nat /\ applied \in [MetaNodes -> Nat]
      /\ \A s \in MetaNodes : applied[s] <= Len(log)
  BY SMTT(30) DEF ClientInv, ClientTypeOK
<1>2. CASE OtherExec
  <2>1. Longer /\ UNCHANGED <<cache, commits, applied, poll, call>>  BY <1>2 DEF OtherExec, ServerFrame, Longer
  <2>2. Len(log) <= Len(log') /\ Len(log') \in Nat  BY <1>1, <2>1, LongerLog
  <2>3. \A s \in MetaNodes : applied'[s] <= Len(log')  BY <1>1, <2>1, <2>2, SMTT(30)
  <2>4. QED  BY <2>1, <2>3, LogIInv, Zenon DEF ClientInv, ClientTypeOK
<1>3. ASSUME NEW s \in MetaNodes, Apply(s)
      PROVE  ClientInv'
  <2>1. Longer /\ UNCHANGED <<log, cache, commits, poll, call>> /\ applied[s] < Len(log)
        /\ applied' = [applied EXCEPT ![s] = @ + 1]
    BY <1>3 DEF Apply, ServerFrame, Longer
  <2>2. applied' \in [MetaNodes -> Nat] /\ \A t \in MetaNodes : applied'[t] <= Len(log')  BY <1>1, <2>1
  <2>3. QED  BY <2>1, <2>2, LogIInv, Zenon DEF ClientInv, ClientTypeOK
<1>4. ASSUME NEW s \in MetaNodes, Restart(s)
      PROVE  ClientInv'
  <2>1. PICK n \in 1 .. applied[s] : applied' = [applied EXCEPT ![s] = n]  BY <1>4, Zenon DEF Restart
  <2>2. /\ Longer /\ UNCHANGED <<log, cache, commits, call>>
        /\ poll' = poll \/ poll' = [poll EXCEPT !.pc = "ask", !.at = (@ % Len(Servers)) + 1]
    BY <1>4 DEF Restart, ServerFrame, Longer
  <2>3. applied' \in [MetaNodes -> Nat] /\ \A t \in MetaNodes : applied'[t] <= Len(log')  BY <1>1, <2>1, <2>2
  <2>4. (poll.at % Len(Servers)) + 1 \in DOMAIN Servers  BY NextServer DEF ClientInv, ClientTypeOK
  <2>5. poll' \in Polls /\ poll'.got = poll.got
    BY <2>2, <2>4, Zenon DEF ClientInv, ClientTypeOK
  <2>6. QED  BY <2>2, <2>3, <2>5, LogIInv, Zenon DEF ClientInv, ClientTypeOK
<1>5. QED  BY <1>2, <1>3, <1>4

\* The steps of the poll up to the answer.
LEMMA PollIInv ==
  ASSUME SomeServer, ClientInv, PollIndex \/ PollFails \/ PollArrives
  PROVE  ClientInv'
<1>1. /\ poll.at \in DOMAIN Servers /\ cache.index \in Nat /\ applied \in [MetaNodes -> Nat]
      /\ poll \in Polls
  BY DEF ClientInv, ClientTypeOK
<1>2. Longer /\ UNCHANGED <<log, applied, cache, commits, call>>
  BY DEF PollIndex, PollFails, PollArrives, PollFrame, Longer
<1>3. (poll.at % Len(Servers)) + 1 \in DOMAIN Servers /\ 1 \in DOMAIN Servers /\ Servers[poll.at] \in MetaNodes
  BY <1>1, NextServer
<1>4. applied[Servers[poll.at]] \in Nat  BY <1>1, <1>3, Zenon
<1>5. poll' \in Polls /\ poll'.got = poll.got
  <2>1. CASE PollIndex  BY <1>1, <1>3, <2>1, Zenon DEF PollIndex
  <2>2. CASE PollFails  BY <1>1, <1>3, <2>2, Zenon DEF PollFails
  <2>3. CASE PollArrives  BY <1>1, <1>4, <2>3, Zenon DEF PollArrives
  <2>4. QED  BY <2>1, <2>2, <2>3
<1>6. QED  BY <1>2, <1>5, LogIInv, Zenon DEF ClientInv, ClientTypeOK

\* The answer is what a meta node has applied, and becomes the copy.
LEMMA AnswerIInv ==
  ASSUME SomeServer, ClientInv, PollAnswered \/ PollInstall
  PROVE  ClientInv'
<1>1. UNCHANGED <<log, applied, call, commits>>  BY DEF PollAnswered, PollInstall, PollFrame
<1>2. \A d : InLog(d)' <=> InLog(d)  BY <1>1 DEF InLog, DataAt
<1>3. CASE PollAnswered
  <2>1. PICK s : s = Servers[poll.at]  OBVIOUS
  <2>2. s \in MetaNodes  BY <2>1, NextServer DEF ClientInv, ClientTypeOK
  <2>3. PICK d : d = DataAt(applied[s])  OBVIOUS
  <2>4. InLog(d) /\ d \in Metadata
    <3>1. InLog(DataAt(applied[s])) /\ DataAt(applied[s]) \in Metadata
      BY <2>2, ServersData
    <3>2. QED  BY <3>1, <2>3
  <2>5. poll' = [poll EXCEPT !.pc = "got", !.got = d] /\ cache' = cache  BY <1>3, <2>1, <2>3 DEF PollAnswered
  <2>6. ClientTypeOK' /\ poll'.got = d  BY <1>1, <2>4, <2>5, Zenon DEF ClientInv, ClientTypeOK
  <2>7. InLog(poll.got)'  BY <1>2, <2>4, <2>6 DEF InLog
  <2>8. commits' = 0 => InLog(cache)'  BY <1>1, <2>5 DEF ClientInv, InLog, DataAt
  <2>9. QED  BY <1>1, <2>6, <2>7, <2>8 DEF ClientInv
<1>4. CASE PollInstall
  <2>1. cache' = poll.got /\ poll' = [poll EXCEPT !.pc = "index"]  BY <1>4 DEF PollInstall
  <2>2. ClientTypeOK' /\ poll'.got = poll.got  BY <1>1, <2>1, Zenon DEF ClientInv, ClientTypeOK
  <2>3. PICK d : d = poll.got  OBVIOUS
  <2>4. InLog(d)'  BY <1>2, <2>3 DEF ClientInv
  <2>5. InLog(poll.got)' /\ InLog(cache)'  BY <2>1, <2>2, <2>3, <2>4 DEF InLog
  <2>6. QED  BY <1>1, <2>2, <2>5 DEF ClientInv
<1>5. QED  BY <1>3, <1>4

\* The caller: its command is the last entry when it is answered.
LEMMA CallIInv ==
  ASSUME SomeServer, ClientInv, CallStart \/ Caller
  PROVE  ClientInv'
<1>1. /\ log \in Seq(Commands) /\ Len(log) \in Nat /\ applied \in [MetaNodes -> Nat]
      /\ \A s \in MetaNodes : applied[s] <= Len(log)
      /\ call \in Calls
  BY DEF ClientInv, ClientTypeOK
<1>2. UNCHANGED <<cache, poll, commits>>
  BY DEF CallStart, Caller, Exec, ExecRefused, ExecFails, WaitForIndex, CallFrame
<1>3. poll' \in Polls /\ poll'.got = poll.got
  BY <1>2 DEF ClientInv, ClientTypeOK
<1>4. ASSUME NEW l \in MetaNodes, Executed(l), call.pc = "exec"
      PROVE  /\ Longer /\ applied' \in [MetaNodes -> Nat] /\ \A s \in MetaNodes : applied'[s] <= Len(log')
             /\ Len(log') \in 1 .. Len(log') /\ log'[Len(log')] = call.cmd /\ call.cmd \in Commands
  <2>1. call.cmd \in Commands /\ log' = Append(log, call.cmd)  BY <1>4 DEF Executed, ClientInv
  <2>2. Len(log') = Len(log) + 1 /\ log'[Len(log')] = call.cmd  BY <1>1, <2>1
  <2>3. applied' \in [MetaNodes -> Nat] /\ \A s \in MetaNodes : applied'[s] <= Len(log')
    BY <1>1, <1>4, <2>2 DEF Executed
  <2>4. QED  BY <1>1, <2>1, <2>2, <2>3 DEF Longer
<1>5. CASE CallStart
  <2>1. PICK c \in Commands : call' = [pc |-> "exec", cmd |-> c, tries |-> 0, index |-> 0]  BY <1>5 DEF CallStart
  <2>2. Longer /\ UNCHANGED <<log, applied>>  BY <1>5 DEF CallStart, Longer
  <2>3. QED  BY <1>1, <1>2, <1>3, <2>1, <2>2, LogIInv
<1>6. CASE Exec
  <2>1. PICK l \in MetaNodes : Executed(l)  BY <1>6 DEF Exec
  <2>2. call.pc = "exec" /\ call' = [call EXCEPT !.pc = "wait", !.tries = @ + 1, !.index = Len(log')]
    BY <1>6 DEF Exec
  <2>3. /\ Longer /\ applied' \in [MetaNodes -> Nat] /\ \A s \in MetaNodes : applied'[s] <= Len(log')
        /\ Len(log') \in 1 .. Len(log') /\ log'[Len(log')] = call.cmd
    BY <1>4, <2>1, <2>2
  <2>4. PICK n \in Nat : n = Len(log')  BY <1>1, <2>3, LongerLog
  <2>5. /\ call' \in Calls
        /\ call'.pc = "wait" /\ call'.index = n /\ call'.cmd = call.cmd
    <3>1. PICK t \in Nat : t = call.tries + 1  BY <1>1
    <3>2. call' = [call EXCEPT !.pc = "wait", !.tries = t, !.index = n]  BY <2>2, <2>4, <3>1
    <3>3. QED  BY <1>1, <3>2, Zenon
  <2>6. QED  BY <1>2, <1>3, <2>3, <2>4, <2>5, LogIInv
<1>7. CASE ExecRefused \/ ExecFails
  <2>1. /\ call.pc = "exec"
        /\ \E p \in {"error", "exec"} : call' = [call EXCEPT !.tries = @ + 1, !.pc = p]
    BY <1>7, Zenon DEF ExecRefused, ExecFails
  <2>2. \/ UNCHANGED <<log, applied>>
        \/ \E l \in MetaNodes : Executed(l)
    BY <1>7 DEF ExecRefused, ExecFails
  <2>3. Longer /\ applied' \in [MetaNodes -> Nat] /\ \A s \in MetaNodes : applied'[s] <= Len(log')
    <3>1. CASE UNCHANGED <<log, applied>>  BY <1>1, <3>1 DEF Longer
    <3>2. CASE \E l \in MetaNodes : Executed(l)  BY <1>4, <2>1, <3>2
    <3>3. QED  BY <2>2, <3>1, <3>2
  <2>4. /\ call' \in Calls
        /\ call'.pc # "wait" /\ call'.cmd = call.cmd
    <3>1. PICK t \in Nat : t = call.tries + 1  BY <1>1
    <3>2. PICK p \in {"error", "exec"} : call' = [call EXCEPT !.tries = t, !.pc = p]  BY <2>1, <3>1, Zenon
    <3>3. QED  BY <1>1, <3>2, Zenon
  <2>5. call'.cmd \in Commands  BY <2>1, <2>4 DEF ClientInv
  <2>6. QED  BY <1>2, <1>3, <2>3, <2>4, <2>5, LogIInv
<1>8. CASE WaitForIndex
  <2>1. Longer /\ UNCHANGED <<log, applied>> /\ call' = [call EXCEPT !.pc = "ok"]  BY <1>8 DEF WaitForIndex, Longer
  <2>2. /\ call' \in Calls
        /\ call'.pc = "ok"
    BY <1>1, <2>1, Zenon
  <2>3. QED  BY <1>1, <1>2, <1>3, <2>1, <2>2, LogIInv
<1>9. QED  BY <1>5, <1>6, <1>7, <1>8 DEF Caller

\* After DropShard nothing is said of the copy but its type.
LEMMA DropShardIInv ==
  ASSUME ClientInv, DropShard
  PROVE  ClientInv'
<1>1. UNCHANGED <<log, applied, poll, call>> /\ commits' = commits + 1  BY Zenon DEF DropShard
<1>2. PICK x \in cache.data : cache' = [index |-> cache.index + 1, data |-> cache.data \ {x}]  BY Zenon DEF DropShard
<1>3. ClientTypeOK' /\ commits' # 0  BY <1>1, <1>2, SMTT(30) DEF ClientInv, ClientTypeOK
<1>4. InLog(poll.got)'  BY <1>1 DEF ClientInv, InLog, DataAt
<1>5. QED  BY <1>1, <1>3, <1>4, Zenon DEF ClientInv

\* Every step keeps the invariant.
LEMMA ClientNextInv == SomeServer /\ ClientInv /\ [ClientNext]_clientVars => ClientInv'
<1> SUFFICES ASSUME SomeServer, ClientInv, [ClientNext]_clientVars PROVE ClientInv'  OBVIOUS
<1>1. CASE OtherExec \/ \E s \in MetaNodes : Apply(s) \/ Restart(s)  BY <1>1, ServerIInv
<1>2. CASE PollIndex \/ PollFails \/ PollArrives  BY <1>2, PollIInv
<1>3. CASE PollAnswered \/ PollInstall  BY <1>3, AnswerIInv
<1>4. CASE CallStart \/ Caller  BY <1>4, CallIInv
<1>5. CASE DropShard  BY <1>5, DropShardIInv, Zenon
<1>6. CASE UNCHANGED clientVars  BY <1>6, Zenon DEF clientVars, ClientInv, ClientTypeOK, InLog, DataAt
<1>7. QED  BY <1>1, <1>2, <1>3, <1>4, <1>5, <1>6 DEF ClientNext, Poll

-----------------------------------------------------------------------------
(* The theorems                                                            *)

\* The invariant holds in every reachable state.
THEOREM ClientInvariance ==
  ASSUME SomeServer
  PROVE  ClientSpec => []ClientInv
<1>1. ClientInit => ClientInv  BY ClientInitInv
<1>2. ClientInv /\ [ClientNext]_clientVars => ClientInv'  BY ClientNextInv
<1>3. QED  BY <1>1, <1>2, PTL DEF ClientSpec

\* As long as nothing changes the copy alone, it is the metadata after one entry of
\* the log, never a mixture of two answers of two meta nodes (pollForUpdates).
THEOREM CopyOfLogThm ==
  ASSUME SomeServer
  PROVE  ClientSpec => []CopyOfLog
<1>1. ClientInv => CopyOfLog
  <2> SUFFICES ASSUME ClientInv, commits = 0 PROVE cache.index <= Len(log) /\ cache = DataAt(cache.index)
    BY DEF CopyOfLog
  <2>1. PICK n \in 0 .. Len(log) : cache = DataAt(n)  BY DEF ClientInv, InLog
  <2>2. cache.index = n  BY <2>1 DEF DataAt
  <2>3. n <= Len(log)  BY <2>1 DEF ClientInv, ClientTypeOK
  <2>4. QED  BY <2>1, <2>2, <2>3
<1>2. QED  BY <1>1, ClientInvariance, PTL

\* A command that returns without error is in the copy at that moment
\* (retryUntilExec, waitForIndex), whichever nodes answered, failed or restarted.
THEOREM ReadYourWriteInLogThm ==
  ASSUME SomeServer
  PROVE  ClientSpec => ReadYourWriteInLog
<1>1. ClientInv /\ [ClientNext]_clientVars
      => [call.pc = "wait" /\ call'.pc = "ok" /\ commits = 0 => call.cmd \in cache.data]_clientVars
  <2> SUFFICES ASSUME ClientInv, ClientNext, call.pc = "wait", call'.pc = "ok", commits = 0
               PROVE  call.cmd \in cache.data
    OBVIOUS
  <2>1. WaitForIndex
    <3>1. call' # call  OBVIOUS
    <3>2. QED  BY <3>1 DEF ClientNext, Poll, Caller, OtherExec, Apply, Restart, PollIndex, PollArrives, PollAnswered,
            PollInstall, PollFails, PollFrame, CallStart, Exec, ExecRefused, ExecFails, DropShard
  <2>2. PICK n \in 0 .. Len(log) : cache = DataAt(n)  BY DEF ClientInv, InLog
  <2>3. log \in Seq(Commands) /\ Len(log) \in Nat /\ call.index \in 1 .. Len(log) /\ log[call.index] = call.cmd
    BY DEF ClientInv, ClientTypeOK
  <2>4. cache.index = n /\ cache.data = Range(SubSeq(log, 1, n))  BY <2>2 DEF DataAt
  <2>5. call.index \in 1 .. n  BY <2>1, <2>3, <2>4 DEF WaitForIndex
  <2>6. cache.data = {log[i] : i \in 1 .. n}  BY <2>3, <2>4, DataOf
  <2>7. QED  BY <2>3, <2>5, <2>6
<1>2. QED  BY <1>1, ClientInvariance, PTL DEF ClientSpec, ReadYourWriteInLog

=============================================================================
