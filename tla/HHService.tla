----------------------------- MODULE HHService -----------------------------
(***************************************************************************)
(* The hinted-handoff service (services/hh/service.go) and its node        *)
(* processors (services/hh/node_processor.go): goroutines that share       *)
(* Service.mu, one NodeProcessor.mu per processor and the processors'      *)
(* queues.  A step is what a goroutine does between two points at which it *)
(* can block: a lock, a channel, a WaitGroup or the network.               *)
(*                                                                         *)
(* A queue is the sequence of its pending hints, as HintFIFO and HHQueue   *)
(* have it; a hint is known by the order in which it was accepted.         *)
(***************************************************************************)
EXTENDS Integers, Sequences, FiniteSets

CONSTANTS
  Nodes,          \* data nodes that hints are kept for
  Writers,        \* goroutines that call Service.WriteShard
  NotFound,       \* MetaClient.DataNode of an unknown node: an "error" (meta.Client's), or "nil", nil
  Closes,         \* TRUE if Service.Close is called
  PurgeInterval, RetryInterval, RetryMaxInterval,   \* of NodeProcessor
  MaxHints, MaxProcs, MaxCrashes   \* bounds: hints, processor objects, crashes

ASSUME ServiceBounds ==
  /\ MaxHints \in Nat /\ MaxProcs \in Nat /\ MaxCrashes \in Nat
  /\ PurgeInterval \in Nat /\ RetryInterval \in Nat /\ RetryMaxInterval \in Nat
  /\ NotFound \subseteq {"error", "nil"} /\ Closes \in BOOLEAN

None == 0
Procs == 1..MaxProcs
Threads == {"closer", "purger"}    \* the caller of Service.Close, and purgeInactiveProcessors

VARIABLES
  queue,       \* disk: node -> pending hints, for the nodes with a directory
  up,          \* the process runs and Service.Open has returned
  processors,  \* Service.processors: node -> processor
  proc,        \* the processor objects: [node, done, run, cur, wait]; wait is run's currInterval
  closing,     \* Service.closing: "nil", "open" or "closed"
  th,          \* thread -> [pc, p, todo]
  wr,          \* writer -> [pc, node, p]
  known,       \* nodes the meta store lists
  aged,        \* nodes whose queue was last modified more than MaxAge ago
  used,        \* processor objects made since the process started
  crashes,
  accepted,    \* hints accepted: WriteShard returned nil for 1..accepted
  delivered, skipped, purged   \* hints the node took, hints that do not parse, hints dropped for their age

ghosts == <<accepted, delivered, skipped, purged>>
vars == <<queue, up, processors, proc, closing, th, wr, known, aged, used, crashes, ghosts>>

-----------------------------------------------------------------------------
(* Locks.  Service.mu and NodeProcessor.mu are held across a step only by    *)
(* the goroutines named here; every other critical section is one step.      *)

HoldsService(t) == th[t].pc \in {"each", "plock", "pwait", "pdone", "join"}
ServiceFree == \A t \in Threads : ~HoldsService(t)
\* NodeProcessor.mu is write-locked, or a writer waits, which also stops readers.
Locked(p) == \E t \in Threads : th[t].pc \in {"plock", "pwait"} /\ th[t].p = p
\* SendWrite holds the read lock.
Sending(p) == proc[p].run \in {"write", "advance"}

Idle == [pc |-> "idle", p |-> None, todo |-> {}]
Returned == [pc |-> "idle", node |-> None, p |-> None]
Free == [node |-> None, done |-> "nil", run |-> "none", cur |-> None, wait |-> 0]
Shorter(a, b) == IF a < b THEN a ELSE b
\* NewNodeProcessor and NodeProcessor.Open: the queue is open, run is started.
Opened(n) == [node |-> n, done |-> "open", run |-> "select", cur |-> None,
              wait |-> Shorter(RetryInterval, RetryMaxInterval)]
At(t, pc) == [th EXCEPT ![t].pc = pc]
Put(f, k, v) == [x \in DOMAIN f \cup {k} |-> IF x = k THEN v ELSE f[x]]

-----------------------------------------------------------------------------
Init ==
  /\ up = FALSE
  /\ processors = [n \in {} |-> None]
  /\ proc = [p \in Procs |-> Free]
  /\ closing = "nil"
  /\ th = [t \in Threads |-> Idle]
  /\ wr = [w \in Writers |-> Returned]
  /\ used = 0
  /\ queue = [n \in {} |-> <<>>]
  /\ known = Nodes /\ aged = {} /\ crashes = 0
  /\ accepted = 0 /\ delivered = {} /\ skipped = {} /\ purged = {}

\* Service.Open: a processor for every node directory, and the purge goroutine.
ServiceOpen ==
  /\ ~up
  /\ \E count \in 0 .. MaxProcs : \E number \in [DOMAIN queue -> 1 .. count] :
       LET nodeOf(p) == {n \in DOMAIN queue : number[n] = p}
       IN  /\ count = Cardinality(DOMAIN queue)
           /\ \A m, n \in DOMAIN queue : number[m] = number[n] => m = n
           /\ processors' = number
           /\ proc' = [p \in Procs |-> IF nodeOf(p) = {} THEN Free ELSE Opened(CHOOSE n \in nodeOf(p) : TRUE)]
           /\ used' = count
  /\ up' = TRUE
  /\ closing' = "open"
  /\ th' = At("purger", "select")
  /\ UNCHANGED <<queue, wr, known, aged, crashes, ghosts>>

\* The process stops at any point: only the queues survive.
Crash ==
  /\ up /\ crashes < MaxCrashes
  /\ crashes' = crashes + 1
  /\ up' = FALSE
  /\ processors' = [n \in {} |-> None]
  /\ proc' = [p \in Procs |-> Free]
  /\ closing' = "nil"
  /\ th' = [t \in Threads |-> Idle]
  /\ wr' = [w \in Writers |-> Returned]
  /\ used' = 0
  /\ UNCHANGED <<queue, known, aged, ghosts>>

-----------------------------------------------------------------------------
(* Service.WriteShard *)

\* The processor is looked up under the read lock.
WriteLookup(w, n) ==
  /\ up /\ wr[w].pc = "idle" /\ accepted < MaxHints
  /\ ServiceFree
  /\ wr' = [wr EXCEPT ![w] = IF n \in DOMAIN processors
                             THEN [pc |-> "append", node |-> n, p |-> processors[n]]
                             ELSE [pc |-> "create", node |-> n, p |-> None]]
  /\ UNCHANGED <<queue, up, processors, proc, closing, th, known, aged, used, crashes, ghosts>>

\* Looked up again under the write lock and, if still missing, made and opened.
WriteCreate(w) ==
  LET n == wr[w].node
      p == used + 1
  IN  /\ wr[w].pc = "create" /\ ServiceFree
      /\ \/ /\ n \in DOMAIN processors
            /\ wr' = [wr EXCEPT ![w].pc = "append", ![w].p = processors[n]]
            /\ UNCHANGED <<queue, processors, proc, used>>
         \/ /\ n \notin DOMAIN processors
            /\ p \in Procs /\ used' = p
            /\ proc' = [proc EXCEPT ![p] = Opened(n)]
            /\ processors' = Put(processors, n, p)
            /\ queue' = Put(queue, n, IF n \in DOMAIN queue THEN queue[n] ELSE <<>>)
            /\ wr' = [wr EXCEPT ![w].pc = "append", ![w].p = p]
      /\ UNCHANGED <<up, closing, th, known, aged, crashes, ghosts>>

\* NodeProcessor.WriteShard, on the processor looked up earlier: an error if it
\* was closed meanwhile, else the hint is appended to the queue.
WriteAppend(w) ==
  LET p == wr[w].p
      n == wr[w].node
  IN  /\ wr[w].pc = "append" /\ ~Locked(p)
      /\ \/ /\ proc[p].done = "nil"
            /\ UNCHANGED <<queue, aged, accepted>>
         \/ /\ proc[p].done # "nil" /\ accepted < MaxHints
            /\ accepted' = accepted + 1
            /\ queue' = [queue EXCEPT ![n] = Append(@, accepted + 1)]
            /\ aged' = aged \ {n}
      /\ wr' = [wr EXCEPT ![w] = Returned]
      /\ UNCHANGED <<up, processors, proc, closing, th, known, used, crashes, delivered, skipped, purged>>

-----------------------------------------------------------------------------
(* NodeProcessor.run *)

RunFrame == UNCHANGED <<up, processors, closing, th, wr, known, aged, used, crashes, accepted>>

\* The done channel is closed: run returns.
RunExit(p) ==
  /\ proc[p].run = "select" /\ proc[p].done = "closed"
  /\ proc' = [proc EXCEPT ![p].run = "none"]
  /\ RunFrame /\ UNCHANGED <<queue, delivered, skipped, purged>>

\* Both timers are started anew each time run enters its select, so the one with
\* the shorter interval fires.

\* The purge timer fires: the leading segments older than MaxAge are dropped, all
\* of them if even the last one is that old.
RunPurge(p) ==
  LET n == proc[p].node
      q == queue[n]
  IN  /\ proc[p].run = "select" /\ proc[p].done = "open"
      /\ PurgeInterval <= proc[p].wait
      /\ \E k \in 1..Len(q) :
           /\ k = Len(q) <=> n \in aged
           /\ queue' = [queue EXCEPT ![n] = SubSeq(q, k + 1, Len(q))]
           /\ purged' = purged \cup {q[j] : j \in 1..k}
      /\ RunFrame /\ UNCHANGED <<proc, delivered, skipped>>

\* The retry timer fires: on to SendWrite, which first takes the read lock.
RunRetry(p) ==
  /\ proc[p].run = "select" /\ proc[p].done = "open"
  /\ proc[p].wait <= PurgeInterval
  /\ proc' = [proc EXCEPT ![p].run = "rlock"]
  /\ RunFrame /\ UNCHANGED <<queue, delivered, skipped, purged>>

\* Mutant: run returns at the end of the queue.
AfterEOFReturns(p) == [proc EXCEPT ![p].run = "none", ![p].cur = None, ![p].wait = RetryInterval]

\* SendWrite returned io.EOF, or another error, upon which run backs off.
AfterEOF(p) == [proc EXCEPT ![p].run = "select", ![p].cur = None, ![p].wait = RetryInterval]
AfterError(p) ==
  [proc EXCEPT ![p].run = "select", ![p].cur = None, ![p].wait = Shorter(2 * @, RetryMaxInterval)]

\* SendWrite up to WriteShard: Active, Current and unmarshalWrite.
RunRead(p) ==
  LET n == proc[p].node
      q == queue[n]
      block == n \in known /\ q # <<>>
  IN  /\ proc[p].run = "rlock" /\ ~Locked(p)
      /\ \/ /\ n \notin known /\ "error" \in NotFound
            /\ proc' = AfterError(p)
            /\ UNCHANGED <<queue, skipped>>
         \/ /\ n \notin known /\ "nil" \in NotFound
            /\ proc' = AfterEOF(p)
            /\ UNCHANGED <<queue, skipped>>
         \/ /\ n \in known /\ q = <<>>
            /\ proc' = AfterEOF(p)
            /\ UNCHANGED <<queue, skipped>>
         \/ /\ block              \* a block that does not parse is skipped
            /\ proc' = AfterError(p)
            /\ queue' = [queue EXCEPT ![n] = Tail(q)]
            /\ skipped' = skipped \cup {Head(q)}
         \/ /\ block
            /\ proc' = [proc EXCEPT ![p].run = "write", ![p].cur = Head(q)]
            /\ UNCHANGED <<queue, skipped>>
      /\ RunFrame /\ UNCHANGED <<delivered, purged>>

\* writer.WriteShard fails: the block stays at the head of the queue.
RunWriteFails(p) ==
  /\ proc[p].run = "write"
  /\ proc' = AfterError(p)
  /\ RunFrame /\ UNCHANGED <<queue, delivered, skipped, purged>>

\* Mutant: the block counts as sent before the node has answered.
RunWriteEarly(p) ==
  /\ proc[p].run = "write"
  /\ proc' = [proc EXCEPT ![p].run = "advance"]
  /\ RunFrame /\ UNCHANGED <<queue, delivered, skipped, purged>>

\* writer.WriteShard succeeds.
RunWrite(p) ==
  /\ proc[p].run = "write"
  /\ delivered' = delivered \cup {proc[p].cur}
  /\ proc' = [proc EXCEPT ![p].run = "advance"]
  /\ RunFrame /\ UNCHANGED <<queue, skipped, purged>>

\* queue.Advance; SendWrite returns, and run calls it again.
RunAdvance(p) ==
  /\ proc[p].run = "advance"
  /\ queue' = [queue EXCEPT ![proc[p].node] = Tail(@)]
  /\ proc' = [proc EXCEPT ![p].run = "rlock", ![p].cur = None, ![p].wait = RetryInterval]
  /\ RunFrame /\ UNCHANGED <<delivered, skipped, purged>>

-----------------------------------------------------------------------------
(* Service.Close, purgeInactiveProcessors, and NodeProcessor.Close, which both *)
(* call with Service.mu held.                                                  *)

ThreadFrame == UNCHANGED <<up, wr, known, aged, used, crashes, accepted, delivered, skipped>>

CloseStart ==
  /\ Closes /\ up /\ th["closer"].pc = "idle"
  /\ th' = At("closer", "lock")
  /\ ThreadFrame /\ UNCHANGED <<queue, processors, proc, closing, purged>>

\* The purge ticker fires.  The ticker's channel keeps a tick, so this can also
\* be chosen once closing is closed.
PurgerTick ==
  /\ th["purger"].pc = "select"
  /\ th' = At("purger", "lock")
  /\ ThreadFrame /\ UNCHANGED <<queue, processors, proc, closing, purged>>

PurgerExit ==
  /\ th["purger"].pc = "select" /\ closing = "closed"
  /\ th' = At("purger", "exited")
  /\ ThreadFrame /\ UNCHANGED <<queue, processors, proc, closing, purged>>

\* s.mu.Lock, and on to the range over the processors.
ServiceLock(t) ==
  /\ th[t].pc = "lock" /\ ServiceFree
  /\ th' = [th EXCEPT ![t] = [pc |-> "each", p |-> None, todo |-> DOMAIN processors]]
  /\ ThreadFrame /\ UNCHANGED <<queue, processors, proc, closing, purged>>

\* NodeProcessor.Active answers true or an error; it answers false.
ActiveOrError(n) == n \in known \/ "error" \in NotFound
Inactive(n) == n \notin known /\ "nil" \in NotFound

\* The purge loop leaves a processor alone: its node is active, or Active returned
\* an error, or it was modified lately.
PurgerKeep(n) ==
  /\ th["purger"].pc = "each" /\ n \in th["purger"].todo
  /\ ActiveOrError(n) \/ n \notin aged
  /\ th' = [th EXCEPT !["purger"].todo = @ \ {n}]
  /\ ThreadFrame /\ UNCHANGED <<queue, processors, proc, closing, purged>>

\* A processor is to be closed: each by Service.Close, an old one of an inactive
\* node by the purge loop.
CloseNext(t, n) ==
  /\ th[t].pc = "each" /\ n \in th[t].todo
  /\ t = "purger" => Inactive(n) /\ n \in aged
  /\ th' = [th EXCEPT ![t] = [pc |-> "plock", p |-> processors[n], todo |-> @.todo \ {n}]]
  /\ ThreadFrame /\ UNCHANGED <<queue, processors, proc, closing, purged>>

\* Mutant: NodeProcessor.Close does not wait for run.
CloseLockNoWait(t) ==
  LET p == th[t].p
  IN  /\ th[t].pc = "plock" /\ ~Sending(p)
      /\ proc' = [proc EXCEPT ![p].done = "nil"]
      /\ th' = At(t, IF t = "purger" THEN "pdone" ELSE "each")
      /\ ThreadFrame /\ UNCHANGED <<queue, processors, closing, purged>>

\* NodeProcessor.Close gets n.mu and, unless closed before, closes done.
CloseLock(t) ==
  LET p == th[t].p
  IN  /\ th[t].pc = "plock" /\ ~Sending(p)
      /\ \/ /\ proc[p].done = "nil"
            /\ th' = At(t, IF t = "purger" THEN "pdone" ELSE "each")
            /\ UNCHANGED proc
         \/ /\ proc[p].done # "nil"
            /\ proc' = [proc EXCEPT ![p].done = "closed"]
            /\ th' = At(t, "pwait")
      /\ ThreadFrame /\ UNCHANGED <<queue, processors, closing, purged>>

\* n.wg.Wait returns: done is set to nil, the queue closed and n.mu released.
CloseJoined(t) ==
  LET p == th[t].p
  IN  /\ th[t].pc = "pwait" /\ proc[p].run = "none"
      /\ proc' = [proc EXCEPT ![p].done = "nil"]
      /\ th' = At(t, IF t = "purger" THEN "pdone" ELSE "each")
      /\ ThreadFrame /\ UNCHANGED <<queue, processors, closing, purged>>

\* NodeProcessor.Purge removes the directory, and the processor leaves the map.
PurgerDelete ==
  LET n == proc[th["purger"].p].node
  IN  /\ th["purger"].pc = "pdone"
      /\ purged' = purged \cup {queue[n][k] : k \in DOMAIN queue[n]}
      /\ queue' = [m \in DOMAIN queue \ {n} |-> queue[m]]
      /\ processors' = [m \in DOMAIN processors \ {n} |-> processors[m]]
      /\ th' = At("purger", "each")
      /\ ThreadFrame /\ UNCHANGED <<proc, closing>>

\* The purge loop is through and releases Service.mu.
PurgerDone ==
  /\ th["purger"].pc = "each" /\ th["purger"].todo = {}
  /\ th' = At("purger", "select")
  /\ ThreadFrame /\ UNCHANGED <<queue, processors, proc, closing, purged>>

\* Service.Close closes the closing channel and waits for the purge goroutine.
CloseWait ==
  /\ th["closer"].pc = "each" /\ th["closer"].todo = {}
  /\ closing' = IF closing = "open" THEN "closed" ELSE closing
  /\ th' = At("closer", "join")
  /\ ThreadFrame /\ UNCHANGED <<queue, processors, proc, purged>>

\* s.wg.Wait returns and Close with it.
CloseDone ==
  /\ th["closer"].pc = "join" /\ th["purger"].pc = "exited"
  /\ closing' = "nil"
  /\ th' = At("closer", "exited")
  /\ ThreadFrame /\ UNCHANGED <<queue, processors, proc, purged>>

-----------------------------------------------------------------------------
(* The world outside *)

\* The data node is dropped from the meta store.
DropNode(n) ==
  /\ n \in known
  /\ known' = known \ {n}
  /\ UNCHANGED <<queue, up, processors, proc, closing, th, wr, aged, used, crashes, ghosts>>

\* MaxAge has passed since the last modification of a queue.
Age(n) ==
  /\ n \in DOMAIN queue \ aged
  /\ aged' = aged \cup {n}
  /\ UNCHANGED <<queue, up, processors, proc, closing, th, wr, known, used, crashes, ghosts>>

Run(p) ==
  \/ RunExit(p) \/ RunPurge(p) \/ RunRetry(p) \/ RunRead(p)
  \/ RunWriteFails(p) \/ RunWrite(p) \/ RunAdvance(p)
Thread(t) ==
  \/ ServiceLock(t) \/ CloseLock(t) \/ CloseJoined(t)
  \/ \E n \in Nodes : CloseNext(t, n)
Purger ==
  \/ PurgerTick \/ PurgerExit \/ PurgerDelete \/ PurgerDone \/ \E n \in Nodes : PurgerKeep(n)
Closer == CloseWait \/ CloseDone
Next ==
  \/ ServiceOpen \/ Crash \/ CloseStart \/ Purger \/ Closer
  \/ \E p \in Procs : Run(p)
  \/ \E t \in Threads : Thread(t)
  \/ \E w \in Writers : WriteCreate(w) \/ WriteAppend(w) \/ \E n \in Nodes : WriteLookup(w, n)
  \/ \E n \in Nodes : DropNode(n) \/ Age(n)

Spec == Init /\ [][Next]_vars

-----------------------------------------------------------------------------
(***************************************************************************)
(* Fairness.  Goroutines that can run do; Go's mutexes do not starve a     *)
(* waiter, hence SF on taking a lock; the timers fire again and again; and *)
(* a data node that is sent to again and again answers at last (SF on      *)
(* RunWrite).  Nobody has to write, crash, close, drop a node or age.      *)
(***************************************************************************)
Fairness ==
  /\ WF_vars(ServiceOpen)
  /\ \A p \in Procs : /\ WF_vars(RunExit(p) \/ RunRetry(p) \/ RunAdvance(p)) /\ WF_vars(RunPurge(p))
                      /\ SF_vars(RunRead(p)) /\ SF_vars(RunWrite(p))
  /\ SF_vars(Thread("purger") \/ Purger) /\ SF_vars(Thread("closer") \/ Closer)
FairSpec == Spec /\ Fairness

-----------------------------------------------------------------------------
(* Properties *)

Pending(n) == IF n \in DOMAIN queue THEN {queue[n][k] : k \in DOMAIN queue[n]} ELSE {}

\* A hint that WriteShard accepted is in a queue until the node took it, it was
\* found not to parse, or it was dropped for its age: whatever the interleaving of
\* writers, run, purge loop, Close and a crash, and although WriteShard uses the
\* processor it looked up after it released the lock.
AcceptedKept ==
  \A h \in 1..accepted : h \in (UNION {Pending(n) : n \in Nodes}) \cup delivered \cup skipped \cup purged

\* A node's directory has one live processor, the one in the map: two would send
\* and advance the same files, and a live one outside the map would never be closed.
\* SendWrite sends the block it read and then advances past the head: nothing takes
\* that block away or puts another in its place in between.
OneOwner ==
  \A p \in Procs :
    /\ proc[p].done # "nil" \/ proc[p].run # "none" =>
         proc[p].node \in DOMAIN processors /\ processors[proc[p].node] = p
    /\ Sending(p) => queue[proc[p].node] # <<>> /\ Head(queue[proc[p].node]) = proc[p].cur

\* Every pending hint of a node that stays known is taken care of in the end, unless
\* the service is being closed.
Drained == \A n \in Nodes : \A h \in 1..MaxHints :
             h \in Pending(n) ~> h \notin Pending(n) \/ n \notin known \/ th["closer"].pc # "idle"

\* "It also purges any hinted handoff data older than the configured time.": run
\* drops the hints of a queue that has not been modified for MaxAge.
OldPurged == \A n \in Nodes :
  Pending(n) # {} /\ n \in aged ~> Pending(n) = {} \/ n \notin aged

\* "Close closes the NodeProcessor, terminating all data tranmission to the node."
ProcessorCloses == \A p \in Procs : proc[p].done = "closed" ~> proc[p].done = "nil"

\* "Close closes the hinted handoff service.": a call of Service.Close returns.
ServiceCloses == th["closer"].pc = "lock" ~> th["closer"].pc = "exited"

\* "purgeInactiveProcessors will cause the service to remove processors for inactive
\* nodes.": once a node is gone and its hints are old, its processor is removed.
InactiveRemoved ==
  \A n \in Nodes : n \in DOMAIN processors \ known /\ n \in aged
                     ~> n \notin DOMAIN processors \/ n \notin aged

=============================================================================
