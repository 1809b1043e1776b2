-------------------------- MODULE ServicesProofs ---------------------------
(***************************************************************************)
(* Proofs about the services around the store, as MCServices instantiates  *)
(* them: the query tasks (Tasking) and the subscriber (Subscribing).       *)
(***************************************************************************)
EXTENDS MCServices, TLAPS

-----------------------------------------------------------------------------
(* Query tasks *)

Reasons == {"", "timeout", "interrupted", "shutdown"}
Closers == {"", "kill", "close", "waiter", "detach"}
WaitPCs == {"none", "select", "kill", "done"}
ExecPCs == {"none", "attach", "refused", "statement", "check", "failed", "rejected", "panicked",
            "rest", "detach", "recovered", "end"}
TaskRecords == [killed : BOOLEAN, err : Reasons, closes : Nat, by : Closers]
ExecRecords == [pc : ExecPCs, i : Nat, n : Nat]

\* The channel is closed once, when killed is set.
Once(t) == (t.killed /\ t.closes = 1) \/ (~t.killed /\ t.closes = 0)

TaskTypeOK ==
  /\ queries \in SUBSET QueryIDs
  /\ task \in [QueryIDs -> TaskRecords]
  /\ waiting \in [QueryIDs -> WaitPCs]
  /\ exec \in [QueryIDs -> ExecRecords]

\* Task.close and Task.kill close the channel once; whoever gives a reason has set err.
TaskOK(q) ==
  /\ Once(task[q])
  /\ task[q].by \in {"close", "waiter", "timeout"} => task[q].err # ""
  /\ waiting[q] = "kill" /\ q \in queries => task[q].err # ""

\* A query is listed from AttachQuery to its end, and off the list only when closed.
ListedOK(q) ==
  /\ waiting[q] # "none" /\ q \notin queries => task[q].closes = 1
  /\ waiting[q] = "none" => q \notin queries
  /\ exec[q].pc \in {"none", "attach", "refused"} => waiting[q] = "none"
  /\ exec[q].pc \in {"recovered", "end"} => q \notin queries

TaskIInv == TaskTypeOK /\ \A q \in QueryIDs : TaskOK(q) /\ ListedOK(q)

\* What Task.close and Task.kill do to a task.
LEMMA ClosedTask ==
  ASSUME NEW t \in TaskRecords, NEW by \in Closers, Once(t)
  PROVE  /\ Tasking!Closed(t, by) \in TaskRecords /\ Tasking!Closed(t, by).closes = 1
         /\ Once(Tasking!Closed(t, by)) /\ Tasking!Closed(t, by).err = t.err
         /\ Tasking!Closed(t, by).by \in {t.by, by}
<1>1. CASE t.killed
  <2>1. Tasking!Closed(t, by) = t /\ t.closes = 1
    BY <1>1 DEF Tasking!Closed, Once
  <2> QED
    BY <2>1
<1>2. CASE ~t.killed
  <2> DEFINE u == [t EXCEPT !.killed = TRUE, !.closes = t.closes + 1, !.by = by]
  <2>1. t.closes + 1 = 1 /\ 1 \in Nat
    BY <1>2 DEF Once
  <2>2. Tasking!Closed(t, by) = u
    BY <1>2 DEF Tasking!Closed
  <2>3. u \in TaskRecords /\ u.closes = 1 /\ u.killed /\ u.err = t.err /\ u.by = by
    BY <2>1, Zenon DEF TaskRecords
  <2>4. Once(u)
    BY <2>3, Zenon DEF Once
  <2> HIDE DEF u
  <2> QED
    BY <2>2, <2>3, <2>4
<1> QED
  BY <1>1, <1>2

\* TaskManager.Close and waitForQuery set the reason.
LEMMA ErrSet ==
  ASSUME NEW t \in TaskRecords, Once(t), NEW why \in Reasons
  PROVE  /\ [t EXCEPT !.err = why] \in TaskRecords /\ [t EXCEPT !.err = why].err = why
         /\ [t EXCEPT !.err = why].closes = t.closes /\ [t EXCEPT !.err = why].by = t.by
         /\ Once([t EXCEPT !.err = why])
<1> DEFINE u == [t EXCEPT !.err = why]
<1>1. u \in TaskRecords /\ u.err = why /\ u.closes = t.closes /\ u.by = t.by /\ u.killed = t.killed
  BY Zenon DEF TaskRecords
<1>2. Once(u)
  BY <1>1, Zenon DEF Once
<1> QED
  BY <1>1, <1>2, Zenon

\* All actions but TaskManager.Close are about one query.
LEMMA OneQuery ==
  ASSUME TaskIInv, NEW q \in QueryIDs, NEW t \in TaskRecords, NEW w \in WaitPCs, NEW e \in ExecRecords,
         task' = [task EXCEPT ![q] = t], waiting' = [waiting EXCEPT ![q] = w], exec' = [exec EXCEPT ![q] = e],
         queries' \in {queries, queries \cup {q}, queries \ {q}},
         Once(t),
         t.by \in {"close", "waiter", "timeout"} => t.err # "",
         w = "kill" /\ q \in queries' => t.err # "",
         w # "none" /\ q \notin queries' => t.closes = 1,
         w = "none" => q \notin queries',
         e.pc \in {"none", "attach", "refused"} => w = "none",
         e.pc \in {"recovered", "end"} => q \notin queries'
  PROVE  TaskIInv'
<1>1. TaskTypeOK'
  BY Zenon DEF TaskIInv, TaskTypeOK
<1>2. /\ task'[q] = t /\ waiting'[q] = w /\ exec'[q] = e
      /\ \A r \in QueryIDs \ {q} : /\ task'[r] = task[r] /\ waiting'[r] = waiting[r] /\ exec'[r] = exec[r]
                                   /\ r \in queries' <=> r \in queries
  BY Zenon DEF TaskIInv, TaskTypeOK
<1>3. TaskOK(q)' /\ ListedOK(q)'
  BY <1>2, Zenon DEF TaskOK, ListedOK
<1>4. ASSUME NEW r \in QueryIDs \ {q}
      PROVE  TaskOK(r)' /\ ListedOK(r)'
  <2>1. TaskOK(r) /\ ListedOK(r)
    BY Zenon DEF TaskIInv
  <2> QED
    BY <1>2, <2>1, Zenon DEF TaskOK, ListedOK
<1> QED
  BY <1>1, <1>3, <1>4, Zenon DEF TaskIInv

LEMMA TaskStep ==
  ASSUME TaskIInv, [Tasking!Next]_(Tasking!tvars)
  PROVE  TaskIInv'
<1>1. CASE Tasking!Close
  <2>1. /\ \A r \in QueryIDs : task'[r] = IF r \in queries THEN Tasking!Closed([task[r] EXCEPT !.err = "shutdown"], "close")
                                                          ELSE task[r]
        /\ queries' = {} /\ waiting' = waiting /\ exec' = exec /\ task' = [r \in QueryIDs |-> task'[r]]
    BY <1>1 DEF Tasking!Close
  <2>2. ASSUME NEW r \in QueryIDs
        PROVE  task'[r] \in TaskRecords /\ TaskOK(r)' /\ ListedOK(r)'
    <3>1. TaskOK(r) /\ ListedOK(r) /\ task[r] \in TaskRecords
      BY DEF TaskIInv, TaskTypeOK
    <3>2. CASE r \notin queries
      BY <2>1, <3>1, <3>2, Zenon DEF TaskOK, ListedOK
    <3>3. CASE r \in queries
      <4> DEFINE t == [task[r] EXCEPT !.err = "shutdown"]
      <4>1. t \in TaskRecords /\ t.err = "shutdown" /\ Once(t)
        BY <3>1, ErrSet, Zenon DEF TaskOK, Reasons
      <4>2. task'[r] = Tasking!Closed(t, "close")
        BY <2>1, <3>3
      <4> HIDE DEF t
      <4>3. /\ task'[r] \in TaskRecords /\ task'[r].closes = 1 /\ Once(task'[r])
            /\ task'[r].err = "shutdown"
        <5> DEFINE c == Tasking!Closed(t, "close")
        <5>1. c \in TaskRecords /\ c.closes = 1 /\ Once(c) /\ c.err = t.err
          BY <4>1, ClosedTask, Zenon DEF Closers
        <5>2. task'[r] = c
          BY <4>2
        <5> HIDE DEF c
        <5> QED
          BY <4>1, <5>1, <5>2
      <4> QED
        BY <2>1, <3>1, <4>3, Zenon DEF TaskOK, ListedOK
    <3> QED
      BY <3>2, <3>3
  <2>3. TaskTypeOK'
    BY <2>1, <2>2 DEF TaskIInv, TaskTypeOK
  <2> QED
    BY <2>2, <2>3 DEF TaskIInv
<1>2. ASSUME NEW q \in QueryIDs,
             \/ Tasking!KillQuery(q) \/ Tasking!Wait(q) \/ Tasking!WaitKill(q) \/ Tasking!WaitClosed(q) \/ Tasking!Watch(q)
             \/ Tasking!AttachQuery(q) \/ Tasking!Refuse(q) \/ Tasking!Statement(q) \/ Tasking!Check(q)
             \/ Tasking!Failed(q) \/ Tasking!Rejected(q) \/ Tasking!Rest(q) \/ Tasking!DetachQuery(q)
             \/ Tasking!Recover(q) \/ Tasking!Leave(q)
      PROVE  TaskIInv'
  <2>0. PICK t \in TaskRecords, w \in WaitPCs, e \in ExecRecords :
            /\ t = task[q] /\ w = waiting[q] /\ e = exec[q]
            /\ task = [task EXCEPT ![q] = t] /\ waiting = [waiting EXCEPT ![q] = w] /\ exec = [exec EXCEPT ![q] = e]
    BY DEF TaskIInv, TaskTypeOK
  <2>1. /\ Once(t)
        /\ t.by \in {"close", "waiter", "timeout"} => t.err # ""
        /\ w = "kill" /\ q \in queries => t.err # ""
        /\ w # "none" /\ q \notin queries => t.closes = 1
        /\ w = "none" => q \notin queries
        /\ e.pc \in {"none", "attach", "refused"} => w = "none"
        /\ e.pc \in {"recovered", "end"} => q \notin queries
    BY <2>0, Zenon DEF TaskIInv, TaskOK, ListedOK
  <2>2. ASSUME NEW by \in {"kill", "waiter", "detach"}
        PROVE  /\ Tasking!Closed(t, by) \in TaskRecords /\ Tasking!Closed(t, by).closes = 1
               /\ Once(Tasking!Closed(t, by)) /\ Tasking!Closed(t, by).err = t.err
               /\ Tasking!Closed(t, by).by \in {t.by, by}
    <3>1. t \in TaskRecords /\ Once(t) /\ by \in Closers
      BY <2>0, <2>1, Zenon DEF Closers
    <3> QED
      BY <3>1, ClosedTask, Zenon
  <2>3. CASE Tasking!KillQuery(q)
    <3>1. /\ task' = [task EXCEPT ![q] = Tasking!Closed(t, "kill")] /\ q \in queries
          /\ UNCHANGED <<queries, waiting, exec>>
      BY <2>0, <2>3 DEF Tasking!KillQuery
    <3> DEFINE c == Tasking!Closed(t, "kill")
    <3>2. c \in TaskRecords /\ c.closes = 1 /\ Once(c) /\ c.err = t.err /\ c.by \in {t.by, "kill"}
      BY <2>2
    <3> HIDE DEF c
    <3>3. task' = [task EXCEPT ![q] = c]
      BY <3>1 DEF c
    <3>4. waiting' = [waiting EXCEPT ![q] = w] /\ exec' = [exec EXCEPT ![q] = e] /\ queries' = queries
      BY <2>0, <3>1
    <3>5. /\ c.by \in {"close", "waiter", "timeout"} => c.err # ""
          /\ w = "kill" => c.err # ""
          /\ w # "none"
          /\ e.pc \notin {"none", "attach", "refused", "recovered", "end"}
      BY <2>1, <3>1, <3>2, Zenon
    <3> QED
      BY <3>2, <3>3, <3>4, <3>5, OneQuery, ZenonT(30)
  <2>4. CASE Tasking!Wait(q)
    <3>1. PICK why \in {"timeout", "interrupted"} : task' = [task EXCEPT ![q] = [t EXCEPT !.err = IF q \in queries THEN why ELSE t.err]]
      BY <2>0, <2>4, Zenon DEF Tasking!Wait
    <3> DEFINE u == [t EXCEPT !.err = IF q \in queries THEN why ELSE t.err]
    <3>2. /\ u \in TaskRecords /\ u.closes = t.closes /\ Once(u) /\ u.by = t.by
          /\ u.err = IF q \in queries THEN why ELSE t.err
      BY <2>0, <2>1, ErrSet, Zenon DEF Reasons, TaskRecords
    <3>3. UNCHANGED <<queries, exec>> /\ waiting' = [waiting EXCEPT ![q] = "kill"] /\ w = "select"
      BY <2>0, <2>4 DEF Tasking!Wait
    <3>4. task' = [task EXCEPT ![q] = u]
      BY <3>1
    <3>5. /\ u.by \in {"close", "waiter", "timeout"} => u.err # ""
          /\ q \in queries => u.err # ""
          /\ q \notin queries => u.closes = 1
      BY <2>1, <3>2, <3>3, Zenon
    <3> HIDE DEF u
    <3> QED
      BY <2>0, <2>1, <3>2, <3>3, <3>4, <3>5, OneQuery, Zenon DEF WaitPCs
  <2>5. CASE Tasking!WaitKill(q)
    <3>1. /\ w = "kill" /\ waiting' = [waiting EXCEPT ![q] = "done"] /\ UNCHANGED <<queries, exec>>
          /\ task' = [task EXCEPT ![q] = IF q \in queries THEN Tasking!Closed(t, "waiter") ELSE t]
      BY <2>0, <2>5 DEF Tasking!WaitKill
    <3>2. CASE q \in queries
      BY <2>0, <2>1, <2>2, <3>1, <3>2, OneQuery, Zenon DEF WaitPCs
    <3>3. CASE q \notin queries
      BY <2>0, <2>1, <3>1, <3>3, OneQuery, Zenon DEF WaitPCs
    <3> QED
      BY <3>2, <3>3
  <2>6. CASE Tasking!WaitClosed(q)
    BY <2>0, <2>1, <2>6, OneQuery, Zenon DEF Tasking!WaitClosed, WaitPCs
  <2>7. CASE Tasking!AttachQuery(q)
    <3>1. e.pc = "attach" /\ task' = task
      BY <2>0, <2>7 DEF Tasking!AttachQuery, Tasking!At
    <3>2. CASE UNCHANGED <<queries, waiting>> /\ Tasking!Goto(q, "refused")
      <4> DEFINE f == [e EXCEPT !.pc = "refused"]
      <4>1. exec' = [exec EXCEPT ![q] = f]
        BY <2>0, <3>2 DEF Tasking!Goto
      <4>2. f \in ExecRecords /\ f.pc = "refused"
        BY <2>0 DEF ExecRecords, ExecPCs
      <4> HIDE DEF f
      <4> QED
        BY <2>0, <2>1, <3>1, <3>2, <4>1, <4>2, OneQuery, Zenon DEF WaitPCs
    <3>3. CASE /\ queries' = queries \cup {q} /\ waiting' = [waiting EXCEPT ![q] = "select"]
               /\ Tasking!Goto(q, "statement")
      <4> DEFINE f == [e EXCEPT !.pc = "statement"]
      <4>1. exec' = [exec EXCEPT ![q] = f]
        BY <2>0, <3>3 DEF Tasking!Goto
      <4>2. f \in ExecRecords /\ f.pc = "statement"
        BY <2>0 DEF ExecRecords, ExecPCs
      <4> HIDE DEF f
      <4> QED
        BY <2>0, <2>1, <3>1, <3>3, <4>1, <4>2, OneQuery, Zenon DEF WaitPCs
    <3> QED
      BY <2>7, <3>2, <3>3 DEF Tasking!AttachQuery
  <2>8. ASSUME NEW pc \in ExecPCs \ {"none", "attach", "refused", "recovered"}, Tasking!Goto(q, pc),
               UNCHANGED <<queries, task, waiting>>,
               pc = "end" => e.pc \in {"refused", "recovered"},
               e.pc = "refused" => pc = "end"
        PROVE  TaskIInv'
    <3> DEFINE f == [e EXCEPT !.pc = pc]
    <3>1. exec' = [exec EXCEPT ![q] = f]
      BY <2>0, <2>8 DEF Tasking!Goto
    <3>2. f \in ExecRecords /\ f.pc = pc
      BY <2>0 DEF ExecRecords, ExecPCs
    <3> HIDE DEF f
    <3> QED
      BY <2>0, <2>1, <2>8, <3>1, <3>2, OneQuery, Zenon DEF WaitPCs
  <2>9. CASE Tasking!Refuse(q) \/ Tasking!Recover(q)
    BY <2>0, <2>8, <2>9 DEF ExecPCs, Tasking!Refuse, Tasking!Recover, Tasking!At
  <2>10. CASE Tasking!Statement(q)
    <3>1. e.pc = "statement" /\ UNCHANGED <<queries, task, waiting>>
      BY <2>0, <2>10, Zenon DEF Tasking!Statement, Tasking!At
    <3>2. Tasking!Goto(q, "check") \/ \E pc \in {"failed", "rejected", "panicked"} : Tasking!Goto(q, pc)
      BY <2>10, Zenon DEF Tasking!Statement
    <3> QED
      BY <2>8, <3>1, <3>2 DEF ExecPCs
  <2>11. CASE Tasking!Check(q)
    <3>1. UNCHANGED <<queries, task, waiting>> /\ e.pc = "check"
      BY <2>0, <2>11, Zenon DEF Tasking!Check, Tasking!At
    <3>2. PICK pc \in {"rest", "statement"}, i \in Nat : exec' = [exec EXCEPT ![q] = [e EXCEPT !.pc = pc, !.i = i]]
      <4>1. CASE Tasking!Goto(q, "rest")
        <5>1. [e EXCEPT !.pc = "rest"] = [e EXCEPT !.pc = "rest", !.i = e.i] /\ e.i \in Nat
          BY <2>0, Zenon DEF ExecRecords
        <5>2. exec' = [exec EXCEPT ![q] = [e EXCEPT !.pc = "rest"]]
          BY <2>0, <4>1 DEF Tasking!Goto
        <5> QED
          BY <5>1, <5>2, Zenon
      <4>2. CASE exec' = [exec EXCEPT ![q].pc = "statement", ![q].i = @ + 1]
        <5>1. e.i + 1 \in Nat
          BY <2>0 DEF ExecRecords
        <5>2. exec' = [exec EXCEPT ![q] = [e EXCEPT !.pc = "statement", !.i = e.i + 1]]
          BY <2>0, <4>2 DEF TaskIInv, TaskTypeOK, ExecRecords
        <5> QED
          BY <5>1, <5>2, Zenon
      <4> QED
        BY <2>11, <4>1, <4>2, Zenon DEF Tasking!Check
    <3> DEFINE f == [e EXCEPT !.pc = pc, !.i = i]
    <3>3. f \in ExecRecords /\ f.pc = pc /\ exec' = [exec EXCEPT ![q] = f]
      BY <2>0, <3>2, Zenon DEF ExecRecords, ExecPCs
    <3> HIDE DEF f
    <3>4. task' = [task EXCEPT ![q] = t] /\ waiting' = [waiting EXCEPT ![q] = w] /\ queries' = queries
      BY <2>0, <3>1
    <3>5. f.pc \notin {"none", "attach", "refused", "recovered", "end"}
      BY <3>3
    <3> QED
      BY <2>1, <3>3, <3>4, <3>5, OneQuery, ZenonT(30)
  <2>12. CASE Tasking!Failed(q) \/ Tasking!Rejected(q) \/ Tasking!Rest(q)
    <3>1. e.pc \in {"failed", "rejected", "rest"} /\ UNCHANGED <<queries, task, waiting>>
      BY <2>0, <2>12 DEF Tasking!Failed, Tasking!Rejected, Tasking!Rest, Tasking!At
    <3>2. Tasking!Goto(q, "rest") \/ Tasking!Goto(q, "detach")
      BY <2>12 DEF Tasking!Failed, Tasking!Rejected, Tasking!Rest
    <3> QED
      BY <2>8, <3>1, <3>2 DEF ExecPCs
  <2>13. CASE Tasking!DetachQuery(q)
    <3>1. /\ queries' = queries \ {q} /\ UNCHANGED waiting
          /\ task' = [task EXCEPT ![q] = IF q \in queries THEN Tasking!Closed(t, "detach") ELSE t]
          /\ e.pc \in {"statement", "detach", "panicked"}
      BY <2>0, <2>13 DEF Tasking!DetachQuery, Tasking!At
    <3>2. PICK pc \in {"end", "recovered"} : exec' = [exec EXCEPT ![q] = [e EXCEPT !.pc = pc]]
      BY <2>0, <2>13 DEF Tasking!DetachQuery, Tasking!Goto
    <3> DEFINE f == [e EXCEPT !.pc = pc]
    <3>3. exec' = [exec EXCEPT ![q] = f] /\ f \in ExecRecords /\ f.pc = pc
      BY <2>0, <3>2 DEF ExecRecords, ExecPCs
    <3> HIDE DEF f
    <3>4. waiting' = [waiting EXCEPT ![q] = w] /\ q \notin queries' /\ queries' = queries \ {q}
      BY <2>0, <2>1, <3>1, Zenon
    <3>5. f.pc \notin {"none", "attach", "refused"}
      BY <3>3
    <3>6. CASE q \in queries
      <4> DEFINE c == Tasking!Closed(t, "detach")
      <4>1. c \in TaskRecords /\ c.closes = 1 /\ Once(c) /\ c.err = t.err /\ c.by \in {t.by, "detach"}
        BY <2>2
      <4>2. task' = [task EXCEPT ![q] = c]
        BY <3>1, <3>6
      <4> HIDE DEF c
      <4>3. c.by \in {"close", "waiter", "timeout"} => c.err # ""
        BY <2>1, <4>1, Zenon
      <4> QED
        BY <3>3, <3>4, <3>5, <4>1, <4>2, <4>3, OneQuery, ZenonT(30)
    <3>7. CASE q \notin queries
      <4>1. task' = [task EXCEPT ![q] = t] /\ (w # "none" => t.closes = 1)
        BY <2>1, <3>1, <3>7, Zenon
      <4> QED
        BY <2>1, <3>3, <3>4, <3>5, <4>1, OneQuery, ZenonT(30)
    <3> QED
      BY <3>6, <3>7
  <2>14. CASE Tasking!Watch(q) \/ Tasking!Leave(q)
    <3>1. UNCHANGED <<queries, task, waiting, exec>>
      BY <2>14, Zenon DEF Tasking!Watch, Tasking!Leave
    <3>2. /\ task' = [task EXCEPT ![q] = t] /\ waiting' = [waiting EXCEPT ![q] = w] /\ exec' = [exec EXCEPT ![q] = e]
          /\ queries' = queries
      BY <2>0, <3>1
    <3> QED
      BY <2>1, <3>2, OneQuery, ZenonT(30)
  <2> QED
    BY <1>2, <2>3, <2>4, <2>5, <2>6, <2>7, <2>9, <2>10, <2>11, <2>12, <2>13, <2>14
<1>3. CASE UNCHANGED Tasking!tvars
  BY <1>3, Zenon DEF Tasking!tvars, TaskIInv, TaskTypeOK, TaskOK, ListedOK
<1> QED
  BY <1>1, <1>2, <1>3 DEF Tasking!Next

\* Each query loads some number of statements.
Counted == Loads \subseteq [QueryIDs -> Nat]

\* However KILL QUERY, the timeout, the interrupt, the end of a query and the shutdown
\* meet, Task.closing is closed once, by the end of the query at the latest, and a query
\* stopped by its timeout or the shutdown is given that reason.
THEOREM ReasonGivenThm == Counted => (Tasking!Spec => []ReasonGiven)
<1> SUFFICES ASSUME Counted PROVE Tasking!Spec => []ReasonGiven
  OBVIOUS
<1>1. ASSUME Tasking!Init PROVE TaskIInv
  <2>1. PICK load \in Loads :
          exec = [q \in QueryIDs |-> [pc |-> IF load[q] = 0 THEN "none" ELSE "attach", i |-> 0, n |-> load[q]]]
    BY <1>1, Zenon DEF Tasking!Init
  <2>2. /\ queries = {} /\ task = [q \in QueryIDs |-> Tasking!NoTask] /\ waiting = [q \in QueryIDs |-> "none"]
        /\ Tasking!NoTask \in TaskRecords
    BY <1>1, Zenon DEF Tasking!Init, Tasking!NoTask, TaskRecords, Reasons, Closers
  <2>3. exec \in [QueryIDs -> ExecRecords] /\ \A q \in QueryIDs : exec[q].pc \in {"none", "attach"}
    BY <1>1, <2>1 DEF Counted, ExecRecords, ExecPCs
  <2>4. \A q \in QueryIDs : TaskOK(q) /\ ListedOK(q)
    <3>1. Once(Tasking!NoTask)
      BY Zenon DEF Once, Tasking!NoTask
    <3> QED
      BY <2>2, <2>3, <3>1, Zenon DEF TaskOK, ListedOK, Tasking!NoTask
  <2> QED
    BY <2>2, <2>3, <2>4 DEF TaskIInv, TaskTypeOK, WaitPCs
<1>2. TaskIInv => ReasonGiven
  <2> SUFFICES ASSUME TaskIInv, NEW q \in QueryIDs
               PROVE  /\ task[q].closes <= 1
                      /\ exec[q].pc = "end" /\ waiting[q] # "none" => task[q].closes = 1
                      /\ task[q].by \in {"close", "waiter", "timeout"} => task[q].err # ""
    BY Zenon DEF ReasonGiven, Tasking!ReasonGiven, Tasking!At
  <2>1. TaskOK(q) /\ ListedOK(q)
    BY DEF TaskIInv
  <2>2. task[q].closes = 0 \/ task[q].closes = 1
    BY <2>1, Zenon DEF TaskOK, Once
  <2>3. task[q].closes <= 1
    BY <2>2
  <2> QED
    BY <2>1, <2>3, Zenon DEF TaskOK, ListedOK
<1> QED
  BY <1>1, <1>2, TaskStep, PTL DEF Tasking!Spec

-----------------------------------------------------------------------------
(* The subscriber *)

Dests == 0 .. Destinations - 1
WorkRecords == [pc : {"idle", "pick", "advance", "write"}, req : Nat, left : Int, dest : Dests]
ChanRecords == [q : Seq(Nat), closed : BOOLEAN, i : Dests, workers : [1 .. Workers -> WorkRecords]]

\* The channel of a chanWriter still takes requests.
Takes(w) == ~w.closed

\* A chanWriter has the request in its channel, or one of its workers is at it.
Held(w, r) ==
  \/ \E k \in 1 .. Len(w.q) : w.q[k] = r
  \/ \E k \in 1 .. Workers : w.workers[k].pc # "idle" /\ w.workers[k].req = r

Tried(r, s, c) == \E j \in Dests : <<r, s, c, j>> \in tried

\* Where a request that is due is: in Service.points, or with the chanWriter that took it,
\* or it was tried.
DueAt(r, s, c) ==
  IF c = 0 THEN \E k \in 1 .. Len(points) : points[k] = r
           ELSE c \in 1 .. Len(chans[s]) /\ (Held(chans[s][c], r) \/ Tried(r, s, c))

SubTypeOK ==
  /\ meta \in SUBSET Subs /\ subs \in SUBSET Subs
  /\ loop \in {"update", "select", "drain", "done"}
  /\ server \in {"open", "writer", "subscriber", "closed"}
  /\ chans \in [Subs -> Seq(ChanRecords)]
  /\ points \in Seq(Nat) /\ sent \in Nat
  /\ due \in SUBSET (Nat \X Subs \X Nat)

\* run sends to the last chanWriter of a subscription it holds, which it has not closed.
LastTakes == loop \in {"update", "select"} => \A s \in subs : Len(chans[s]) >= 1 /\ Takes(chans[s][Len(chans[s])])

\* PointsWriter.Close drops the channel before Subscriber.Close closes it.
HandedOver == subPoints => server = "open"

\* run leaves its loop when the channel is closed and empty, and returns when all workers
\* have; Subscriber.Close waits for it.
Drained ==
  /\ loop \in {"drain", "done"} => server \in {"subscriber", "closed"} /\ points = <<>>
  /\ loop = "done" => \A s \in Subs : \A c \in 1 .. Len(chans[s]), r \in Nat : ~Held(chans[s][c], r)
  /\ server = "closed" => loop = "done"

AllDue == \A d \in due : DueAt(d[1], d[2], d[3])

SubIInv == SubTypeOK /\ LastTakes /\ HandedOver /\ Drained /\ AllDue /\ ~panic

Numbered == Destinations \in Nat \ {0}

\* A step that keeps what the chanWriters hold, or tries it, keeps what is due.
LEMMA DueKept ==
  ASSUME SubTypeOK, AllDue, UNCHANGED <<points, due>>, tried \subseteq tried',
         \A s \in Subs : \A c \in 1 .. Len(chans[s]) :
            /\ c \in 1 .. Len(chans'[s])
            /\ \A r \in Nat : Held(chans[s][c], r) => Held(chans'[s][c], r) \/ Tried(r, s, c)'
  PROVE  AllDue'
<1> SUFFICES ASSUME NEW d \in due PROVE DueAt(d[1], d[2], d[3])'
  BY DEF AllDue
<1>1. DueAt(d[1], d[2], d[3]) /\ d[1] \in Nat /\ d[2] \in Subs /\ d[3] \in Nat
  BY DEF AllDue, SubTypeOK
<1>2. CASE d[3] = 0
  BY <1>1, <1>2 DEF DueAt
<1>3. CASE d[3] # 0
  <2>1. d[3] \in 1 .. Len(chans[d[2]]) /\ (Held(chans[d[2]][d[3]], d[1]) \/ Tried(d[1], d[2], d[3]))
    BY <1>1, <1>3 DEF DueAt
  <2>2. Tried(d[1], d[2], d[3]) => Tried(d[1], d[2], d[3])'
    BY DEF Tried
  <2>3. d[3] \in 1 .. Len(chans'[d[2]]) /\ (Held(chans'[d[2]][d[3]], d[1]) \/ Tried(d[1], d[2], d[3])')
    BY <1>1, <2>1, <2>2, Zenon
  <2> QED
    BY <1>3, <2>3 DEF DueAt
<1> QED
  BY <1>2, <1>3

\* A step of one chanWriter.
LEMMA OneChan ==
  ASSUME SubIInv, NEW s \in Subs, NEW c \in 1 .. Len(chans[s]), NEW w \in ChanRecords,
         chans' = [chans EXCEPT ![s] = [chans[s] EXCEPT ![c] = w]],
         UNCHANGED <<meta, loop, subs, points, subPoints, server, sent, due, panic>>,
         tried \subseteq tried',
         Takes(chans[s][c]) => Takes(w),
         \A r \in Nat : Held(chans[s][c], r) => Held(w, r) \/ Tried(r, s, c)',
         \A r \in Nat : Held(w, r) => Held(chans[s][c], r)
  PROVE  SubIInv'
<1>0. SubTypeOK /\ chans[s] \in Seq(ChanRecords)
  BY DEF SubIInv, SubTypeOK
<1>1. /\ [chans[s] EXCEPT ![c] = w] \in Seq(ChanRecords) /\ Len([chans[s] EXCEPT ![c] = w]) = Len(chans[s])
      /\ [chans[s] EXCEPT ![c] = w][c] = w
      /\ \A b \in 1 .. Len(chans[s]) : b # c => [chans[s] EXCEPT ![c] = w][b] = chans[s][b]
  BY <1>0
<1>2. /\ chans' \in [Subs -> Seq(ChanRecords)] /\ \A t \in Subs : t # s => chans'[t] = chans[t]
      /\ chans'[s] = [chans[s] EXCEPT ![c] = w]
  BY <1>0, <1>1 DEF SubTypeOK
<1>3. SubTypeOK'
  BY <1>0, <1>2 DEF SubTypeOK
<1>4. \A t \in Subs : /\ Len(chans'[t]) = Len(chans[t])
                      /\ \A b \in 1 .. Len(chans[t]) : chans'[t][b] = IF t = s /\ b = c THEN w ELSE chans[t][b]
  BY <1>1, <1>2
<1>5. AllDue'
  <2>1. \A t \in Subs : \A b \in 1 .. Len(chans[t]) :
            /\ b \in 1 .. Len(chans'[t])
            /\ \A r \in Nat : Held(chans[t][b], r) => Held(chans'[t][b], r) \/ Tried(r, t, b)'
    BY <1>4
  <2> QED
    BY <1>0, <2>1, DueKept DEF SubIInv
<1>6. LastTakes'
  <2> SUFFICES ASSUME loop \in {"update", "select"}, NEW t \in subs
               PROVE  Len(chans'[t]) >= 1 /\ Takes(chans'[t][Len(chans'[t])])
    BY DEF LastTakes
  <2>1. t \in Subs /\ Len(chans[t]) >= 1 /\ Takes(chans[t][Len(chans[t])]) /\ Len(chans[t]) \in 1 .. Len(chans[t])
    BY <1>0 DEF SubIInv, LastTakes, SubTypeOK
  <2> QED
    BY <1>4, <2>1
<1>7. Drained'
  <2>1. ASSUME loop = "done", NEW t \in Subs, NEW b \in 1 .. Len(chans'[t]), NEW r \in Nat, Held(chans'[t][b], r)
        PROVE  FALSE
    <3>1. b \in 1 .. Len(chans[t]) /\ ~Held(chans[t][b], r)
      BY <1>4, <2>1 DEF SubIInv, Drained
    <3> QED
      BY <1>4, <2>1, <3>1
  <2> QED
    BY <2>1 DEF SubIInv, Drained
<1>8. HandedOver' /\ ~panic'
  BY DEF SubIInv, HandedOver
<1> QED
  BY <1>3, <1>5, <1>6, <1>7, <1>8 DEF SubIInv

LEMMA WorkerKeeps ==
  ASSUME Numbered, SubIInv, Subscribing!WorkerStep
  PROVE  SubIInv'
<1>0. PICK s \in Subs : \E c \in 1 .. Len(chans[s]), k \in 1 .. Workers :
        \/ Subscribing!Receive(s, c, k) \/ Subscribing!Pick(s, c, k)
        \/ Subscribing!Advance(s, c, k) \/ Subscribing!Write(s, c, k)
  <2>1. \A e \in Subscribing!ChanWriters : e[1] \in Subs /\ e[2] \in 1 .. Len(chans[e[1]])
    BY DEF Subscribing!ChanWriters, SubIInv, SubTypeOK
  <2> QED
    BY <2>1 DEF Subscribing!WorkerStep
<1>10. PICK c \in 1 .. Len(chans[s]), k \in 1 .. Workers :
        \/ Subscribing!Receive(s, c, k) \/ Subscribing!Pick(s, c, k)
        \/ Subscribing!Advance(s, c, k) \/ Subscribing!Write(s, c, k)
  BY <1>0
<1>1. UNCHANGED <<meta, loop, subs, points, subPoints, server, sent, due, panic>>
  BY DEF Subscribing!WorkerStep
<1>2. PICK w \in ChanRecords : w = chans[s][c]
  BY DEF SubIInv, SubTypeOK
<1>3. PICK v \in WorkRecords : v = w.workers[k]
  BY <1>2, Zenon DEF ChanRecords
<1>4. /\ w.q \in Seq(Nat) /\ w.i \in Dests /\ 0 \in Dests /\ Destinations \in Int
      /\ v.pc \in {"idle", "pick", "advance", "write"} /\ v.req \in Nat /\ v.left \in Int /\ v.dest \in Dests
  BY DEF ChanRecords, WorkRecords, Numbered, Dests
<1>5. ASSUME NEW q \in Seq(Nat), NEW x \in WorkRecords, NEW u \in ChanRecords,
             chans' = [chans EXCEPT ![s][c] = u],
             u.q = q, u.workers = [w.workers EXCEPT ![k] = x], u.closed = w.closed,
             tried \subseteq tried',
             \/ /\ q = w.q /\ v.pc # "idle"
                /\ (x.req = v.req /\ x.pc # "idle") \/ (x.pc = "idle" /\ Tried(v.req, s, c)')
             \/ q = Tail(w.q) /\ w.q # <<>> /\ x.req = Head(w.q) /\ x.pc # "idle" /\ v.pc = "idle"
      PROVE  SubIInv'
  <2>1. /\ u.q = q /\ u.workers[k] = x
        /\ \A l \in 1 .. Workers : l # k => u.workers[l] = w.workers[l]
    BY <1>5, Zenon DEF ChanRecords
  <2>2. Takes(w) => Takes(u)
    BY <1>5, Zenon DEF Takes
  <2>3. ASSUME NEW r \in Nat, Held(w, r) PROVE Held(u, r) \/ Tried(r, s, c)'
    <3>1. CASE \E l \in 1 .. Workers : w.workers[l].pc # "idle" /\ w.workers[l].req = r
      BY <1>3, <1>5, <2>1, <3>1, SMTT(30) DEF Held
    <3>2. CASE \E l \in 1 .. Len(w.q) : w.q[l] = r
      <4>1. PICK l \in 1 .. Len(w.q) : w.q[l] = r
        BY <3>2
      <4>2. CASE q = w.q
        BY <2>1, <4>1, <4>2 DEF Held
      <4>3. CASE q = Tail(w.q) /\ w.q # <<>> /\ x.req = Head(w.q) /\ x.pc # "idle"
        <5>1. CASE l = 1
          BY <1>4, <2>1, <4>1, <4>3, <5>1 DEF Held
        <5>2. CASE l # 1
          <6>1. l - 1 \in 1 .. Len(q) /\ q[l - 1] = r
            <7>1. l \in 2 .. Len(w.q) /\ Len(q) = Len(w.q) - 1
              BY <1>4, <4>1, <4>3, <5>2
            <7>2. \A m \in 1 .. Len(q) : q[m] = w.q[m + 1]
              BY <1>4, <4>3
            <7> QED
              BY <4>1, <7>1, <7>2
          <6> QED
            BY <2>1, <6>1 DEF Held
        <5> QED
          BY <5>1, <5>2
      <4> QED
        BY <1>5, <4>2, <4>3
    <3> QED
      BY <2>3, <3>1, <3>2 DEF Held
  <2>4. ASSUME NEW r \in Nat, Held(u, r) PROVE Held(w, r)
    <3>1. CASE \E l \in 1 .. Workers : u.workers[l].pc # "idle" /\ u.workers[l].req = r
      <4>1. PICK l \in 1 .. Workers : u.workers[l].pc # "idle" /\ u.workers[l].req = r
        BY <3>1
      <4>2. CASE l # k
        BY <2>1, <4>1, <4>2 DEF Held
      <4>3. CASE l = k /\ q = w.q
        BY <1>3, <1>5, <2>1, <4>1, <4>3 DEF Held
      <4>4. CASE l = k /\ w.q # <<>> /\ x.req = Head(w.q)
        <5>1. 1 \in 1 .. Len(w.q) /\ w.q[1] = r
          BY <1>4, <2>1, <4>1, <4>4
        <5> QED
          BY <5>1 DEF Held
      <4> QED
        BY <1>5, <4>2, <4>3, <4>4
    <3>2. CASE \E l \in 1 .. Len(u.q) : u.q[l] = r
      <4>1. PICK l \in 1 .. Len(q) : q[l] = r
        BY <2>1, <3>2
      <4>2. CASE q = w.q
        BY <4>1, <4>2 DEF Held
      <4>3. CASE q = Tail(w.q) /\ w.q # <<>>
        <5>1. l + 1 \in 1 .. Len(w.q) /\ w.q[l + 1] = r
          BY <1>4, <4>1, <4>3
        <5> QED
          BY <5>1 DEF Held
      <4> QED
        BY <1>5, <4>2, <4>3
    <3> QED
      BY <2>4, <3>1, <3>2 DEF Held
  <2> QED
    BY <1>1, <1>2, <1>5, <2>1, <2>2, <2>3, <2>4, OneChan, Zenon
<1>6. CASE Subscribing!Receive(s, c, k)
  <2> DEFINE x == [pc |-> "pick", req |-> Head(w.q), left |-> Destinations, dest |-> 0]
             u == [w EXCEPT !.q = Tail(@), !.workers[k] = x]
  <2>1. v.pc = "idle" /\ w.q # <<>> /\ tried' = tried /\ chans' = [chans EXCEPT ![s][c] = u]
    BY <1>2, <1>3, <1>6 DEF Subscribing!Receive, Subscribing!SetChan
  <2>2. Tail(w.q) \in Seq(Nat) /\ x \in WorkRecords /\ x.req = Head(w.q) /\ x.pc = "pick"
    BY <1>4, <2>1 DEF WorkRecords
  <2> HIDE DEF x
  <2>3. u \in ChanRecords /\ u.q = Tail(w.q) /\ u.workers = [w.workers EXCEPT ![k] = x] /\ u.closed = w.closed
    BY <2>2, Zenon DEF ChanRecords
  <2> HIDE DEF u
  <2> QED
    BY <1>4, <1>5, <2>1, <2>2, <2>3, Zenon
<1>7. CASE Subscribing!Pick(s, c, k)
  <2> DEFINE x == [v EXCEPT !.pc = "advance", !.dest = w.i]
             u == [w EXCEPT !.workers[k] = x]
  <2>1. v.pc = "pick" /\ tried' = tried /\ chans' = [chans EXCEPT ![s][c] = u]
    BY <1>2, <1>3, <1>7 DEF Subscribing!Pick, Subscribing!SetChan
  <2>2. x \in WorkRecords /\ x.req = v.req /\ x.pc = "advance"
    BY <1>4, Zenon DEF WorkRecords
  <2> HIDE DEF x
  <2>3. u \in ChanRecords /\ u.q = w.q /\ u.workers = [w.workers EXCEPT ![k] = x] /\ u.closed = w.closed
    BY <2>2, Zenon DEF ChanRecords
  <2> HIDE DEF u
  <2> QED
    BY <1>4, <1>5, <2>1, <2>2, <2>3, Zenon
<1>8. CASE Subscribing!Advance(s, c, k)
  <2>1. PICK old \in Dests : chans' = [chans EXCEPT ![s][c] = [w EXCEPT !.i = (old + 1) % Destinations,
                                                                  !.workers[k] = [v EXCEPT !.pc = "write"]]]
    BY <1>2, <1>3, <1>4, <1>8, Zenon DEF Subscribing!Advance, Subscribing!SetChan
  <2>2. PICK i \in Dests : i = (old + 1) % Destinations
    BY DEF Dests, Numbered
  <2> DEFINE x == [v EXCEPT !.pc = "write"]
             u == [w EXCEPT !.i = i, !.workers[k] = x]
  <2>3. v.pc = "advance" /\ tried' = tried /\ chans' = [chans EXCEPT ![s][c] = u]
    BY <1>2, <1>3, <1>8, <2>1, <2>2 DEF Subscribing!Advance
  <2>4. x \in WorkRecords /\ x.req = v.req /\ x.pc = "write"
    BY <1>4 DEF WorkRecords
  <2> HIDE DEF x
  <2>5. u \in ChanRecords /\ u.q = w.q /\ u.workers = [w.workers EXCEPT ![k] = x] /\ u.closed = w.closed
    BY <2>4, Zenon DEF ChanRecords
  <2> HIDE DEF u
  <2> QED
    BY <1>4, <1>5, <2>3, <2>4, <2>5, Zenon
<1>9. CASE Subscribing!Write(s, c, k)
  <2>1. v.pc = "write" /\ tried' = tried \cup {<<v.req, s, c, v.dest>>}
    BY <1>2, <1>3, <1>9 DEF Subscribing!Write
  <2>2. PICK x \in {Subscribing!NoWork, [v EXCEPT !.pc = "pick", !.left = v.left - 1]} :
           chans' = [chans EXCEPT ![s][c] = [w EXCEPT !.workers[k] = x]]
    <3>1. PICK ok \in BOOLEAN :
             chans' = [chans EXCEPT ![s][c] = [w EXCEPT !.workers[k] =
                          IF v.left = 1 \/ (ok /\ mode = "ANY") THEN Subscribing!NoWork
                                                                ELSE [v EXCEPT !.pc = "pick", !.left = v.left - 1]]]
      BY <1>2, <1>3, <1>9, Zenon DEF Subscribing!Write, Subscribing!SetChan
    <3>2. CASE v.left = 1 \/ (ok /\ mode = "ANY")
      BY <3>1, <3>2, Zenon
    <3>3. CASE ~(v.left = 1 \/ (ok /\ mode = "ANY"))
      BY <3>1, <3>3, Zenon
    <3> QED
      BY <3>2, <3>3
  <2>3. x \in WorkRecords /\ (x.pc = "idle" \/ (x.req = v.req /\ x.pc # "idle"))
    <3>1. CASE x = Subscribing!NoWork
      BY <1>4, <3>1 DEF WorkRecords, Subscribing!NoWork
    <3>2. CASE x = [v EXCEPT !.pc = "pick", !.left = v.left - 1]
      <4> DEFINE y == [v EXCEPT !.pc = "pick", !.left = v.left - 1]
      <4>1. v.left - 1 \in Int
        BY <1>4
      <4>2. y \in WorkRecords /\ y.req = v.req /\ y.pc = "pick"
        BY <1>4, <4>1, Zenon DEF WorkRecords
      <4> HIDE DEF y
      <4>3. x = y
        BY <3>2 DEF y
      <4> QED
        BY <4>2, <4>3
    <3> QED
      BY <2>2, <3>1, <3>2
  <2> DEFINE u == [w EXCEPT !.workers[k] = x]
  <2>4. u \in ChanRecords /\ u.q = w.q /\ u.workers = [w.workers EXCEPT ![k] = x] /\ u.closed = w.closed
    BY <2>3, Zenon DEF ChanRecords
  <2>5. chans' = [chans EXCEPT ![s][c] = u]
    BY <2>2
  <2>6. Tried(v.req, s, c)'
    BY <1>4, <2>1 DEF Tried
  <2> HIDE DEF u
  <2> QED
    BY <1>4, <1>5, <2>1, <2>3, <2>4, <2>5, <2>6, Zenon
<1> QED
  BY <1>10, <1>6, <1>7, <1>8, <1>9

\* A chanWriter that was closed last, and a new one.
LEMMA ClosedLast ==
  ASSUME NEW ws \in Seq(ChanRecords), ws # <<>>
  PROVE  /\ Subscribing!CloseLast(ws) \in Seq(ChanRecords) /\ Len(Subscribing!CloseLast(ws)) = Len(ws)
         /\ \A c \in 1 .. Len(ws), r \in Nat : Held(Subscribing!CloseLast(ws)[c], r) <=> Held(ws[c], r)
<1> DEFINE n == Len(ws)
           w == [ws[n] EXCEPT !.closed = TRUE]
<1>1. n \in 1 .. Len(ws) /\ ws[n] \in ChanRecords
  OBVIOUS
<1>2. w \in ChanRecords /\ w.q = ws[n].q /\ w.workers = ws[n].workers
  BY <1>1, Zenon DEF ChanRecords
<1>3. Subscribing!CloseLast(ws) = [ws EXCEPT ![n] = w]
  BY DEF Subscribing!CloseLast
<1> HIDE DEF w
<1>4. /\ [ws EXCEPT ![n] = w] \in Seq(ChanRecords) /\ Len([ws EXCEPT ![n] = w]) = Len(ws)
      /\ \A c \in 1 .. Len(ws) : [ws EXCEPT ![n] = w][c] = IF c = n THEN w ELSE ws[c]
  BY <1>1, <1>2
<1>5. \A r \in Nat : Held(w, r) <=> Held(ws[n], r)
  BY <1>2 DEF Held
<1> QED
  BY <1>3, <1>4, <1>5, Zenon

LEMMA Started ==
  ASSUME Numbered
  PROVE  /\ Subscribing!NewWriter \in ChanRecords /\ Takes(Subscribing!NewWriter)
         /\ \A r \in Nat : ~Held(Subscribing!NewWriter, r)
<1>1. Subscribing!NoWork \in WorkRecords /\ Subscribing!NoWork.pc = "idle"
  BY DEF Subscribing!NoWork, WorkRecords, Numbered, Dests
<1>2. 0 \in Dests /\ <<>> \in Seq(Nat) /\ [k \in 1 .. Workers |-> Subscribing!NoWork] \in [1 .. Workers -> WorkRecords]
  BY <1>1 DEF Numbered, Dests
<1>3. /\ Subscribing!NewWriter \in ChanRecords /\ Takes(Subscribing!NewWriter) /\ Subscribing!NewWriter.q = <<>>
      /\ Subscribing!NewWriter.workers = [k \in 1 .. Workers |-> Subscribing!NoWork]
  BY <1>2, Zenon DEF Subscribing!NewWriter, ChanRecords, Takes
<1> QED
  BY <1>1, <1>3 DEF Held

\* updateSubs.
LEMMA UpdateKeeps ==
  ASSUME Numbered, SubIInv, Subscribing!UpdateSubs
  PROVE  SubIInv'
<1>0. /\ SubTypeOK /\ loop = "update" /\ loop' = "select" /\ subs' = meta
      /\ UNCHANGED <<meta, points, subPoints, server, sent, due, tried, panic>>
  BY DEF Subscribing!UpdateSubs, SubIInv
<1>1. ASSUME NEW s \in Subs
      PROVE  /\ chans'[s] \in Seq(ChanRecords) /\ Len(chans[s]) <= Len(chans'[s])
             /\ \A c \in 1 .. Len(chans[s]), r \in Nat : Held(chans[s][c], r) => Held(chans'[s][c], r)
             /\ s \in meta => Len(chans'[s]) >= 1 /\ Takes(chans'[s][Len(chans'[s])])
  <2>0. chans[s] \in Seq(ChanRecords)
    BY <1>0 DEF SubTypeOK
  <2>1. CASE s \in meta \ subs
    <3>1. chans'[s] = Append(chans[s], Subscribing!NewWriter)
      BY <2>1 DEF Subscribing!UpdateSubs
    <3>2. /\ chans'[s] \in Seq(ChanRecords) /\ Len(chans'[s]) = Len(chans[s]) + 1
          /\ chans'[s][Len(chans'[s])] = Subscribing!NewWriter
          /\ \A c \in 1 .. Len(chans[s]) : chans'[s][c] = chans[s][c]
      BY <2>0, <3>1, Started
    <3> QED
      BY <2>0, <3>2, Started
  <2>2. CASE s \in subs \ meta
    <3>1. chans'[s] = Subscribing!CloseLast(chans[s])
      BY <2>2, Zenon DEF Subscribing!UpdateSubs
    <3>2. chans[s] # <<>>
      BY <1>0, <2>0, <2>2 DEF SubIInv, LastTakes
    <3> QED
      BY <2>0, <2>2, <3>1, <3>2, ClosedLast
  <2>3. CASE (s \in meta) <=> (s \in subs)
    <3>1. chans'[s] = chans[s]
      BY <2>3 DEF Subscribing!UpdateSubs
    <3>2. s \in meta => Len(chans[s]) >= 1 /\ Takes(chans[s][Len(chans[s])])
      BY <1>0, <2>3 DEF SubIInv, LastTakes
    <3> QED
      BY <2>0, <3>1, <3>2
  <2> QED
    BY <2>1, <2>2, <2>3
<1>2. chans' = [s \in Subs |-> chans'[s]]
  BY DEF Subscribing!UpdateSubs
<1>3. SubTypeOK'
  BY <1>0, <1>1, <1>2 DEF SubTypeOK
<1>4. AllDue'
  <2>1. \A s \in Subs : \A c \in 1 .. Len(chans[s]) :
            /\ c \in 1 .. Len(chans'[s])
            /\ \A r \in Nat : Held(chans[s][c], r) => Held(chans'[s][c], r) \/ Tried(r, s, c)'
    BY <1>0, <1>1 DEF SubTypeOK
  <2> QED
    BY <1>0, <2>1, DueKept, Zenon DEF SubIInv
<1>5. LastTakes'
  BY <1>0, <1>1 DEF LastTakes, SubTypeOK
<1>6. Drained' /\ HandedOver' /\ ~panic'
  BY <1>0 DEF SubIInv, Drained, HandedOver
<1> QED
  BY <1>3, <1>4, <1>5, <1>6 DEF SubIInv

\* The end of run: the channels are closed, then everything is waited for.
LEMMA DrainKeeps ==
  ASSUME SubIInv, Subscribing!Drain \/ Subscribing!Finish
  PROVE  SubIInv'
<1>1. CASE Subscribing!Drain
  <2>0. /\ SubTypeOK /\ loop = "select" /\ loop' = "drain" /\ server \in {"subscriber", "closed"} /\ points = <<>>
        /\ UNCHANGED <<meta, subs, points, subPoints, server, sent, due, tried, panic>>
    BY <1>1 DEF Subscribing!Drain, Subscribing!Closing, SubIInv
  <2>1. ASSUME NEW s \in Subs
        PROVE  /\ chans'[s] \in Seq(ChanRecords) /\ Len(chans[s]) = Len(chans'[s])
               /\ \A c \in 1 .. Len(chans[s]), r \in Nat : Held(chans[s][c], r) => Held(chans'[s][c], r)
    <3>0. chans[s] \in Seq(ChanRecords)
      BY <2>0 DEF SubTypeOK
    <3>1. CASE s \in subs
      <4>1. chans'[s] = Subscribing!CloseLast(chans[s]) /\ chans[s] # <<>>
        BY <1>1, <2>0, <3>0, <3>1 DEF Subscribing!Drain, SubIInv, LastTakes
      <4> QED
        BY <3>0, <4>1, ClosedLast
    <3>2. CASE s \notin subs
      <4>1. chans'[s] = chans[s]
        BY <1>1, <3>2 DEF Subscribing!Drain
      <4> QED
        BY <3>0, <4>1
    <3> QED
      BY <3>1, <3>2, Zenon
  <2>2. chans' = [s \in Subs |-> chans'[s]]
    BY <1>1 DEF Subscribing!Drain
  <2>3. SubTypeOK'
    BY <2>0, <2>1, <2>2 DEF SubTypeOK
  <2>4. AllDue'
    <3>1. \A s \in Subs : \A c \in 1 .. Len(chans[s]) :
              /\ c \in 1 .. Len(chans'[s])
              /\ \A r \in Nat : Held(chans[s][c], r) => Held(chans'[s][c], r) \/ Tried(r, s, c)'
      BY <2>0, <2>1 DEF SubTypeOK
    <3> QED
      BY <2>0, <3>1, DueKept DEF SubIInv
  <2>5. LastTakes' /\ Drained' /\ HandedOver' /\ ~panic'
    BY <2>0 DEF SubIInv, LastTakes, Drained, HandedOver
  <2> QED
    BY <2>3, <2>4, <2>5 DEF SubIInv
<1>2. CASE Subscribing!Finish
  <2>0. /\ SubTypeOK /\ loop = "drain" /\ loop' = "done" /\ subs' = {} /\ Subscribing!AllExited
        /\ UNCHANGED <<meta, chans, points, subPoints, server, sent, due, tried, panic>>
    BY <1>2 DEF Subscribing!Finish, SubIInv
  <2>1. ASSUME NEW s \in Subs, NEW c \in 1 .. Len(chans[s]), NEW r \in Nat
        PROVE  ~Held(chans[s][c], r)
    <3>1. <<s, c>> \in Subscribing!ChanWriters
      BY <2>0 DEF Subscribing!ChanWriters, SubTypeOK
    <3>2. Subscribing!Exited(chans[s][c])
      BY <2>0, <3>1, Zenon DEF Subscribing!AllExited
    <3>3. chans[s][c].q = <<>> /\ \A k \in 1 .. Workers : chans[s][c].workers[k].pc = "idle"
      BY <3>2, SMTT(30) DEF Subscribing!Exited, Subscribing!NoWork
    <3> QED
      BY <3>3 DEF Held
  <2>2. Drained'
    BY <2>0, <2>1 DEF SubIInv, Drained
  <2>3. SubTypeOK' /\ LastTakes' /\ HandedOver' /\ ~panic'
    BY <2>0 DEF SubTypeOK, LastTakes, SubIInv, HandedOver
  <2>4. AllDue'
    BY <2>0, Zenon DEF SubIInv, AllDue, DueAt, Tried
  <2> QED
    BY <2>2, <2>3, <2>4 DEF SubIInv
<1> QED
  BY <1>1, <1>2

\* run hands a request on: to every subscription with room, whose channel is not closed.
LEMMA DispatchKeeps ==
  ASSUME SubIInv, Subscribing!Dispatch
  PROVE  SubIInv'
<1>9. PICK p \in Nat : p = Head(points)
  BY DEF Subscribing!Dispatch, SubIInv, SubTypeOK
<1> DEFINE room == {s \in subs : Len(chans[s][Len(chans[s])].q) < WriteBufferSize}
<1>0. /\ SubTypeOK /\ LastTakes /\ loop = "select" /\ points # <<>> /\ points' = Tail(points)
      /\ UNCHANGED <<meta, loop, subs, subPoints, server, sent, tried>>
      /\ due' = {d \in due : d[1] # p} \cup {<<p, s, Len(chans[s])>> : s \in room}
      /\ chans' = [s \in Subs |-> IF s \in room THEN [chans[s] EXCEPT ![Len(chans[s])].q = Append(@, p)] ELSE chans[s]]
  BY <1>9 DEF Subscribing!Dispatch, Subscribing!LastOf, SubIInv
<1>1. Tail(points) \in Seq(Nat) /\ room \subseteq subs /\ subs \subseteq Subs
  BY <1>0, SMTT(30) DEF SubTypeOK
<1> HIDE DEF room
<1>2. ASSUME NEW s \in Subs
      PROVE  /\ chans'[s] \in Seq(ChanRecords) /\ Len(chans[s]) = Len(chans'[s])
             /\ \A c \in 1 .. Len(chans[s]), r \in Nat : Held(chans[s][c], r) => Held(chans'[s][c], r)
             /\ Len(chans[s]) >= 1 /\ Takes(chans[s][Len(chans[s])]) => Takes(chans'[s][Len(chans[s])])
             /\ s \in room => Held(chans'[s][Len(chans[s])], p) /\ Len(chans[s]) >= 1
  <2>0. chans[s] \in Seq(ChanRecords)
    BY <1>0 DEF SubTypeOK
  <2>1. CASE s \notin room
    BY <1>0, <2>0, <2>1, Zenon
  <2>2. CASE s \in room
    <3> DEFINE n == Len(chans[s])
    <3>1. n >= 1 /\ n \in 1 .. Len(chans[s])
      BY <1>0, <1>1, <2>0, <2>2 DEF LastTakes
    <3>2. PICK w \in ChanRecords : w = chans[s][n]
      BY <2>0, <3>1
    <3> DEFINE u == [w EXCEPT !.q = Append(w.q, p)]
    <3>3. w.q \in Seq(Nat) /\ Append(w.q, p) \in Seq(Nat)
      BY <1>1 DEF ChanRecords
    <3>4. u \in ChanRecords /\ u.q = Append(w.q, p) /\ u.workers = w.workers /\ (Takes(w) => Takes(u))
      BY <3>3, Zenon DEF ChanRecords, Takes
    <3>5. chans'[s] = [chans[s] EXCEPT ![n] = u]
      BY <1>0, <2>2, <3>2
    <3> HIDE DEF u
    <3>6. /\ chans'[s] \in Seq(ChanRecords) /\ Len(chans'[s]) = n /\ chans'[s][n] = u
          /\ \A c \in 1 .. n : c # n => chans'[s][c] = chans[s][c]
      BY <2>0, <3>1, <3>4, <3>5
    <3>7. ASSUME NEW r \in Nat, Held(w, r) PROVE Held(u, r)
      <4>1. CASE \E k \in 1 .. Workers : w.workers[k].pc # "idle" /\ w.workers[k].req = r
        BY <3>4, <4>1 DEF Held
      <4>2. CASE \E k \in 1 .. Len(w.q) : w.q[k] = r
        <5>1. PICK k \in 1 .. Len(w.q) : w.q[k] = r
          BY <4>2, Zenon
        <5>2. k \in 1 .. Len(u.q) /\ u.q[k] = r
          BY <3>3, <3>4, <5>1
        <5> QED
          BY <5>2 DEF Held
      <4> QED
        BY <3>7, <4>1, <4>2 DEF Held
    <3>8. Held(u, p)
      <4>1. Len(u.q) \in 1 .. Len(u.q) /\ u.q[Len(u.q)] = p
        BY <1>1, <3>3, <3>4
      <4> QED
        BY <4>1 DEF Held
    <3> QED
      BY <3>1, <3>2, <3>4, <3>6, <3>7, <3>8
  <2> QED
    BY <2>1, <2>2
<1>3. SubTypeOK'
  <2>1. chans' \in [Subs -> Seq(ChanRecords)]
    BY <1>0, <1>2, Zenon
  <2>2. due' \in SUBSET (Nat \X Subs \X Nat)
    <3>1. \A s \in room : <<p, s, Len(chans[s])>> \in Nat \X Subs \X Nat
      BY <1>0, <1>1 DEF SubTypeOK
    <3> QED
      BY <1>0, <3>1 DEF SubTypeOK
  <2> QED
    BY <1>0, <1>1, <2>1, <2>2, Zenon DEF SubTypeOK
<1>4. LastTakes'
  BY <1>0, <1>1, <1>2, Zenon DEF LastTakes
<1>5. ~panic'
  <2>1. ~panic /\ \A s \in subs : ~chans[s][Len(chans[s])].closed
    BY <1>0 DEF SubIInv, LastTakes, Takes
  <2> QED
    BY <2>1, Zenon DEF Subscribing!Dispatch, Subscribing!LastOf
<1>6. AllDue'
  <2>1. ASSUME NEW d \in due, d[1] # p PROVE DueAt(d[1], d[2], d[3])'
    <3>1. DueAt(d[1], d[2], d[3]) /\ d[1] \in Nat /\ d[2] \in Subs /\ d[3] \in Nat
      BY <1>0 DEF AllDue, SubTypeOK, SubIInv
    <3>2. CASE d[3] = 0
      <4>1. PICK k \in 1 .. Len(points) : points[k] = d[1]
        BY <3>1, <3>2 DEF DueAt
      <4>2. k # 1
        BY <1>0, <1>9, <2>1, <4>1 DEF SubTypeOK
      <4>3. k - 1 \in 1 .. Len(points') /\ points'[k - 1] = d[1]
        <5>1. k \in 2 .. Len(points) /\ Len(points') = Len(points) - 1
          BY <1>0, <4>1, <4>2, SMTT(30) DEF SubTypeOK
        <5>2. \A m \in 1 .. Len(points') : points'[m] = points[m + 1]
          BY <1>0 DEF SubTypeOK
        <5> QED
          BY <4>1, <5>1, <5>2
      <4> QED
        BY <3>2, <4>3, Zenon DEF DueAt
    <3>3. CASE d[3] # 0
      <4>1. d[3] \in 1 .. Len(chans[d[2]]) /\ (Held(chans[d[2]][d[3]], d[1]) \/ Tried(d[1], d[2], d[3]))
        BY <3>1, <3>3 DEF DueAt
      <4>2. Tried(d[1], d[2], d[3]) => Tried(d[1], d[2], d[3])'
        BY <1>0, Zenon DEF Tried
      <4>3. d[3] \in 1 .. Len(chans'[d[2]]) /\ (Held(chans'[d[2]][d[3]], d[1]) \/ Tried(d[1], d[2], d[3])')
        BY <1>2, <3>1, <4>1, <4>2, Zenon
      <4> QED
        BY <3>3, <4>3, Zenon DEF DueAt
    <3> QED
      BY <3>2, <3>3
  <2>2. ASSUME NEW s \in room, NEW n, n = Len(chans[s]) PROVE DueAt(p, s, n)'
    <3>0. s \in Subs /\ chans[s] \in Seq(ChanRecords)
      BY <1>0, <1>1, <2>2 DEF SubTypeOK
    <3>1. Len(chans[s]) \in Nat /\ Len(chans[s]) >= 1 /\ Len(chans[s]) = Len(chans'[s])
      BY <1>2, <2>2, <3>0, SMTT(30)
    <3>2. Held(chans'[s][Len(chans[s])], p)
      BY <1>1, <1>2, <2>2
    <3>3. n # 0 /\ n \in 1 .. Len(chans'[s])
      BY <2>2, <3>1
    <3>4. Held(chans'[s][n], p)
      BY <2>2, <3>2, Zenon
    <3> QED
      BY <3>3, <3>4 DEF DueAt
  <2>3. ASSUME NEW d \in due' PROVE DueAt(d[1], d[2], d[3])'
    <3>1. CASE d \in due /\ d[1] # p
      BY <2>1, <3>1
    <3>2. CASE \E s \in room : d = <<p, s, Len(chans[s])>>
      BY <2>2, <3>2
    <3> QED
      BY <1>0, <2>3, <3>1, <3>2
  <2> QED
    BY <2>3 DEF AllDue
<1>7. Drained' /\ HandedOver'
  BY <1>0 DEF SubIInv, Drained, HandedOver
<1> QED
  BY <1>3, <1>4, <1>5, <1>6, <1>7 DEF SubIInv

\* PointsWriter's hand-over, and the steps that leave the chanWriters alone.
LEMMA OthersKeep ==
  ASSUME SubIInv,
         \/ \E m \in SUBSET Subs : Subscribing!ChangeMeta(m)
         \/ Subscribing!WaitForDataChanged \/ Subscribing!Woken \/ Subscribing!Update
         \/ Subscribing!WritePoints \/ Subscribing!CloseWriter \/ Subscribing!CloseSubscriber
         \/ UNCHANGED Subscribing!svars
  PROVE  SubIInv'
<1>0. SubTypeOK /\ LastTakes /\ HandedOver /\ Drained /\ AllDue /\ ~panic
  BY DEF SubIInv
<1>1. ASSUME UNCHANGED <<subs, chans, points, sent, due, tried, panic>>, meta' \in SUBSET Subs,
             loop' = loop \/ (loop = "select" /\ loop' = "update"),
             subPoints' => subPoints /\ server' = server,
             \/ server' = server
             \/ server = "open" /\ server' = "writer"
             \/ server = "writer" /\ server' = "subscriber"
             \/ server = "subscriber" /\ loop = "done" /\ server' = "closed"
      PROVE  SubIInv'
  <2>1. SubTypeOK'
    BY <1>0, <1>1 DEF SubTypeOK
  <2>2. LastTakes'
    BY <1>0, <1>1 DEF LastTakes
  <2>3. HandedOver'
    BY <1>0, <1>1 DEF HandedOver
  <2>4. Drained'
    BY <1>0, <1>1, Zenon DEF Drained
  <2>5. AllDue' /\ ~panic'
    BY <1>0, <1>1 DEF AllDue, DueAt, Tried
  <2> QED
    BY <2>1, <2>2, <2>3, <2>4, <2>5 DEF SubIInv
<1>2. CASE \E m \in SUBSET Subs : Subscribing!ChangeMeta(m)
  BY <1>1, <1>2 DEF Subscribing!ChangeMeta
<1>3. CASE Subscribing!WaitForDataChanged \/ Subscribing!Woken \/ Subscribing!Update \/ UNCHANGED Subscribing!svars
  BY <1>0, <1>1, <1>3 DEF SubTypeOK, Subscribing!WaitForDataChanged, Subscribing!Woken, Subscribing!Update, Subscribing!svars
<1>4. CASE Subscribing!CloseWriter
  BY <1>0, <1>1, <1>4, Zenon DEF SubTypeOK, Subscribing!CloseWriter
<1>5. CASE Subscribing!CloseSubscriber
  BY <1>0, <1>1, <1>5 DEF SubTypeOK, HandedOver, Subscribing!CloseSubscriber
<1>6. CASE Subscribing!WritePoints
  <2>1. UNCHANGED <<meta, loop, subs, chans, subPoints, server, tried>> /\ sent' = sent + 1 /\ sent \in Nat
    BY <1>0, <1>6 DEF Subscribing!WritePoints, SubTypeOK
  <2>2. ~panic'
    <3>1. server = "open" => ~Subscribing!Closing
      BY DEF Subscribing!Closing
    <3> QED
      BY <1>0, <1>6, <3>1, Zenon DEF Subscribing!WritePoints, HandedOver
  <2>3. \/ points' = points /\ due' = due
        \/ /\ points' = Append(points, sent + 1) /\ due' = due \cup {<<sent + 1, s, 0>> : s \in Subs}
           /\ server = "open"
    <3> DEFINE ok == subPoints /\ Len(points) < PointsSize
    <3>1. /\ points' = IF ok THEN Append(points, sent + 1) ELSE points
          /\ due' = IF ok THEN due \cup {<<sent + 1, s, 0>> : s \in Subs} ELSE due
      BY <1>6, Zenon DEF Subscribing!WritePoints
    <3>2. ok => server = "open"
      BY <1>0, Zenon DEF HandedOver
    <3> HIDE DEF ok
    <3> QED
      BY <3>1, <3>2
  <2>4. SubTypeOK'
    <3>1. points' \in Seq(Nat) /\ sent' \in Nat
      <4>1. points \in Seq(Nat) /\ Append(points, sent + 1) \in Seq(Nat) /\ sent' \in Nat
        BY <1>0, <2>1 DEF SubTypeOK
      <4>2. points' = points \/ points' = Append(points, sent + 1)
        BY <2>3, Zenon
      <4> QED
        BY <4>1, <4>2, Zenon
    <3>2. due' \in SUBSET (Nat \X Subs \X Nat)
      <4>1. \A s \in Subs : <<sent + 1, s, 0>> \in Nat \X Subs \X Nat
        BY <2>1
      <4> QED
        BY <1>0, <2>3, <4>1 DEF SubTypeOK
    <3> QED
      BY <1>0, <2>1, <3>1, <3>2 DEF SubTypeOK
  <2>5. LastTakes' /\ HandedOver'
    BY <1>0, <2>1, Zenon DEF LastTakes, HandedOver
  <2>6. Drained'
    BY <1>0, <2>1, <2>3 DEF Drained
  <2>7. AllDue'
    <3>1. CASE points' = points /\ due' = due
      BY <1>0, <2>1, <3>1, Zenon DEF AllDue, DueAt, Tried
    <3>2. CASE points' = Append(points, sent + 1) /\ due' = due \cup {<<sent + 1, s, 0>> : s \in Subs}
      <4>1. ASSUME NEW d \in due PROVE DueAt(d[1], d[2], d[3])'
        <5>1. DueAt(d[1], d[2], d[3])
          BY <1>0 DEF AllDue
        <5>2. CASE d[3] = 0
          <6>1. PICK k \in 1 .. Len(points) : points[k] = d[1]
            BY <5>1, <5>2 DEF DueAt
          <6>2. k \in 1 .. Len(points') /\ points'[k] = d[1]
            BY <1>0, <2>1, <3>2, <6>1 DEF SubTypeOK
          <6> QED
            BY <5>2, <6>2, Zenon DEF DueAt
        <5>3. CASE d[3] # 0
          BY <2>1, <5>1, <5>3, ZenonT(30) DEF DueAt, Tried
        <5> QED
          BY <5>2, <5>3
      <4>2. ASSUME NEW s \in Subs, NEW r, r = sent + 1 PROVE DueAt(r, s, 0)'
        <5>1. Len(points') \in 1 .. Len(points') /\ points'[Len(points')] = r
          BY <1>0, <2>1, <3>2, <4>2 DEF SubTypeOK
        <5> QED
          BY <5>1, Zenon DEF DueAt
      <4>3. ASSUME NEW d \in due' PROVE DueAt(d[1], d[2], d[3])'
        <5>1. CASE d \in due
          BY <4>1, <5>1
        <5>2. CASE \E s \in Subs : d = <<sent + 1, s, 0>>
          BY <4>2, <5>2
        <5> QED
          BY <3>2, <4>3, <5>1, <5>2
      <4> QED
        BY <4>3 DEF AllDue
    <3> QED
      BY <2>3, <3>1, <3>2
  <2> QED
    BY <2>2, <2>4, <2>5, <2>6, <2>7, Zenon DEF SubIInv
<1> QED
  BY <1>2, <1>3, <1>4, <1>5, <1>6

\* In every reachable state the service is as SubIInv says.
LEMMA SubIInvAlways == ASSUME Numbered PROVE Subscribing!Spec => []SubIInv
<1>1. Subscribing!Init => SubIInv
  <2> SUFFICES ASSUME Subscribing!Init PROVE SubIInv
    OBVIOUS
  <2>1. SubTypeOK
    BY DEF Subscribing!Init, SubTypeOK
  <2>2. LastTakes /\ HandedOver /\ Drained /\ AllDue /\ ~panic
    BY DEF Subscribing!Init, LastTakes, HandedOver, Drained, AllDue
  <2> QED
    BY <2>1, <2>2 DEF SubIInv
<1>2. SubIInv /\ [Subscribing!Next]_(Subscribing!svars) => SubIInv'
  BY Numbered, UpdateKeeps, DispatchKeeps, DrainKeeps, WorkerKeeps, OthersKeep DEF Subscribing!Next
<1> QED
  BY <1>1, <1>2, PTL DEF Subscribing!Spec

\* Neither a write that comes in while the server closes nor run sends on a closed channel:
\* PointsWriter.Close drops the channel first, and run only sends to chanWriters it has not
\* closed.
THEOREM NoSendOnClosedThm == Numbered => (Subscribing!Spec => []NoSendOnClosed)
<1> SUFFICES ASSUME Numbered PROVE Subscribing!Spec => []NoSendOnClosed
  OBVIOUS
<1>1. SubIInv => NoSendOnClosed
  BY DEF SubIInv, NoSendOnClosed, Subscribing!NoSendOnClosed
<1> QED
  BY <1>1, SubIInvAlways, PTL

\* When Subscriber.Close returns, every accepted request was offered to the subscriptions,
\* and every one a subscription took was written to a destination or failed there.
THEOREM NothingLeftBehindThm == Numbered => (Subscribing!Spec => []NothingLeftBehind)
<1> SUFFICES ASSUME Numbered PROVE Subscribing!Spec => []NothingLeftBehind
  OBVIOUS
<1>1. SubIInv => NothingLeftBehind
  <2> SUFFICES ASSUME SubIInv, server = "closed", NEW d \in due
               PROVE  \E j \in Dests : <<d[1], d[2], d[3], j>> \in tried
    BY DEF NothingLeftBehind, Subscribing!NothingLeftBehind, Dests
  <2>1. DueAt(d[1], d[2], d[3]) /\ d[1] \in Nat /\ d[2] \in Subs
    BY DEF SubIInv, AllDue, SubTypeOK
  <2>2. points = <<>> /\ \A s \in Subs : \A c \in 1 .. Len(chans[s]), r \in Nat : ~Held(chans[s][c], r)
    BY DEF SubIInv, Drained
  <2>3. d[3] # 0
    BY <2>1, <2>2, SMTT(30) DEF DueAt
  <2>4. Tried(d[1], d[2], d[3])
    BY <2>1, <2>2, <2>3 DEF DueAt
  <2> QED
    BY <2>4 DEF Tried
<1> QED
  BY <1>1, SubIInvAlways, PTL

============================================================================
