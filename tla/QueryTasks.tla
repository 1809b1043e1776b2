---------------------------- MODULE QueryTasks ------------------------------
(***************************************************************************)
(* Queries from ExecuteQuery to their end: Executor.executeQuery           *)
(* (query/executor.go), the task manager with its limit, timeout and KILL  *)
(* QUERY (query/task_manager.go), and the goroutine that watches a task    *)
(* for the statement executor (query/execution_context.go).  A statement   *)
(* either answers, fails, cannot be rewritten, or panics.                  *)
(***************************************************************************)
EXTENDS Naturals, FiniteSets

CONSTANTS
    QueryIDs,              \* the queries
    Loads,                 \* [query -> its number of statements], 0 for a query nobody makes
    MaxConcurrentQueries   \* 0 for no limit

VARIABLES
    queries,    \* TaskManager.queries
    shutdown,
    task,       \* query -> [killed, err, closes, by]: Task, how often and by whom closing was closed
    context,    \* query -> ExecutionContext.err once done is closed, "" before
    waiting,     \* query -> waitForQuery: "select", "kill", "done"
    exec,       \* query -> executeQuery: [pc, i, n]
    client,     \* query -> "reads", or "gone": AbortCh and the interrupt are closed
    got         \* query -> statements it has read a result for

tvars == <<queries, shutdown, task, context, waiting, exec, client, got>>

NoTask == [killed |-> FALSE, err |-> "", closes |-> 0, by |-> ""]

Init ==
    /\ queries = {} /\ shutdown = FALSE
    /\ task = [q \in QueryIDs |-> NoTask]
    /\ context = [q \in QueryIDs |-> ""]
    /\ waiting = [q \in QueryIDs |-> "none"]
    /\ \E load \in Loads :
          exec = [q \in QueryIDs |-> [pc |-> IF load[q] = 0 THEN "none" ELSE "attach", i |-> 0, n |-> load[q]]]
    /\ client = [q \in QueryIDs |-> "reads"]
    /\ got = [q \in QueryIDs |-> {}]

At(q, pc) == exec[q].pc = pc
Goto(q, pc) == exec' = [exec EXCEPT ![q].pc = pc]

-----------------------------------------------------------------------------
(* Task and TaskManager.                                                   *)

\* Task.close and Task.kill.
Closed(t, by) == IF t.killed THEN t ELSE [t EXCEPT !.killed = TRUE, !.closes = @ + 1, !.by = by]

KillQuery(q) ==
    /\ q \in queries
    /\ task' = [task EXCEPT ![q] = Closed(@, "kill")]
    /\ UNCHANGED <<queries, shutdown, context, waiting, exec, client, got>>

\* TaskManager.Close.
Close ==
    /\ ~shutdown /\ shutdown' = TRUE
    /\ task' = [q \in QueryIDs |-> IF q \in queries THEN Closed([task[q] EXCEPT !.err = "shutdown"], "close") ELSE task[q]]
    /\ queries' = {}
    /\ UNCHANGED <<context, waiting, exec, client, got>>

\* Mutant: the task is killed first.
WaitLate(q) ==
    /\ waiting[q] = "select"
    /\ \E why \in {"timeout"} \cup (IF client[q] = "gone" THEN {"interrupted"} ELSE {}) :
          task' = [task EXCEPT ![q] = IF q \in queries THEN Closed(@, why) ELSE @]
    /\ waiting' = [waiting EXCEPT ![q] = "kill"]
    /\ UNCHANGED <<queries, shutdown, context, exec, client, got>>

\* waitForQuery: the timer or the interrupt; the reason is set first.
Wait(q) ==
    /\ waiting[q] = "select"
    /\ \E why \in {"timeout"} \cup (IF client[q] = "gone" THEN {"interrupted"} ELSE {}) :
          task' = [task EXCEPT ![q].err = IF q \in queries THEN why ELSE @]
    /\ waiting' = [waiting EXCEPT ![q] = "kill"]
    /\ UNCHANGED <<queries, shutdown, context, exec, client, got>>

WaitKill(q) ==
    /\ waiting[q] = "kill" /\ waiting' = [waiting EXCEPT ![q] = "done"]
    /\ task' = [task EXCEPT ![q] = IF q \in queries THEN Closed(@, "waiter") ELSE @]
    /\ UNCHANGED <<queries, shutdown, context, exec, client, got>>

WaitClosed(q) ==
    /\ waiting[q] = "select" /\ task[q].closes > 0
    /\ waiting' = [waiting EXCEPT ![q] = "done"]
    /\ UNCHANGED <<queries, shutdown, task, context, exec, client, got>>

\* ExecutionContext.watch.
Watch(q) ==
    /\ waiting[q] # "none" /\ context[q] = ""
    /\ \/ /\ task[q].closes > 0
          /\ context' = [context EXCEPT ![q] = IF task[q].err = "" THEN "interrupted" ELSE task[q].err]
       \/ client[q] = "gone" /\ context' = [context EXCEPT ![q] = "aborted"]
    /\ UNCHANGED <<queries, shutdown, task, waiting, exec, client, got>>

-----------------------------------------------------------------------------
(* executeQuery.                                                           *)

AttachQuery(q) ==
    /\ At(q, "attach")
    /\ IF shutdown \/ (MaxConcurrentQueries > 0 /\ Cardinality(queries) >= MaxConcurrentQueries)
       THEN Goto(q, "refused") /\ UNCHANGED <<queries, waiting>>
       ELSE /\ queries' = queries \cup {q}
            /\ waiting' = [waiting EXCEPT ![q] = "select"]
            /\ Goto(q, "statement")
    /\ UNCHANGED <<shutdown, task, context, client, got>>

\* Results is unbuffered: a send ends when the client reads it, or, where the code
\* selects on it, when AbortCh is closed.
Read(q, i) == client[q] = "reads" /\ got' = [got EXCEPT ![q] = @ \cup {i}]
Aborted(q) == client[q] = "gone" /\ UNCHANGED got

Refuse(q) ==
    /\ At(q, "refused") /\ (Read(q, 0) \/ Aborted(q)) /\ Goto(q, "end")
    /\ UNCHANGED <<queries, shutdown, task, context, waiting, client>>

\* ExecuteStatement: it answers through Send unless the query is interrupted, or fails.
Statement(q) ==
    /\ At(q, "statement") /\ exec[q].i < exec[q].n
    /\ \/ Read(q, exec[q].i) /\ Goto(q, "check")
       \/ context[q] # "" /\ Goto(q, "failed") /\ UNCHANGED got
       \/ \E pc \in {"failed", "rejected", "panicked"} : Goto(q, pc) /\ UNCHANGED got
    /\ UNCHANGED <<queries, shutdown, task, context, waiting, client>>

\* Interrupted during an uninterruptible statement?
Check(q) ==
    /\ At(q, "check")
    /\ \/ context[q] # "" /\ Goto(q, "rest")
       \/ context[q] = "" /\ exec' = [exec EXCEPT ![q].pc = "statement", ![q].i = @ + 1]
    /\ UNCHANGED <<queries, shutdown, task, context, waiting, client, got>>

Failed(q) ==
    /\ At(q, "failed")
    /\ \/ Read(q, exec[q].i) /\ Goto(q, "rest")
       \/ Aborted(q) /\ Goto(q, "detach")
    /\ UNCHANGED <<queries, shutdown, task, context, waiting, client>>

\* A system source or a failed rewrite, which send whether the query is aborted or not.
Rejected(q) ==
    /\ At(q, "rejected") /\ Read(q, 0) /\ Goto(q, "rest")
    /\ UNCHANGED <<queries, shutdown, task, context, waiting, client>>

\* Results for statements that were not executed; each carries ctx.statementID, which is
\* that of the statement that ended the loop.
Rest(q) ==
    /\ At(q, "rest")
    /\ \/ exec[q].i >= exec[q].n - 1 /\ UNCHANGED got
       \/ exec[q].i < exec[q].n - 1 /\ (Read(q, exec[q].i) \/ Aborted(q))
    /\ Goto(q, "detach")
    /\ UNCHANGED <<queries, shutdown, task, context, waiting, client>>

\* The loop ends, or the query is unwound by a panic: the deferred detach.
DetachQuery(q) ==
    /\ \/ At(q, "statement") /\ exec[q].i = exec[q].n /\ Goto(q, "end")
       \/ At(q, "detach") /\ Goto(q, "end")
       \/ At(q, "panicked") /\ Goto(q, "recovered")
    /\ queries' = queries \ {q}
    /\ task' = [task EXCEPT ![q] = IF q \in queries THEN Closed(@, "detach") ELSE @]
    /\ UNCHANGED <<shutdown, context, waiting, client, got>>

\* The deferred recover.
Recover(q) ==
    /\ At(q, "recovered") /\ Read(q, 0) /\ Goto(q, "end")
    /\ UNCHANGED <<queries, shutdown, task, context, waiting, client>>

\* The client stops reading: its handler closes AbortCh and the interrupt.
Leave(q) ==
    /\ client[q] = "reads" /\ exec[q].pc \notin {"none", "end"}
    /\ client' = [client EXCEPT ![q] = "gone"]
    /\ UNCHANGED <<queries, shutdown, task, context, waiting, exec, got>>

Next ==
    \/ Close
    \/ \E q \in QueryIDs :
          \/ KillQuery(q) \/ Wait(q) \/ WaitKill(q) \/ WaitClosed(q) \/ Watch(q)
          \/ AttachQuery(q) \/ Refuse(q) \/ Statement(q) \/ Check(q) \/ Failed(q) \/ Rejected(q)
          \/ Rest(q) \/ DetachQuery(q) \/ Recover(q) \/ Leave(q)

Spec == Init /\ [][Next]_tvars

-----------------------------------------------------------------------------
(* Properties.                                                             *)

\* However KILL QUERY, the timeout, the interrupt, the end of the query and the shutdown
\* meet, a task's channel is closed once, and closed when the query has ended, so that its
\* goroutines end; and a query that its timeout or the shutdown stopped is told so: its
\* context has no error but theirs, and not the general one.
ReasonGiven ==
    \A q \in QueryIDs :
        /\ task[q].closes <= 1
        /\ At(q, "end") /\ waiting[q] # "none" => task[q].closes = 1
        /\ task[q].by \in {"close", "waiter", "timeout"} /\ context[q] \notin {"", "aborted"} => task[q].err # ""

\* Promise of executeQuery, to "Send error results for any statements which were not
\* executed": a query that was read to its end has a result for every statement.  The
\* code breaks it (README, section 6).
EveryStatementAnswered ==
    \A q \in QueryIDs :
        At(q, "end") /\ client[q] = "reads" /\ waiting[q] # "none" =>
            0 .. exec[q].n - 1 \subseteq got[q]

\* Promise of AbortCh, that a query whose client is gone ends: nothing waits for it to
\* read.  The code breaks it (README, section 6).
AbortEnds == \A q \in QueryIDs : client[q] = "gone" => ~At(q, "rejected") /\ ~At(q, "recovered")
=============================================================================
