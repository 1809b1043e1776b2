----------------------------- MODULE MCServices -----------------------------
(* The services around the store, for TLC: each behaviour is one of ShardWriter,
   ContinuousQuerier, Subscriber or QueryTasks, as picked in MCInit; the variables of the
   others stay as they are. *)
EXTENDS ShardWriter, Integers

CONSTANTS
    Queriers, Queries, LeaseDuration, MaxTime, MaxLosses,
    Subs, Modes, Destinations, Workers, PointsSize, WriteBufferSize, MaxPoints, MaxChanges,
    QueryIDs, Loads, MaxConcurrentQueries

VARIABLES
    service,
    cq, now, lease, lastRuns, running, done, since, losses,
    mode, meta, changed, waiter, loop, subs, chans, points, subPoints, server, sent, due, tried, panic,
    queries, shutdown, task, context, waiting, exec, client, got

qvars == <<cq, now, lease, lastRuns, running, done, since, losses>>
svars == <<mode, meta, changed, waiter, loop, subs, chans, points, subPoints, server, sent, due, tried, panic>>
tvars == <<queries, shutdown, task, context, waiting, exec, client, got>>

Querying == INSTANCE ContinuousQuerier
Subscribing == INSTANCE Subscriber
Tasking == INSTANCE QueryTasks

Query(interval, every, for, offset) == [interval |-> interval, every |-> every, for |-> for, offset |-> offset]

\* EVERY as long as the interval, a part, a multiple and neither of the two; with FOR and
\* an offset.
MCQueries == {Query(3, 0, 0, 1), Query(4, 2, 0, 0), Query(2, 4, 0, 0), Query(2, 0, 6, 1), Query(4, 3, 8, 0)}

MCLoads == {[q \in QueryIDs |-> 1]} \cup [QueryIDs -> {0, 2}]

MCInit ==
    /\ service \in {"write", "cq", "subscriber", "query"}
    /\ Init /\ Querying!Init /\ Subscribing!Init /\ Tasking!Init
    /\ service = "cq" \/ cq = Query(3, 0, 0, 1)
    /\ service = "subscriber" \/ (mode = "ALL" /\ meta = {})
    /\ IF service = "query" THEN \A q, r \in QueryIDs : exec[q].n = 2 /\ exec[r].n = 2 => q = r
                            ELSE \A q \in QueryIDs : exec[q].n = 0

MCNext ==
    \/ service = "write" /\ Next /\ UNCHANGED <<service, qvars, svars, tvars>>
    \/ service = "cq" /\ Querying!Next /\ UNCHANGED <<service, wvars, svars, tvars>>
    \/ service = "subscriber" /\ Subscribing!Next /\ UNCHANGED <<service, wvars, qvars, tvars>>
    \/ service = "query" /\ Tasking!Next /\ UNCHANGED <<service, wvars, qvars, svars>>

MCSpec == MCInit /\ [][MCNext]_<<service, wvars, qvars, svars, tvars>>

\* A node passes over no window between its first and its last run of a continuous query
\* (Service.ExecuteContinuousQuery).
NoWindowSkipped == Querying!NoWindowSkipped

\* No write and no dispatch sends on a closed channel (PointsWriter.Close, Service.run).
NoSendOnClosed == Subscribing!NoSendOnClosed

\* When Service.Close returns, all accepted points were offered and tried.
NothingLeftBehind == Subscribing!NothingLeftBehind

\* A task's channel is closed once, by the end of its query, and a query stopped by its
\* timeout or the shutdown is told so (Task.close, kill, waitForQuery, watch).
ReasonGiven == Tasking!ReasonGiven
=============================================================================
