------------------------- MODULE ContinuousQuerier -------------------------
(***************************************************************************)
(* The continuous query services of the data nodes and the lease that says *)
(* which of them runs (services/continuous_querier/service.go, Leases of   *)
(* services/meta/handler.go).  One query, whose intervals the model picks  *)
(* in Init; the unit of time is the nanosecond of the code's arithmetic,   *)
(* and all times are UTC.                                                  *)
(***************************************************************************)
EXTENDS Integers

CONSTANTS
    Queriers,       \* the data nodes
    Queries,        \* [interval, every, for, offset]: GROUP BY time, RESAMPLE EVERY and FOR
    LeaseDuration,
    MaxTime,        \* bound: the clock
    MaxLosses       \* bound: failed queries, restarts and changes of leader

VARIABLES
    cq,         \* the query
    now,
    lease,      \* Leases.m at the leader: [owner, expiration]
    lastRuns,   \* node -> lastRuns of the query
    running,    \* node -> the run that is under way: [start, end, at]
    done,       \* ghost: node -> windows it computed after they had ended
    since,      \* ghost: node -> start of its first run
    losses

qvars == <<cq, now, lease, lastRuns, running, done, since, losses>>

Nobody == "nobody"
Never == -1
Idle == [start |-> 0, end |-> 0, at |-> Never]

Init ==
    /\ cq \in Queries /\ now = cq.interval /\ losses = 0
    /\ lease = [owner |-> Nobody, expiration |-> 0]
    /\ lastRuns = [n \in Queriers |-> Never] /\ since = lastRuns
    /\ running = [n \in Queriers |-> Idle]
    /\ done = [n \in Queriers |-> {}]

truncate(t, d) == t - (t % d)
Windows(start, end) == {t \in start .. end - cq.interval : (t - cq.offset) % cq.interval = 0}
MaxOf(a, b) == IF a > b THEN a ELSE b
MinOf(a, b) == IF a < b THEN a ELSE b

Every == IF cq.every # 0 THEN cq.every ELSE cq.interval
For == IF cq.for # 0 THEN cq.for ELSE MaxOf(cq.interval, Every)

\* Mutant: the oldest interval is reckoned from the current time.
NextRunNow(n) == now

\* shouldRunContinuousQuery: the time the query is due.
NextRun(n) == IF lastRuns[n] = Never THEN now ELSE lastRuns[n] + Every

StartTime(n) == truncate(NextRun(n) + cq.interval - For - cq.offset - 1, cq.interval) + cq.offset
EndTime == truncate(now + cq.interval - MinOf(Every, cq.interval) - cq.offset, cq.interval) + cq.offset

-----------------------------------------------------------------------------
Acquirable(n) == lease.owner \in {Nobody, n} \/ now > lease.expiration

\* A node's timer: AcquireLease, then ExecuteContinuousQuery up to the query itself.  The
\* time of this run is noted before the query runs.
Execute(n) ==
    /\ running[n] = Idle /\ Acquirable(n)
    /\ lease' = [owner |-> n, expiration |-> now + LeaseDuration]
    /\ IF NextRun(n) > now
       THEN UNCHANGED <<lastRuns, running, since>>
       ELSE /\ lastRuns' = [lastRuns EXCEPT ![n] = truncate(now - cq.offset, Every) + cq.offset]
            /\ since' = [since EXCEPT ![n] = IF @ = Never THEN StartTime(n) ELSE @]
            /\ running' = [running EXCEPT ![n] = IF EndTime > StartTime(n)
                                                 THEN [start |-> StartTime(n), end |-> EndTime, at |-> now]
                                                 ELSE @]
    /\ UNCHANGED <<cq, now, done, losses>>

\* runContinuousQueryAndWriteResult returns.
Written(n) ==
    /\ running[n] # Idle
    /\ done' = [done EXCEPT ![n] = @ \cup {t \in Windows(running[n].start, running[n].end) : t + cq.interval <= running[n].at}]
    /\ running' = [running EXCEPT ![n] = Idle]
    /\ UNCHANGED <<cq, now, lease, lastRuns, since, losses>>

Lose == losses < MaxLosses /\ losses' = losses + 1

\* It fails, and is not tried again: the node counts from its next run.
Fails(n) ==
    /\ running[n] # Idle /\ Lose
    /\ running' = [running EXCEPT ![n] = Idle]
    /\ since' = [since EXCEPT ![n] = running[n].end]
    /\ UNCHANGED <<cq, now, lease, lastRuns, done>>

\* The node restarts: lastRuns is in memory only.
Restart(n) ==
    /\ Lose
    /\ running' = [running EXCEPT ![n] = Idle]
    /\ lastRuns' = [lastRuns EXCEPT ![n] = Never]
    /\ since' = [since EXCEPT ![n] = Never]
    /\ UNCHANGED <<cq, now, lease, done>>

\* Another meta node leads: it knows no lease.
NewLeader ==
    /\ Lose
    /\ lease' = [owner |-> Nobody, expiration |-> 0]
    /\ UNCHANGED <<cq, now, lastRuns, running, done, since>>

Tick == now < MaxTime /\ now' = now + 1 /\ UNCHANGED <<cq, lease, lastRuns, running, done, since, losses>>

Next ==
    \/ \E n \in Queriers : Execute(n) \/ Written(n) \/ Fails(n) \/ Restart(n)
    \/ NewLeader \/ Tick

Spec == Init /\ [][Next]_qvars

-----------------------------------------------------------------------------
(* Properties.                                                             *)

\* Windows that had ended when a node last ran the query, counted from its first run.
Ended(n) == Windows(since[n], truncate(lastRuns[n] - cq.offset, cq.interval) + cq.offset)

Skipped(n) == lastRuns[n] # Never /\ running[n] = Idle /\ ~(Ended(n) \subseteq done[n])

\* No window is passed over: a node that has run the query and whose query did not fail
\* has computed, after its end, every window that ended between its first run and its
\* last, however late its timer fired and whoever had the lease in between.  Of EVERY and
\* the GROUP BY interval, one has to be a multiple of the other.
NoWindowSkipped ==
    cq.interval % Every = 0 \/ Every % cq.interval = 0 => \A n \in Queriers : ~Skipped(n)

\* Promise of ExecuteContinuousQuery, which counts from the next run "in case any time
\* intervals were missed": the same for every query the parser accepts.  The code breaks
\* it (README, section 6).
NoWindowSkippedEver == \A n \in Queriers : ~Skipped(n)

\* Promise of the lease, that the queries go on when another node takes over: a window
\* between the first and the last run of the cluster was computed by some node.  The code
\* breaks it (README, section 6).
NoWindowSkippedByAll ==
    (\A n \in Queriers : running[n] = Idle) =>
        \A n, m \in Queriers :
            lastRuns[n] # Never /\ lastRuns[m] # Never =>
                \A t \in Windows(since[m], truncate(lastRuns[n] - cq.offset, cq.interval) + cq.offset) :
                    \E k \in Queriers : t \in done[k]
=============================================================================
