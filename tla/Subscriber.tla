----------------------------- MODULE Subscriber -----------------------------
(***************************************************************************)
(* The subscriber service (services/subscriber/service.go), the hand-over  *)
(* of points to it by PointsWriter.WritePointsPrivileged, and the order in *)
(* which Server.Close takes the two down.                                  *)
(*                                                                         *)
(* All subscriptions are to the database and policy the points go to.  The *)
(* k-th chanWriter a subscription has had is <<name, k>>.  The channel     *)
(* MetaClient.changed is known by a number: all but the last are closed.   *)
(***************************************************************************)
EXTENDS Naturals, Sequences

CONSTANTS
    Subs,              \* names of subscriptions
    Modes,             \* balance modes they may have: "ALL", "ANY"
    Destinations,      \* number of destinations of a subscription
    Workers,           \* Config.WriteConcurrency
    PointsSize,        \* capacity of Service.points (100 in the code)
    WriteBufferSize,   \* Config.WriteBufferSize
    MaxPoints,         \* bound: requests
    MaxChanges         \* bound: changes of the metadata

VARIABLES
    mode,       \* the subscriptions' balance mode
    meta,       \* the client's copy: the subscriptions it holds
    changed,    \* number of its channel `changed`
    waiter,     \* waitForMetaUpdates: [pc, ch]
    loop,       \* run: "update", "select", "drain", "done"
    subs,       \* Service.subs: the names in it
    chans,      \* name -> its chanWriters: [q, closed, i, workers]
    points,     \* Service.points
    subPoints,  \* PointsWriter has the channel
    server,     \* Server.Close: "open", "writer", "subscriber", "closed"
    sent,       \* requests made
    due,        \* ghost: <<request, chanWriter>> of the requests in s.points for the chanWriters it found
    tried,      \* ghost: <<request, chanWriter, destination>> of the writes that ended
    panic       \* a send on a closed channel

svars == <<mode, meta, changed, waiter, loop, subs, chans, points, subPoints, server, sent, due, tried, panic>>

NoWork == [pc |-> "idle", req |-> 0, left |-> 0, dest |-> 0]
NewWriter == [q |-> <<>>, closed |-> FALSE, i |-> 0, workers |-> [k \in 1 .. Workers |-> NoWork]]

Init ==
    /\ mode \in Modes /\ meta \in SUBSET Subs /\ changed = 0
    /\ waiter = [pc |-> "get", ch |-> 0]
    /\ loop = "update" /\ subs = {} /\ chans = [s \in Subs |-> <<>>]
    /\ points = <<>> /\ subPoints = TRUE
    /\ server = "open" /\ sent = 0
    /\ due = {} /\ tried = {} /\ panic = FALSE

Closing == server \in {"subscriber", "closed"}     \* s.points and s.closing are closed
LastOf(s) == Len(chans[s])

-----------------------------------------------------------------------------
(* The metadata client, and the goroutine that waits for it.               *)

ChangeMeta(m) ==
    /\ changed < MaxChanges
    /\ meta' = m /\ changed' = changed + 1
    /\ UNCHANGED <<mode, waiter, loop, subs, chans, points, subPoints, server, sent, due, tried, panic>>

WaitForDataChanged ==
    /\ waiter.pc = "get"
    /\ waiter' = [pc |-> "wait", ch |-> changed]
    /\ UNCHANGED <<mode, meta, changed, loop, subs, chans, points, subPoints, server, sent, due, tried, panic>>

\* One of the channels it waits for is closed.
Woken ==
    /\ waiter.pc = "wait"
    /\ \/ waiter.ch < changed /\ waiter' = [waiter EXCEPT !.pc = "send"]
       \/ Closing /\ waiter' = [waiter EXCEPT !.pc = "done"]
    /\ UNCHANGED <<mode, meta, changed, loop, subs, chans, points, subPoints, server, sent, due, tried, panic>>

\* Update: an unbuffered send to run, unless the service closes.
Update ==
    /\ waiter.pc = "send" /\ waiter' = [waiter EXCEPT !.pc = "get"]
    /\ \/ loop = "select" /\ loop' = "update"
       \/ Closing /\ UNCHANGED loop
    /\ UNCHANGED <<mode, meta, changed, subs, chans, points, subPoints, server, sent, due, tried, panic>>

-----------------------------------------------------------------------------
(* run.                                                                    *)

CloseLast(ws) == [ws EXCEPT ![Len(ws)].closed = TRUE]

\* updateSubs: start the new ones, close those that are gone.
UpdateSubs ==
    /\ loop = "update"
    /\ chans' = [s \in Subs |-> CASE s \in meta \ subs -> Append(chans[s], NewWriter)
                                  [] s \in subs \ meta -> CloseLast(chans[s])
                                  [] OTHER -> chans[s]]
    /\ subs' = meta /\ loop' = "select"
    /\ UNCHANGED <<mode, meta, changed, waiter, points, subPoints, server, sent, due, tried, panic>>

\* A request goes to every subscription whose buffer has room; the others count a failure.
Dispatch ==
    /\ loop = "select" /\ points # <<>>
    /\ LET p == Head(points)
           room == {s \in subs : Len(chans[s][LastOf(s)].q) < WriteBufferSize}
       IN  /\ panic' = (panic \/ \E s \in subs : chans[s][LastOf(s)].closed)
           /\ chans' = [s \in Subs |-> IF s \in room THEN [chans[s] EXCEPT ![LastOf(s)].q = Append(@, p)] ELSE chans[s]]
           /\ due' = {d \in due : d[1] # p} \cup {<<p, s, LastOf(s)>> : s \in room}
    /\ points' = Tail(points)
    /\ UNCHANGED <<mode, meta, changed, waiter, loop, subs, subPoints, server, sent, tried>>

\* The channel is closed and empty: close all chanWriters.
Drain ==
    /\ loop = "select" /\ Closing /\ points = <<>>
    /\ chans' = [s \in Subs |-> IF s \in subs THEN CloseLast(chans[s]) ELSE chans[s]]
    /\ loop' = "drain"
    /\ UNCHANGED <<mode, meta, changed, waiter, subs, points, subPoints, server, sent, due, tried, panic>>

ChanWriters == UNION {{s} \X DOMAIN chans[s] : s \in Subs}
Exited(w) == /\ w.closed /\ w.q = <<>>
             /\ \A k \in 1 .. Workers : w.workers[k] = NoWork

\* Mutant: the workers are not waited for.
AllExitedNow == TRUE

AllExited == \A c \in ChanWriters : Exited(chans[c[1]][c[2]])

\* wg.Wait, for the workers of every chanWriter there has been.
Finish ==
    /\ loop = "drain" /\ AllExited
    /\ loop' = "done" /\ subs' = {}
    /\ UNCHANGED <<mode, meta, changed, waiter, chans, points, subPoints, server, sent, due, tried, panic>>

-----------------------------------------------------------------------------
(* chanWriter.Run and balancewriter.WritePoints.                           *)

SetChan(s, c, w) == chans' = [chans EXCEPT ![s][c] = w]

Receive(s, c, k) ==
    LET w == chans[s][c]
    IN  /\ w.workers[k].pc = "idle" /\ w.q # <<>>
        /\ SetChan(s, c, [w EXCEPT !.q = Tail(@),
                                   !.workers[k] = [pc |-> "pick", req |-> Head(w.q), left |-> Destinations, dest |-> 0]])
        /\ UNCHANGED tried

Pick(s, c, k) ==
    LET w == chans[s][c]
        v == w.workers[k]
    IN  /\ v.pc = "pick"
        /\ SetChan(s, c, [w EXCEPT !.workers[k] = [v EXCEPT !.pc = "advance", !.dest = w.i]])
        /\ UNCHANGED tried

\* b.i is read once more; the workers share it without a lock.
Advance(s, c, k) ==
    LET w == chans[s][c]
        v == w.workers[k]
    IN  /\ v.pc = "advance"
        /\ \E old \in {w.i, v.dest} :
              SetChan(s, c, [w EXCEPT !.i = (old + 1) % Destinations, !.workers[k] = [v EXCEPT !.pc = "write"]])
        /\ UNCHANGED tried

Write(s, c, k) ==
    LET w == chans[s][c]
        v == w.workers[k]
    IN  /\ v.pc = "write"
        /\ tried' = tried \cup {<<v.req, s, c, v.dest>>}
        /\ \E ok \in BOOLEAN :
              SetChan(s, c, [w EXCEPT !.workers[k] = IF v.left = 1 \/ (ok /\ mode = "ANY")
                                                     THEN NoWork
                                                     ELSE [v EXCEPT !.pc = "pick", !.left = v.left - 1]])

WorkerStep ==
    /\ \E w \in ChanWriters, k \in 1 .. Workers :
          \/ Receive(w[1], w[2], k) \/ Pick(w[1], w[2], k) \/ Advance(w[1], w[2], k) \/ Write(w[1], w[2], k)
    /\ UNCHANGED <<mode, meta, changed, waiter, loop, subs, points, subPoints, server, sent, due, panic>>

-----------------------------------------------------------------------------
(* PointsWriter and Server.Close.                                          *)

\* WritePointsPrivileged sends under the lock Close takes, and never waits.
WritePoints ==
    /\ sent < MaxPoints /\ sent' = sent + 1
    /\ LET ok == subPoints /\ Len(points) < PointsSize
       IN  /\ points' = IF ok THEN Append(points, sent + 1) ELSE points
           /\ due' = IF ok THEN due \cup {<<sent + 1, s, 0>> : s \in Subs} ELSE due
    /\ panic' = (panic \/ (subPoints /\ Closing))
    /\ UNCHANGED <<mode, meta, changed, waiter, loop, subs, chans, subPoints, server, tried>>

\* Mutant: the points writer keeps the channel.
CloseWriterKeeps ==
    /\ server = "open" /\ server' = "writer"
    /\ UNCHANGED <<mode, meta, changed, waiter, loop, subs, chans, points, subPoints, sent, due, tried, panic>>

\* PointsWriter.Close.
CloseWriter ==
    /\ server = "open" /\ server' = "writer"
    /\ subPoints' = FALSE
    /\ UNCHANGED <<mode, meta, changed, waiter, loop, subs, chans, points, sent, due, tried, panic>>

\* Subscriber.Close: close s.points and s.closing, wait for run and for the waiter.
CloseSubscriber ==
    /\ \/ server = "writer" /\ server' = "subscriber"
       \/ server = "subscriber" /\ loop = "done" /\ waiter.pc = "done" /\ server' = "closed"
    /\ UNCHANGED <<mode, meta, changed, waiter, loop, subs, chans, points, subPoints, sent, due, tried, panic>>

Next ==
    \/ \E m \in SUBSET Subs : ChangeMeta(m)
    \/ WaitForDataChanged \/ Woken \/ Update
    \/ UpdateSubs \/ Dispatch \/ Drain \/ Finish \/ WorkerStep
    \/ WritePoints \/ CloseWriter \/ CloseSubscriber

Spec == Init /\ [][Next]_svars

-----------------------------------------------------------------------------
(* Properties.                                                             *)

\* Nothing is sent on a closed channel: not by a write that comes in while the server
\* closes, and not by run to a subscription that was dropped.
NoSendOnClosed == ~panic

\* Subscriber.Close returns only when every request the service had accepted was offered
\* to the subscriptions, and every one a subscription had room for was written to a
\* destination or failed there, the dropped subscriptions' backlogs included.
NothingLeftBehind ==
    server = "closed" => \A d \in due : \E j \in 0 .. Destinations - 1 : <<d[1], d[2], d[3], j>> \in tried

\* Promise of ALL: it "indicates to send writes to all subscriber destinations".  The
\* code breaks it (README, section 6).
AllDestinations ==
    mode = "ALL" /\ server = "closed" =>
        \A d \in due, j \in 0 .. Destinations - 1 : <<d[1], d[2], d[3], j>> \in tried

\* Promise of waitForMetaUpdates: when it waits with nothing new, the service has the
\* subscriptions of the metadata.  The code breaks it (README, section 6).
SubsFollow == loop = "select" /\ waiter.pc = "wait" /\ waiter.ch = changed => subs = meta
=============================================================================
