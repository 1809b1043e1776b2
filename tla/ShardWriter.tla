---------------------------- MODULE ShardWriter ----------------------------
(***************************************************************************)
(* Writes to shards of other nodes: ShardWriter.WriteShard over pools of   *)
(* connections (coordinator/shard_writer.go, client_pool.go, pool.go) and  *)
(* the service that answers them (coordinator/service.go).                 *)
(*                                                                         *)
(* clientPool.mu is not a variable: a writer holds it for reading from its *)
(* Get to the end of it (pcs "dial" and "wait"), one that is about to set  *)
(* a pool waits for it, and a waiting writer keeps new readers out, as Go's*)
(* RWMutex does.  A request is known by its number, an answer by the       *)
(* request it answers and whether the points were applied.                 *)
(***************************************************************************)
EXTENDS Naturals, Sequences, FiniteSets

CONSTANTS
    Writers,         \* goroutines that call WriteShard
    Nodes,           \* the nodes they write to
    MaxConnections,  \* ShardWriter.maxConnections
    MaxCalls,        \* bound: calls
    MaxConns,        \* bound: connections made
    MaxFaults        \* bound: connections that break or cannot be made

VARIABLES
    pools,    \* clientPool.pool: node -> its boundedPool, 0 for none
    pool,     \* the boundedPools: [idle, total]
    conns,    \* the connections: [up, in, out], as the service sees them
    wcall,    \* writer -> the call it is in
    wcalls, faults,
    applied,  \* ghost: requests whose points the service has written
    acked,    \* ghost: <<request, answer>> of the calls that returned an answer
    raced     \* ghost: pools with more connections than they allow

wvars == <<pools, pool, conns, wcall, wcalls, faults, applied, acked, raced>>

NoCall == [pc |-> "idle", node |-> 0, pool |-> 0, conn |-> 0, req |-> 0]

Init ==
    /\ pools = [n \in Nodes |-> 0] /\ pool = <<>> /\ conns = <<>>
    /\ wcall = [w \in Writers |-> NoCall]
    /\ wcalls = 0 /\ faults = 0
    /\ applied = {} /\ acked = {} /\ raced = {}

Readers == {w \in Writers : wcall[w].pc \in {"dial", "wait"}}
Locking == {w \in Writers : wcall[w].pc = "set"}
RLock == Locking = {}

At(w, pc) == wcall[w].pc = pc
Goto(w, pc) == wcall' = [wcall EXCEPT ![w].pc = pc]
Return(w) == wcall' = [wcall EXCEPT ![w] = NoCall]
NewConn == [up |-> TRUE, in |-> <<>>, out |-> <<>>]

-----------------------------------------------------------------------------
(* dial: a node's first writer makes its pool.                             *)

WriteShard(w, n) ==
    /\ At(w, "idle") /\ wcalls < MaxCalls /\ RLock
    /\ wcalls' = wcalls + 1
    /\ wcall' = [wcall EXCEPT ![w] = [NoCall EXCEPT !.pc = IF pools[n] = 0 THEN "new" ELSE "conn",
                                                   !.node = n, !.req = wcalls + 1]]
    /\ UNCHANGED <<pools, pool, conns, faults, applied, acked, raced>>

\* connFactory.dial asks clientPool.size, which takes the lock for reading, and connects.
Connect == RLock /\ Len(conns) < MaxConns /\ conns' = Append(conns, NewConn) /\ UNCHANGED faults
ConnectFails == RLock /\ faults < MaxFaults /\ faults' = faults + 1 /\ UNCHANGED conns

\* NewBoundedPool with one connection to begin with.
NewPool(w) ==
    /\ At(w, "new")
    /\ \/ /\ Connect
          /\ pool' = Append(pool, [idle |-> <<Len(conns) + 1>>, total |-> 1])
          /\ wcall' = [wcall EXCEPT ![w].pc = "set", ![w].pool = Len(pool) + 1]
       \/ ConnectFails /\ Return(w) /\ UNCHANGED pool
    /\ UNCHANGED <<pools, wcalls, applied, acked, raced>>

\* Whatever pool the node may have got meanwhile is replaced.
SetPool(w) ==
    /\ At(w, "set") /\ Readers = {}
    /\ pools' = [pools EXCEPT ![wcall[w].node] = wcall[w].pool]
    /\ Goto(w, "conn")
    /\ UNCHANGED <<pool, conns, wcalls, faults, applied, acked, raced>>

-----------------------------------------------------------------------------
(* boundedPool.                                                            *)

Take(w, p) ==
    /\ pool[p].idle # <<>>
    /\ pool' = [pool EXCEPT ![p].idle = Tail(@)]
    /\ wcall' = [wcall EXCEPT ![w].pc = "send", ![w].pool = p, ![w].conn = Head(pool[p].idle)]

\* clientPool.conn and Get: an idle connection, a new one if total allows, or a wait.
Get(w) ==
    /\ At(w, "conn") /\ RLock
    /\ LET p == pools[wcall[w].node]
       IN  \/ Take(w, p)
           \/ /\ pool[p].idle = <<>>
              /\ wcall' = [wcall EXCEPT ![w].pool = p, ![w].pc = IF pool[p].total < MaxConnections THEN "dial" ELSE "wait"]
              /\ UNCHANGED pool
    /\ UNCHANGED <<pools, conns, wcalls, faults, applied, acked, raced>>

\* The factory is called and total counted up after the look at it.
GetDial(w) ==
    /\ At(w, "dial")
    /\ LET p == wcall[w].pool
       IN  \/ /\ Connect
              /\ pool' = [pool EXCEPT ![p].total = @ + 1]
              /\ wcall' = [wcall EXCEPT ![w].pc = "send", ![w].conn = Len(conns) + 1]
              /\ raced' = IF pool[p].total >= MaxConnections THEN raced \cup {p} ELSE raced
           \/ ConnectFails /\ Return(w) /\ UNCHANGED <<pool, raced>>
    /\ UNCHANGED <<pools, wcalls, applied, acked>>

GetWait(w) ==
    /\ At(w, "wait")
    /\ Take(w, wcall[w].pool) \/ (Return(w) /\ UNCHANGED pool)       \* or the timeout
    /\ UNCHANGED <<pools, conns, wcalls, faults, applied, acked, raced>>

\* put: a pool that is full closes the connection, and counts it on.
Put(p, c) ==
    IF Len(pool[p].idle) < MaxConnections
    THEN pool' = [pool EXCEPT ![p].idle = Append(@, c)]
    ELSE UNCHANGED pool

\* Mutant: total is not counted down.
MarkUnusableKeeps(p) == UNCHANGED pool

\* MarkUnusable, after which Close closes the connection for good.
MarkUnusable(p) == pool' = [pool EXCEPT ![p].total = @ - 1]

-----------------------------------------------------------------------------
(* The rest of WriteShard.                                                 *)

\* The shard's group is gone: the points are dropped and the call returns nil.
ShardGone(w) ==
    /\ At(w, "send")
    /\ Put(wcall[w].pool, wcall[w].conn) /\ Return(w)
    /\ UNCHANGED <<pools, conns, wcalls, faults, applied, acked, raced>>

\* WriteTLV: into a connection that is up, or one that looks as if it were.
Send(w) ==
    /\ At(w, "send")
    /\ LET c == wcall[w].conn
       IN  conns' = IF conns[c].up THEN [conns EXCEPT ![c].in = Append(@, wcall[w].req)] ELSE conns
    /\ Goto(w, "read")
    /\ UNCHANGED <<pools, pool, wcalls, faults, applied, acked, raced>>

SendFails(w) ==
    /\ At(w, "send") /\ ~conns[wcall[w].conn].up
    /\ MarkUnusable(wcall[w].pool) /\ Return(w)
    /\ UNCHANGED <<pools, conns, wcalls, faults, applied, acked, raced>>

\* ReadTLV: the next answer on the connection.
Read(w) ==
    /\ At(w, "read")
    /\ LET c == wcall[w].conn
       IN  /\ conns[c].out # <<>>
           /\ acked' = acked \cup {<<wcall[w].req, Head(conns[c].out)>>}
           /\ conns' = [conns EXCEPT ![c].out = Tail(@)]
           /\ Put(wcall[w].pool, c)
    /\ Return(w)
    /\ UNCHANGED <<pools, wcalls, faults, applied, raced>>

\* Mutant: the connection goes back to the pool.
ReadFailsPuts(w) ==
    /\ At(w, "read")
    /\ Put(wcall[w].pool, wcall[w].conn) /\ Return(w)
    /\ UNCHANGED <<pools, conns, wcalls, faults, applied, acked, raced>>

\* The deadline passes or the connection is gone.
ReadFails(w) ==
    /\ At(w, "read")
    /\ MarkUnusable(wcall[w].pool) /\ Return(w)
    /\ UNCHANGED <<pools, conns, wcalls, faults, applied, acked, raced>>

-----------------------------------------------------------------------------
(* Service.handleConn: one request after the other, written or refused.    *)
Serve(c) ==
    /\ conns[c].up /\ conns[c].in # <<>>
    /\ LET req == Head(conns[c].in)
       IN  \E ok \in BOOLEAN :
              /\ applied' = IF ok THEN applied \cup {req} ELSE applied
              /\ conns' = [conns EXCEPT ![c].in = Tail(@), ![c].out = Append(@, [req |-> req, ok |-> ok])]
    /\ UNCHANGED <<pools, pool, wcall, wcalls, faults, acked, raced>>

\* The node goes away, or the network does.
Break(c) ==
    /\ conns[c].up /\ faults < MaxFaults
    /\ conns' = [conns EXCEPT ![c] = [up |-> FALSE, in |-> <<>>, out |-> <<>>]]
    /\ faults' = faults + 1
    /\ UNCHANGED <<pools, pool, wcall, wcalls, applied, acked, raced>>

Next ==
    \/ \E w \in Writers :
          \/ \E n \in Nodes : WriteShard(w, n)
          \/ NewPool(w) \/ SetPool(w) \/ Get(w) \/ GetDial(w) \/ GetWait(w)
          \/ ShardGone(w) \/ Send(w) \/ SendFails(w) \/ Read(w) \/ ReadFails(w)
    \/ \E c \in DOMAIN conns : Serve(c) \/ Break(c)

Spec == Init /\ [][Next]_wvars

-----------------------------------------------------------------------------
(* Properties.                                                             *)

\* A call is told about its own request, never about one that timed out earlier on the
\* same connection, and what it is told is so: WriteShard returns nil for an answer only
\* if the points were written.
AnswerIsOwn == \A a \in acked : a[2].req = a[1] /\ (a[2].ok => a[1] \in applied)

\* A pool's total is the number of its connections, idle or lent, whatever becomes of
\* the calls that have them.  Pools whose limit two Gets passed at once are excepted.
TotalExact ==
    \A p \in DOMAIN pool \ raced :
        pool[p].total = Len(pool[p].idle)
                        + Cardinality({w \in Writers : wcall[w].pool = p /\ wcall[w].pc \in {"send", "read"}})

\* Promise of NewBoundedPool: no more connections than the maximum.  The code breaks it
\* (README, section 6).
WithinLimit == \A p \in DOMAIN pool : pool[p].total <= MaxConnections

\* Promise of NewBoundedPool, that a Get can make a connection when there is none.  The
\* code breaks it (README, section 6).
NotExhausted ==
    \A p \in DOMAIN pool :
        pool[p].idle = <<>> /\ (\A w \in Writers : wcall[w].pool # p) => pool[p].total < MaxConnections

\* Promise of Get: it "will block until a connection is available or the timeout is
\* reached".  A Get that takes clientPool.mu a second time, behind a writer that waits
\* for the first to end, blocks for ever.  The code breaks it (README, section 6).
GetReturns == (\E w \in Writers : At(w, "dial")) => Locking = {}
=============================================================================
