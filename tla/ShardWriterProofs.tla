------------------------ MODULE ShardWriterProofs --------------------------
(***************************************************************************)
(* Proofs about writes to other nodes: for any number of writers, nodes    *)
(* and connections, a call is told about its own request, and a pool that  *)
(* two Gets did not push over its limit counts its connections exactly.    *)
(***************************************************************************)
EXTENDS ShardWriter, Integers, FiniteSetTheorems, TLAPS

\* There are finitely many goroutines, and NewBoundedPool refuses a maximum below 1.
Sizes == IsFiniteSet(Writers) /\ MaxConnections \in Nat \ {0}

Flags == BOOLEAN
Answers == [req : Nat, ok : Flags]
Conns == [up : Flags, in : Seq(Nat), out : Seq(Answers)]
Pools == [idle : Seq(Nat), total : Int]
Calls == [pc : {"idle", "new", "set", "conn", "dial", "wait", "send", "read"},
          node : Nodes \cup {0}, pool : Nat, conn : Nat, req : Nat]

TypeOK ==
  /\ pools \in [Nodes -> Nat]
  /\ pool \in Seq(Pools)
  /\ conns \in Seq(Conns)
  /\ wcall \in [Writers -> Calls]
  /\ wcalls \in Nat

\* A pool that a node or a writer refers to is there.
PoolsKnown ==
  /\ \A n \in Nodes : pools[n] # 0 => pools[n] \in DOMAIN pool
  /\ \A w \in Writers :
       /\ wcall[w].pc \in {"set", "dial", "wait", "send", "read"} => wcall[w].pool \in DOMAIN pool
       /\ wcall[w].pc \in {"new", "set", "conn"} => wcall[w].node \in Nodes
       /\ wcall[w].pc = "conn" => pools[wcall[w].node] # 0

\* The writers that have a connection, and those that have one of pool p.
Holding == {w \in Writers : wcall[w].pc \in {"send", "read"}}
Holders(p) == {w \in Writers : wcall[w].pool = p /\ wcall[w].pc \in {"send", "read"}}

\* TotalExact, and the limit that makes room for a connection that is put back.
Counted ==
  \A p \in DOMAIN pool \ raced :
    pool[p].total = Len(pool[p].idle) + Cardinality(Holders(p)) /\ pool[p].total <= MaxConnections

\* No connection is idle in two places, lent twice, or both.
Apart ==
  /\ \A p, q \in DOMAIN pool : \A i \in DOMAIN pool[p].idle, j \in DOMAIN pool[q].idle :
       pool[p].idle[i] = pool[q].idle[j] => p = q /\ i = j
  /\ \A w \in Holding : \A p \in DOMAIN pool : \A i \in DOMAIN pool[p].idle : pool[p].idle[i] # wcall[w].conn
  /\ \A v, w \in Holding : wcall[v].conn = wcall[w].conn => v = w

\* No request and no answer is left on it.
Quiet(c) == c \in DOMAIN conns /\ conns[c].in = <<>> /\ conns[c].out = <<>>

\* What is on the connection of a call that waits for its answer.
OwnOnly(c, r) ==
  /\ c \in DOMAIN conns
  /\ Len(conns[c].in) + Len(conns[c].out) <= 1
  /\ \A i \in DOMAIN conns[c].in : conns[c].in[i] = r
  /\ \A i \in DOMAIN conns[c].out : conns[c].out[i].req = r /\ (conns[c].out[i].ok => r \in applied)

\* A connection in a pool, or about to be used, is quiet.
Clean ==
  /\ \A p \in DOMAIN pool : \A i \in DOMAIN pool[p].idle : Quiet(pool[p].idle[i])
  /\ \A w \in Writers : wcall[w].pc = "send" => Quiet(wcall[w].conn)
  /\ \A w \in Writers : wcall[w].pc = "read" => OwnOnly(wcall[w].conn, wcall[w].req)

IInv == TypeOK /\ PoolsKnown /\ Counted /\ Apart /\ Clean /\ AnswerIsOwn

-----------------------------------------------------------------------------
(* Sequences, and what the pieces of the actions do to them                *)

\* An update in place.
LEMMA Updated ==
  ASSUME NEW S, NEW q \in Seq(S), NEW i \in DOMAIN q, NEW x \in S, NEW r, r = [q EXCEPT ![i] = x]
  PROVE  /\ r \in Seq(S) /\ DOMAIN r = DOMAIN q /\ Len(r) = Len(q)
         /\ r[i] = x /\ \A j \in DOMAIN q : j # i => r[j] = q[j]
OBVIOUS

\* One more at the end.
LEMMA Appended ==
  ASSUME NEW S, NEW q \in Seq(S), NEW x \in S
  PROVE  /\ Append(q, x) \in Seq(S) /\ Len(q) \in Nat /\ Len(Append(q, x)) = Len(q) + 1
         /\ DOMAIN Append(q, x) = DOMAIN q \cup {Len(q) + 1} /\ Len(q) + 1 \notin DOMAIN q
         /\ Append(q, x)[Len(q) + 1] = x /\ \A j \in DOMAIN q : Append(q, x)[j] = q[j]
OBVIOUS

\* The first one taken.
LEMMA Shifted ==
  ASSUME NEW S, NEW q \in Seq(S), q # <<>>
  PROVE  /\ Tail(q) \in Seq(S) /\ Len(q) \in Nat /\ Len(Tail(q)) = Len(q) - 1
         /\ 1 \in DOMAIN q /\ Head(q) = q[1] /\ q[1] \in S
         /\ \A i \in DOMAIN Tail(q) : i + 1 \in DOMAIN q /\ i + 1 # 1 /\ i \in Int /\ Tail(q)[i] = q[i + 1]
OBVIOUS

\* A place of a sequence and what it holds.
LEMMA Element ==
  ASSUME NEW S, NEW q \in Seq(S), NEW i \in DOMAIN q
  PROVE  q[i] \in S /\ i \in Nat
OBVIOUS

\* The sequence without a place.
LEMMA Empty ==
  ASSUME NEW S, NEW q \in Seq(S), Len(q) = 0
  PROVE  q = <<>>
OBVIOUS

\* The call of another writer stays as it is.
Others(w) == \A v \in Writers : v # w => wcall'[v] = wcall[v]
OtherPools(p) == \A q \in DOMAIN pool : q # p => pool'[q] = pool[q]

\* A pool's record is replaced.
LEMMA PoolReplaced ==
  ASSUME TypeOK, NEW p \in DOMAIN pool, NEW r \in Pools, pool' = [pool EXCEPT ![p] = r]
  PROVE  pool' \in Seq(Pools) /\ DOMAIN pool' = DOMAIN pool /\ pool'[p] = r /\ OtherPools(p)
BY Updated DEF TypeOK, OtherPools

\* A call's record is replaced.
LEMMA CallReplaced ==
  ASSUME TypeOK, NEW w \in Writers, NEW r \in Calls, wcall' = [wcall EXCEPT ![w] = r]
  PROVE  wcall' \in [Writers -> Calls] /\ wcall'[w] = r /\ Others(w)
BY DEF TypeOK, Others

\* A writer takes the first idle connection of its pool: one idle less, one lent more.
LEMMA TakeEffect ==
  ASSUME TypeOK, NEW w \in Writers, NEW p \in DOMAIN pool, Take(w, p)
  PROVE  /\ pool' \in Seq(Pools) /\ DOMAIN pool' = DOMAIN pool /\ OtherPools(p)
         /\ pool[p].idle # <<>> /\ pool'[p].idle = Tail(pool[p].idle) /\ pool'[p].total = pool[p].total
         /\ wcall' \in [Writers -> Calls] /\ Others(w)
         /\ wcall'[w].pc = "send" /\ wcall'[w].pool = p /\ wcall'[w].conn = Head(pool[p].idle)
<1>1. pool[p] \in Pools /\ pool[p].idle \in Seq(Nat) /\ p \in Nat
  <2>1. pool[p] \in Pools /\ p \in Nat  BY Element DEF TypeOK
  <2>2. QED  BY <2>1 DEF Pools
<1>2. Head(pool[p].idle) \in Nat /\ Tail(pool[p].idle) \in Seq(Nat)  BY <1>1, Shifted DEF Take
<1>3. pool' \in Seq(Pools) /\ DOMAIN pool' = DOMAIN pool /\ OtherPools(p)
      /\ pool'[p] = [pool[p] EXCEPT !.idle = Tail(@)]
  <2>1. [pool[p] EXCEPT !.idle = Tail(@)] \in Pools  BY <1>1, <1>2, Zenon DEF Pools
  <2>2. pool' = [pool EXCEPT ![p] = [pool[p] EXCEPT !.idle = Tail(@)]]  BY DEF Take
  <2>3. QED  BY <2>1, <2>2, PoolReplaced, Zenon
<1>4. /\ wcall' \in [Writers -> Calls] /\ Others(w)
      /\ wcall'[w].pc = "send" /\ wcall'[w].pool = p /\ wcall'[w].conn = Head(pool[p].idle)
  BY <1>1, <1>2, ZenonT(30) DEF Take, TypeOK, Calls, Others
<1>5. QED  BY <1>1, <1>3, <1>4, Zenon DEF Take, Pools

\* A connection is put back if there is room for it; the total stays as it was.
LEMMA PutEffect ==
  ASSUME TypeOK, NEW p \in DOMAIN pool, NEW c \in Nat, Put(p, c)
  PROVE  /\ pool' \in Seq(Pools) /\ DOMAIN pool' = DOMAIN pool /\ OtherPools(p)
         /\ pool'[p].total = pool[p].total
         /\ IF Len(pool[p].idle) < MaxConnections
            THEN pool'[p].idle = Append(pool[p].idle, c) ELSE pool'[p].idle = pool[p].idle
<1>1. pool[p] \in Pools /\ pool[p].idle \in Seq(Nat)
  <2>1. pool[p] \in Pools  BY Element DEF TypeOK
  <2>2. QED  BY <2>1 DEF Pools
<1>2. CASE Len(pool[p].idle) < MaxConnections
  <2>1. [pool[p] EXCEPT !.idle = Append(@, c)] \in Pools  BY <1>1, Appended, Zenon DEF Pools
  <2>2. pool' = [pool EXCEPT ![p] = [pool[p] EXCEPT !.idle = Append(@, c)]]  BY <1>2 DEF Put
  <2>3. /\ pool'[p] = [pool[p] EXCEPT !.idle = Append(@, c)] /\ pool' \in Seq(Pools)
        /\ DOMAIN pool' = DOMAIN pool /\ OtherPools(p)
    BY <2>1, <2>2, PoolReplaced, Zenon
  <2>4. QED  BY <1>1, <1>2, <2>3 DEF Pools
<1>3. CASE ~(Len(pool[p].idle) < MaxConnections)  BY <1>3 DEF Put, TypeOK, OtherPools
<1>4. QED  BY <1>2, <1>3

\* The total of one pool changes and nothing else of the pools.
LEMMA TotalEffect ==
  ASSUME TypeOK, NEW p \in DOMAIN pool, NEW n \in Int, pool' = [pool EXCEPT ![p].total = n]
  PROVE  /\ pool' \in Seq(Pools) /\ DOMAIN pool' = DOMAIN pool /\ OtherPools(p)
         /\ pool'[p].idle = pool[p].idle /\ pool'[p].total = n
<1>1. pool[p] \in Pools  BY Element DEF TypeOK
<1>2. [pool[p] EXCEPT !.total = n] \in Pools  BY <1>1, Zenon DEF Pools
<1>3. pool' = [pool EXCEPT ![p] = [pool[p] EXCEPT !.total = n]]  OBVIOUS
<1>4. pool'[p] = [pool[p] EXCEPT !.total = n] /\ pool' \in Seq(Pools) /\ DOMAIN pool' = DOMAIN pool /\ OtherPools(p)
  BY <1>2, <1>3, PoolReplaced, Zenon
<1>5. QED  BY <1>1, <1>4, Zenon DEF Pools

\* A call that ends keeps no pool and no connection.
LEMMA ReturnEffect ==
  ASSUME TypeOK, NEW w \in Writers, Return(w)
  PROVE  wcall' \in [Writers -> Calls] /\ wcall'[w] = NoCall /\ wcall'[w].pc = "idle" /\ Others(w)
<1>1. NoCall \in Calls /\ NoCall.pc = "idle"  BY DEF NoCall, Calls
<1>2. QED  BY <1>1, CallReplaced, Zenon DEF Return

\* A new connection is quiet, and those there were stay as they are.
LEMMA ConnectEffect ==
  ASSUME TypeOK, Connect
  PROVE  /\ conns' \in Seq(Conns) /\ Len(conns) + 1 \in Nat
         /\ DOMAIN conns' = DOMAIN conns \cup {Len(conns) + 1} /\ Len(conns) + 1 \notin DOMAIN conns
         /\ \A c \in DOMAIN conns : conns'[c] = conns[c]
         /\ conns'[Len(conns) + 1].in = <<>> /\ conns'[Len(conns) + 1].out = <<>>
<1>1. NewConn \in Conns /\ NewConn.in = <<>> /\ NewConn.out = <<>>  BY DEF NewConn, Conns, Flags
<1>2. QED  BY <1>1, Appended DEF Connect, TypeOK

-----------------------------------------------------------------------------
(* Counting                                                                *)

\* A set with and without an element.
LEMMA Without ==
  ASSUME NEW S, IsFiniteSet(S), NEW x
  PROVE  /\ Cardinality(S) = Cardinality(S \ {x}) + (IF x \in S THEN 1 ELSE 0)
         /\ Cardinality(S) \in Nat /\ Cardinality(S \ {x}) \in Nat
<1>1. Cardinality(S) \in Nat /\ IsFiniteSet(S \ {x})  BY FS_CardinalityType, FS_Subset
<1>2. Cardinality(S \ {x}) \in Nat  BY <1>1, FS_CardinalityType
<1>3. Cardinality(S \ {x}) = IF x \in S THEN Cardinality(S) - 1 ELSE Cardinality(S)  BY FS_RemoveElement
<1>4. QED  BY <1>1, <1>2, <1>3

\* When one writer moves, a pool lends at most one connection more or less.
LEMMA HoldersCount ==
  ASSUME Sizes, NEW w \in Writers, Others(w), NEW p
  PROVE  /\ Cardinality(Holders(p)) \in Nat /\ Cardinality(Holders(p)') \in Nat
         /\ Cardinality(Holders(p)') + (IF w \in Holders(p) THEN 1 ELSE 0)
              = Cardinality(Holders(p)) + (IF w \in Holders(p)' THEN 1 ELSE 0)
         /\ w \in Holders(p) => Cardinality(Holders(p)) >= 1
<1> DEFINE H == Holders(p)
           J == Holders(p)'
<1>1. IsFiniteSet(H) /\ IsFiniteSet(J)
  <2>1. H \subseteq Writers /\ J \subseteq Writers  BY DEF Holders
  <2>2. QED  BY <2>1, FS_Subset DEF Sizes
<1>2. J \ {w} = H \ {w}  BY DEF Others, Holders
<1> HIDE DEF H, J
<1>3. /\ Cardinality(J) + (IF w \in H THEN 1 ELSE 0) = Cardinality(H) + (IF w \in J THEN 1 ELSE 0)
      /\ Cardinality(H) \in Nat /\ Cardinality(J) \in Nat /\ (w \in H => Cardinality(H) >= 1)
  <2>1. /\ Cardinality(H) = Cardinality(H \ {w}) + (IF w \in H THEN 1 ELSE 0)
        /\ Cardinality(H) \in Nat /\ Cardinality(H \ {w}) \in Nat
    BY <1>1, Without
  <2>2. /\ Cardinality(J) = Cardinality(J \ {w}) + (IF w \in J THEN 1 ELSE 0)
        /\ Cardinality(J) \in Nat
    BY <1>1, Without
  <2>3. QED  BY <2>1, <2>2, <1>2
<1>4. QED  BY <1>3 DEF H, J

-----------------------------------------------------------------------------
(* The invariant, action by action                                         *)

\* There is no pool and no call at first.
LEMMA InitIInv == Init => IInv
<1> SUFFICES ASSUME Init PROVE IInv  OBVIOUS
<1>1. pool = <<>> /\ conns = <<>> /\ acked = {} /\ wcalls = 0 /\ pools = [n \in Nodes |-> 0]
      /\ wcall = [w \in Writers |-> NoCall]
  BY DEF Init
<1>2. NoCall \in Calls /\ NoCall.pc = "idle"  BY DEF NoCall, Calls
<1>3. TypeOK  BY <1>1, <1>2 DEF TypeOK
<1>4. PoolsKnown /\ Counted /\ Apart /\ Clean
  BY <1>1, <1>2 DEF PoolsKnown, Counted, Apart, Clean, Holding
<1>5. AnswerIsOwn  BY <1>1 DEF AnswerIsOwn
<1>6. QED  BY <1>3, <1>4, <1>5 DEF IInv

\* A writer that has no connection, before or after, disturbs no other.
LEMMA PassStep ==
  ASSUME Sizes, IInv, NEW w \in Writers, Others(w), w \notin Holding, w \notin Holding',
         UNCHANGED <<pool, conns, applied, acked, raced>>
  PROVE  Counted' /\ Apart' /\ Clean' /\ AnswerIsOwn'
<1>1. Holding' = Holding /\ \A v \in Holding : v # w /\ wcall'[v] = wcall[v]  BY DEF Holding, Others
<1>2. \A p : Holders(p)' = Holders(p)  BY DEF Holders, Holding, Others
<1>3. Counted'  BY <1>2 DEF IInv, Counted
<1>4. Apart'  BY <1>1 DEF IInv, Apart
<1>5. Clean'
  <2>1. \A v \in Writers : wcall'[v].pc \in {"send", "read"} => v \in Holding /\ wcall'[v] = wcall[v]
    BY <1>1 DEF Holding
  <2>2. \A c : Quiet(c)' <=> Quiet(c)  BY DEF Quiet
  <2>3. \A c, r : OwnOnly(c, r)' <=> OwnOnly(c, r)  BY DEF OwnOnly
  <2>4. QED  BY <2>1, <2>2, <2>3 DEF IInv, Clean
<1>6. AnswerIsOwn'  BY DEF IInv, AnswerIsOwn
<1>7. QED  BY <1>3, <1>4, <1>5, <1>6

\* Clean in the next state, connection by connection.
LEMMA CleanNext ==
  ASSUME \A p \in DOMAIN pool' : \A i \in DOMAIN pool'[p].idle : \E c : c = pool'[p].idle[i] /\ Quiet(c)',
         \A v \in Writers : wcall'[v].pc = "send" => \E c : c = wcall'[v].conn /\ Quiet(c)',
         \A v \in Writers : wcall'[v].pc = "read" =>
           \E c, r : c = wcall'[v].conn /\ r = wcall'[v].req /\ OwnOnly(c, r)'
  PROVE  Clean'
<1>1. \A p \in DOMAIN pool' : \A i \in DOMAIN pool'[p].idle : Quiet(pool[p].idle[i])'  BY DEF Quiet
<1>2. \A v \in Writers : wcall'[v].pc = "send" => Quiet(wcall[v].conn)'  BY DEF Quiet
<1>3. ASSUME NEW v \in Writers, wcall'[v].pc = "read"
      PROVE  OwnOnly(wcall[v].conn, wcall[v].req)'
  <2>1. PICK c, r : c = wcall'[v].conn /\ r = wcall'[v].req /\ OwnOnly(c, r)'  BY <1>3
  <2>2. QED  BY <2>1, Zenon DEF OwnOnly
<1>4. QED  BY <1>1, <1>2, <1>3 DEF Clean

\* A call starts and finds the pool of its node, or none.
LEMMA WriteShardIInv ==
  ASSUME Sizes, IInv, NEW w \in Writers, NEW n \in Nodes, WriteShard(w, n)
  PROVE  IInv'
<1> DEFINE r == [NoCall EXCEPT !.pc = IF pools[n] = 0 THEN "new" ELSE "conn", !.node = n, !.req = wcalls + 1]
<1>1. wcall' = [wcall EXCEPT ![w] = r] /\ wcalls' = wcalls + 1 /\ wcall[w].pc = "idle"
      /\ UNCHANGED <<pools, pool, conns, applied, acked, raced>>
  BY DEF WriteShard, At
<1>2. TypeOK  BY DEF IInv
<1>3. r \in Calls /\ r.node = n /\ r.pc = IF pools[n] = 0 THEN "new" ELSE "conn"
  <2> DEFINE pc == IF pools[n] = 0 THEN "new" ELSE "conn"
  <2>1. pc \in {"new", "conn"} /\ wcalls + 1 \in Nat  BY <1>2 DEF TypeOK
  <2> HIDE DEF pc
  <2>2. r = [NoCall EXCEPT !.pc = pc, !.node = n, !.req = wcalls + 1]  BY DEF pc
  <2> HIDE DEF r
  <2>3. r \in Calls /\ r.node = n /\ r.pc = pc  BY <2>1, <2>2, Zenon DEF NoCall, Calls
  <2>4. QED  BY <2>3 DEF pc
<1> HIDE DEF r
<1>4. wcall' \in [Writers -> Calls] /\ wcall'[w] = r /\ Others(w)  BY <1>1, <1>2, <1>3, CallReplaced, Zenon
<1>5. TypeOK'  BY <1>1, <1>2, <1>4 DEF TypeOK
<1>6. PoolsKnown'
  <2>1. \A v \in Writers : v # w => wcall'[v] = wcall[v]  BY <1>4 DEF Others
  <2>2. wcall'[w].pc \in {"new", "conn"} /\ wcall'[w].node \in Nodes
        /\ (wcall'[w].pc = "conn" => pools[wcall'[w].node] # 0)
    BY <1>3, <1>4
  <2>3. QED  BY <1>1, <2>1, <2>2 DEF IInv, PoolsKnown
<1>7. w \notin Holding /\ w \notin Holding'  BY <1>1, <1>3, <1>4 DEF Holding
<1>8. QED  BY <1>1, <1>4, <1>5, <1>6, <1>7, PassStep DEF IInv

\* A call that gives up before it has a connection.
LEMMA GiveUpIInv ==
  ASSUME Sizes, IInv, NEW w \in Writers, w \notin Holding, Return(w),
         UNCHANGED <<pools, pool, conns, wcalls, applied, acked, raced>>
  PROVE  IInv'
<1>1. TypeOK  BY DEF IInv
<1>2. wcall' \in [Writers -> Calls] /\ wcall'[w].pc = "idle" /\ Others(w)  BY <1>1, ReturnEffect
<1>3. TypeOK'  BY <1>1, <1>2 DEF TypeOK
<1>4. PoolsKnown'
  <2>1. \A v \in Writers : v # w => wcall'[v] = wcall[v]  BY <1>2 DEF Others
  <2>2. QED  BY <1>2, <2>1 DEF IInv, PoolsKnown
<1>5. w \notin Holding'  BY <1>2 DEF Holding
<1>6. QED  BY <1>2, <1>3, <1>4, <1>5, PassStep DEF IInv

\* A pool is made, empty, before the lock of the map is taken.
LEMMA NewPoolIInv ==
  ASSUME Sizes, IInv, NEW w \in Writers, NewPool(w)
  PROVE  IInv'
<1>1. TypeOK /\ wcall[w].pc = "new" /\ UNCHANGED <<pools, wcalls, applied, acked, raced>>
  BY DEF IInv, NewPool, At
<1>2. w \notin Holding  BY <1>1 DEF Holding
<1>3. CASE ConnectFails /\ Return(w) /\ UNCHANGED pool
  BY <1>1, <1>2, <1>3, GiveUpIInv DEF ConnectFails
<1>4. CASE /\ Connect
           /\ pool' = Append(pool, [idle |-> <<Len(conns) + 1>>, total |-> 1])
           /\ wcall' = [wcall EXCEPT ![w].pc = "set", ![w].pool = Len(pool) + 1]
  <2>1. Len(conns) \in Nat /\ Len(pool) \in Nat  BY <1>1 DEF TypeOK
  <2>2. PICK c \in Nat, new \in Nat : c = Len(conns) + 1 /\ new = Len(pool) + 1  BY <2>1
  <2> DEFINE rec == [idle |-> <<c>>, total |-> 1]
  <2>3. /\ conns' \in Seq(Conns) /\ DOMAIN conns' = DOMAIN conns \cup {c} /\ c \notin DOMAIN conns
        /\ \A d \in DOMAIN conns : conns'[d] = conns[d]
        /\ conns'[c].in = <<>> /\ conns'[c].out = <<>>
    BY <1>1, <1>4, <2>2, ConnectEffect
  <2>4. rec \in Pools /\ rec.idle = <<c>> /\ rec.total = 1  BY DEF Pools
  <2>5. pool' = Append(pool, rec)  BY <1>4, <2>2
  <2> HIDE DEF rec
  <2>6. /\ pool' \in Seq(Pools) /\ new # 0 /\ DOMAIN pool' = DOMAIN pool \cup {new} /\ new \notin DOMAIN pool
        /\ pool'[new] = rec /\ \A p \in DOMAIN pool : pool'[p] = pool[p]
    BY <1>1, <2>2, <2>4, <2>5, Appended DEF TypeOK
  <2>7. wcall' = [wcall EXCEPT ![w].pc = "set", ![w].pool = new]  BY <1>4, <2>2
  <2>8. wcall' \in [Writers -> Calls] /\ Others(w)
        /\ wcall'[w].pc = "set" /\ wcall'[w].pool = new /\ wcall'[w].node = wcall[w].node
    BY <1>1, <2>7, ZenonT(30) DEF TypeOK, Calls, Others
  <2>9. TypeOK'  BY <1>1, <2>3, <2>6, <2>8 DEF TypeOK
  <2>10. \A v \in Writers : v # w => wcall'[v] = wcall[v]  BY <2>8 DEF Others
  <2>11. PoolsKnown'
    <3>1. \A m \in Nodes : pools'[m] # 0 => pools'[m] \in DOMAIN pool'
      BY <1>1, <2>6 DEF IInv, PoolsKnown
    <3>2. wcall'[w].node \in Nodes  BY <1>1, <2>8 DEF IInv, PoolsKnown
    <3>3. QED  BY <1>1, <2>6, <2>8, <2>10, <3>1, <3>2 DEF IInv, PoolsKnown
  <2>12. Holding' = Holding /\ \A v \in Holding : wcall'[v] = wcall[v]  BY <1>2, <2>8, <2>10 DEF Holding
  <2>13. \A p : Holders(p)' = Holders(p)  BY <1>2, <2>8, <2>10 DEF Holders, Holding
  <2>14. Counted'
    <3>1. Holders(new) = {}  BY <2>6 DEF IInv, PoolsKnown, Holders
    <3>2. Holders(new)' = {} /\ Cardinality({}) = 0  BY <2>13, <3>1, FS_EmptySet
    <3>3. Len(pool'[new].idle) = 1 /\ pool'[new].total = 1  BY <2>4, <2>6, Zenon
    <3>4. ASSUME NEW p \in DOMAIN pool' \ raced'
          PROVE  pool'[p].total = Len(pool'[p].idle) + Cardinality(Holders(p)') /\ pool'[p].total <= MaxConnections
      <4>1. CASE p = new
        <5>1. Cardinality(Holders(p)') = 0  BY <4>1, <3>2
        <5>2. QED  BY <4>1, <5>1, <3>3 DEF Sizes
      <4>2. CASE p # new  BY <4>2, <3>4, <2>6, <2>13, <1>1 DEF IInv, Counted
      <4>3. QED  BY <4>1, <4>2
    <3>5. QED  BY <3>4 DEF Counted
  <2>15. DOMAIN pool'[new].idle = {1} /\ pool'[new].idle[1] = c  BY <2>4, <2>6
  <2>16. /\ \A p \in DOMAIN pool : \A i \in DOMAIN pool[p].idle : pool[p].idle[i] # c
         /\ \A v \in Holding : wcall[v].conn # c
    BY <2>3, Zenon DEF IInv, Clean, Quiet, OwnOnly, Holding
  <2>17. Apart'  BY <2>6, <2>12, <2>15, <2>16 DEF IInv, Apart
  <2>18. Clean'
    <3>1. Quiet(c)' /\ \A d : Quiet(d) => Quiet(d)'  BY <2>3 DEF Quiet
    <3>2. \A d, r : OwnOnly(d, r) => OwnOnly(d, r)'  BY <1>1, <2>3, Zenon DEF OwnOnly
    <3>3. \A v \in Writers : wcall'[v].pc \in {"send", "read"} => wcall'[v] = wcall[v]  BY <2>8, <2>10
    <3>4. \A p \in DOMAIN pool' : \A i \in DOMAIN pool'[p].idle : Quiet(pool'[p].idle[i]) \/ pool'[p].idle[i] = c
      BY <2>6, <2>15 DEF IInv, Clean
    <3>5. \A v \in Writers : /\ wcall'[v].pc = "send" => Quiet(wcall'[v].conn)
                             /\ wcall'[v].pc = "read" => OwnOnly(wcall'[v].conn, wcall'[v].req)
      BY <3>3 DEF IInv, Clean
    <3>6. QED  BY <3>1, <3>2, <3>4, <3>5, CleanNext
  <2>19. AnswerIsOwn'  BY <1>1 DEF IInv, AnswerIsOwn
  <2>20. QED  BY <2>9, <2>11, <2>14, <2>17, <2>18, <2>19 DEF IInv
<1>5. QED  BY <1>3, <1>4 DEF NewPool

\* The pool becomes that of its node, in place of one made meanwhile.
LEMMA SetPoolIInv ==
  ASSUME Sizes, IInv, NEW w \in Writers, SetPool(w)
  PROVE  IInv'
<1> DEFINE m == wcall[w].node
<1>1. TypeOK /\ wcall[w].pc = "set" /\ UNCHANGED <<pool, conns, wcalls, applied, acked, raced>>
      /\ pools' = [pools EXCEPT ![m] = wcall[w].pool] /\ wcall' = [wcall EXCEPT ![w].pc = "conn"]
  BY DEF IInv, SetPool, At, Goto
<1>2. m \in Nodes /\ wcall[w].pool \in DOMAIN pool /\ wcall[w].pool \in Nat /\ wcall[w].pool # 0
  <2>1. m \in Nodes /\ wcall[w].pool \in DOMAIN pool  BY <1>1 DEF IInv, PoolsKnown
  <2>2. 0 \notin DOMAIN pool  BY <1>1 DEF TypeOK
  <2>3. QED  BY <1>1, <2>1, <2>2 DEF TypeOK, Calls
<1>3. wcall' \in [Writers -> Calls] /\ Others(w) /\ wcall'[w].pc = "conn" /\ wcall'[w].node = m
  BY <1>1, Zenon DEF TypeOK, Calls, Others
<1>4. pools' \in [Nodes -> Nat] /\ pools'[m] = wcall[w].pool /\ \A n \in Nodes : n # m => pools'[n] = pools[n]
  BY <1>1, <1>2 DEF TypeOK
<1>5. TypeOK'  BY <1>1, <1>3, <1>4 DEF TypeOK
<1>6. PoolsKnown'
  <2>1. \A v \in Writers : v # w => wcall'[v] = wcall[v]  BY <1>3 DEF Others
  <2> HIDE DEF m
  <2>2. \A n \in Nodes : pools'[n] # 0 => pools'[n] \in DOMAIN pool'  BY <1>1, <1>2, <1>4 DEF IInv, PoolsKnown
  <2>3. \A n \in Nodes : pools[n] # 0 => pools'[n] # 0  BY <1>2, <1>4
  <2>4. QED  BY <1>1, <1>2, <1>3, <1>4, <2>1, <2>2, <2>3 DEF IInv, PoolsKnown
<1>7. w \notin Holding /\ w \notin Holding'  BY <1>1, <1>3 DEF Holding
<1>8. QED  BY <1>1, <1>3, <1>5, <1>6, <1>7, PassStep DEF IInv

\* An idle connection is lent.
LEMMA TakeIInv ==
  ASSUME Sizes, IInv, NEW w \in Writers, NEW p \in DOMAIN pool, w \notin Holding, Take(w, p),
         UNCHANGED <<pools, conns, wcalls, applied, acked, raced>>
  PROVE  IInv'
<1>1. TypeOK  BY DEF IInv
<1>2. /\ pool' \in Seq(Pools) /\ DOMAIN pool' = DOMAIN pool /\ OtherPools(p)
      /\ pool[p].idle # <<>> /\ pool'[p].idle = Tail(pool[p].idle) /\ pool'[p].total = pool[p].total
      /\ wcall' \in [Writers -> Calls] /\ Others(w)
      /\ wcall'[w].pc = "send" /\ wcall'[w].pool = p /\ wcall'[w].conn = Head(pool[p].idle)
  BY <1>1, TakeEffect
<1>3. \A v \in Writers : v # w => wcall'[v] = wcall[v]  BY <1>2 DEF Others
<1>4. \A q \in DOMAIN pool : q # p => pool'[q] = pool[q]  BY <1>2 DEF OtherPools
<1>5. pool[p].idle \in Seq(Nat)
  <2>1. pool[p] \in Pools  BY <1>1, Element DEF TypeOK
  <2>2. QED  BY <2>1 DEF Pools
<1>6. /\ Len(pool[p].idle) \in Nat /\ Len(pool'[p].idle) = Len(pool[p].idle) - 1
      /\ 1 \in DOMAIN pool[p].idle /\ wcall'[w].conn = pool[p].idle[1]
      /\ \A i \in DOMAIN pool'[p].idle :
           i + 1 \in DOMAIN pool[p].idle /\ i + 1 # 1 /\ i \in Int /\ pool'[p].idle[i] = pool[p].idle[i + 1]
  BY <1>2, <1>5, Shifted
<1>7. TypeOK'  BY <1>1, <1>2 DEF TypeOK
<1>8. PoolsKnown'
  <2>1. \A n \in Nodes : pools'[n] # 0 => pools'[n] \in DOMAIN pool'  BY <1>2 DEF IInv, PoolsKnown
  <2>2. QED  BY <1>2, <1>3, <2>1 DEF IInv, PoolsKnown
<1>9. Counted'
  <2> SUFFICES ASSUME NEW q \in DOMAIN pool, q \notin raced
               PROVE  pool'[q].total = Len(pool'[q].idle) + Cardinality(Holders(q)') /\ pool'[q].total <= MaxConnections
    BY <1>2 DEF Counted
  <2>1. pool[q].total = Len(pool[q].idle) + Cardinality(Holders(q)) /\ pool[q].total <= MaxConnections
    BY DEF IInv, Counted
  <2>2. w \notin Holders(q) /\ (w \in Holders(q)' <=> q = p)  BY <1>2 DEF Holders, Holding
  <2>3. /\ Cardinality(Holders(q)) \in Nat /\ Cardinality(Holders(q)') \in Nat
        /\ Cardinality(Holders(q)') + (IF w \in Holders(q) THEN 1 ELSE 0)
             = Cardinality(Holders(q)) + (IF w \in Holders(q)' THEN 1 ELSE 0)
    BY <1>2, HoldersCount
  <2>4. CASE q = p
    <3>1. Cardinality(Holders(q)') = Cardinality(Holders(q)) + 1  BY <2>2, <2>3, <2>4
    <3>2. QED  BY <2>1, <2>3, <2>4, <3>1, <1>2, <1>6
  <2>5. CASE q # p
    <3>1. Cardinality(Holders(q)') = Cardinality(Holders(q))  BY <2>2, <2>3, <2>5
    <3>2. QED  BY <2>1, <2>5, <3>1, <1>4
  <2>6. QED  BY <2>4, <2>5
<1>10. Holding' = Holding \cup {w} /\ \A v \in Holding : v # w /\ wcall'[v] = wcall[v]
  BY <1>2, <1>3 DEF Holding
<1>11. \A q \in DOMAIN pool : \A i \in DOMAIN pool'[q].idle :
         \E j \in DOMAIN pool[q].idle : pool'[q].idle[i] = pool[q].idle[j]
             /\ (IF q = p THEN j = i + 1 /\ i \in Int ELSE j = i)
  BY <1>4, <1>6
<1>12. Apart'
  <2>1. ASSUME NEW q1 \in DOMAIN pool, NEW q2 \in DOMAIN pool, NEW i1 \in DOMAIN pool'[q1].idle,
               NEW i2 \in DOMAIN pool'[q2].idle, pool'[q1].idle[i1] = pool'[q2].idle[i2]
        PROVE  q1 = q2 /\ i1 = i2
    <3>1. PICK j1 \in DOMAIN pool[q1].idle :
            pool'[q1].idle[i1] = pool[q1].idle[j1] /\ (IF q1 = p THEN j1 = i1 + 1 /\ i1 \in Int ELSE j1 = i1)
      BY <1>11
    <3>2. PICK j2 \in DOMAIN pool[q2].idle :
            pool'[q2].idle[i2] = pool[q2].idle[j2] /\ (IF q2 = p THEN j2 = i2 + 1 /\ i2 \in Int ELSE j2 = i2)
      BY <1>11
    <3>3. pool[q1].idle[j1] = pool[q2].idle[j2]  BY <2>1, <3>1, <3>2, Zenon
    <3>4. q1 = q2 /\ j1 = j2  BY <3>3 DEF IInv, Apart
    <3>5. QED  BY <3>1, <3>2, <3>4
  <2>2. ASSUME NEW v \in Holding', NEW q \in DOMAIN pool, NEW i \in DOMAIN pool'[q].idle
        PROVE  pool'[q].idle[i] # wcall'[v].conn
    <3>1. CASE v # w  BY <3>1, <1>10, <1>11 DEF IInv, Apart
    <3>2. CASE v = w
      <4>1. CASE q = p
        <5>1. pool[p].idle[i + 1] # pool[p].idle[1]  BY <1>6, <2>2, <4>1 DEF IInv, Apart
        <5>2. QED  BY <3>2, <4>1, <5>1, <1>6
      <4>2. CASE q # p
        <5>1. pool[q].idle[i] # pool[p].idle[1]  BY <1>4, <1>6, <2>2, <4>2 DEF IInv, Apart
        <5>2. QED  BY <3>2, <4>2, <5>1, <1>4, <1>6
      <4>3. QED  BY <4>1, <4>2
    <3>3. QED  BY <3>1, <3>2
  <2>3. ASSUME NEW u \in Holding', NEW v \in Holding', wcall'[u].conn = wcall'[v].conn
        PROVE  u = v
    <3>1. \A x \in Holding : wcall[x].conn # pool[p].idle[1]  BY <1>6 DEF IInv, Apart
    <3>2. QED  BY <2>3, <3>1, <1>6, <1>10 DEF IInv, Apart
  <2>4. QED  BY <2>1, <2>2, <2>3, <1>2 DEF Apart
<1>13. Clean'
  <2>1. \A c : Quiet(c)' <=> Quiet(c)  BY DEF Quiet
  <2>2. \A c, r : OwnOnly(c, r)' <=> OwnOnly(c, r)  BY DEF OwnOnly
  <2>3. \A q \in DOMAIN pool' : \A i \in DOMAIN pool'[q].idle : Quiet(pool'[q].idle[i])
    BY <1>2, <1>11 DEF IInv, Clean
  <2>4. \A v \in Writers : /\ wcall'[v].pc = "send" => Quiet(wcall'[v].conn)
                           /\ wcall'[v].pc = "read" => OwnOnly(wcall'[v].conn, wcall'[v].req)
    BY <1>2, <1>3, <1>6 DEF IInv, Clean
  <2>5. QED  BY <2>1, <2>2, <2>3, <2>4, CleanNext
<1>14. AnswerIsOwn'  BY DEF IInv, AnswerIsOwn
<1>15. QED  BY <1>7, <1>8, <1>9, <1>12, <1>13, <1>14 DEF IInv

\* boundedPool.Get lends an idle connection, dials or waits.
LEMMA GetIInv ==
  ASSUME Sizes, IInv, NEW w \in Writers, Get(w) \/ GetWait(w)
  PROVE  IInv'
<1>1. TypeOK /\ UNCHANGED <<pools, conns, wcalls, applied, acked, raced>> /\ wcall[w].pc \in {"conn", "wait"}
  BY DEF IInv, Get, GetWait, At
<1>2. w \notin Holding  BY <1>1, Zenon DEF Holding
<1>3. CASE Get(w)
  <2>1. wcall[w].pc = "conn"  BY <1>3 DEF Get, At
  <2>2. PICK p \in DOMAIN pool : p = pools[wcall[w].node]
    BY <2>1, Zenon DEF IInv, PoolsKnown
  <2>3. CASE Take(w, p)  BY <2>3, <1>1, <1>2, TakeIInv
  <2>4. CASE /\ wcall' = [wcall EXCEPT ![w].pool = p, ![w].pc = IF pool[p].total < MaxConnections THEN "dial" ELSE "wait"]
             /\ UNCHANGED pool
    <3> DEFINE pc == IF pool[p].total < MaxConnections THEN "dial" ELSE "wait"
    <3>1. pc \in {"dial", "wait"} /\ p \in Nat  BY <1>1 DEF TypeOK
    <3> HIDE DEF pc
    <3>2. wcall' = [wcall EXCEPT ![w].pool = p, ![w].pc = pc]  BY <2>4 DEF pc
    <3>3. wcall' \in [Writers -> Calls] /\ Others(w) /\ wcall'[w].pc = pc /\ wcall'[w].pool = p
      BY <1>1, <3>1, <3>2, ZenonT(30) DEF TypeOK, Calls, Others
    <3>4. TypeOK'  BY <1>1, <2>4, <3>3 DEF TypeOK
    <3>5. PoolsKnown'
      <4>1. \A v \in Writers : v # w => wcall'[v] = wcall[v]  BY <3>3 DEF Others
      <4>2. QED  BY <1>1, <2>4, <3>1, <3>3, <4>1 DEF IInv, PoolsKnown
    <3>6. w \notin Holding'  BY <3>1, <3>3 DEF Holding
    <3>7. QED  BY <1>1, <1>2, <2>4, <3>3, <3>4, <3>5, <3>6, PassStep DEF IInv
  <2>5. QED  BY <1>3, <2>2, <2>3, <2>4, Zenon DEF Get
<1>4. CASE GetWait(w)
  <2>1. PICK p \in DOMAIN pool : p = wcall[w].pool  BY <1>4 DEF IInv, PoolsKnown, GetWait, At
  <2>2. CASE Take(w, p)  BY <2>2, <1>1, <1>2, TakeIInv
  <2>3. CASE Return(w) /\ UNCHANGED pool  BY <2>3, <1>1, <1>2, GiveUpIInv
  <2>4. QED  BY <1>4, <2>1, <2>2, <2>3 DEF GetWait
<1>5. QED  BY <1>3, <1>4

\* Get makes a connection, or cannot.
LEMMA GetDialIInv ==
  ASSUME Sizes, IInv, NEW w \in Writers, GetDial(w)
  PROVE  IInv'
<1>1. TypeOK /\ wcall[w].pc = "dial" /\ UNCHANGED <<pools, wcalls, applied, acked>>
  BY DEF IInv, GetDial, At
<1>2. w \notin Holding  BY <1>1 DEF Holding
<1>3. PICK p \in DOMAIN pool : p = wcall[w].pool  BY <1>1 DEF IInv, PoolsKnown
<1>4. CASE ConnectFails /\ Return(w) /\ UNCHANGED <<pool, raced>>
  BY <1>1, <1>2, <1>4, GiveUpIInv DEF ConnectFails
<1>5. CASE /\ Connect
           /\ pool' = [pool EXCEPT ![p].total = @ + 1]
           /\ wcall' = [wcall EXCEPT ![w].pc = "send", ![w].conn = Len(conns) + 1]
           /\ raced' = IF pool[p].total >= MaxConnections THEN raced \cup {p} ELSE raced
  <2>1. Len(conns) \in Nat  BY <1>1 DEF TypeOK
  <2>2. PICK c \in Nat : c = Len(conns) + 1  BY <2>1
  <2>3. /\ conns' \in Seq(Conns) /\ DOMAIN conns' = DOMAIN conns \cup {c} /\ c \notin DOMAIN conns
        /\ \A d \in DOMAIN conns : conns'[d] = conns[d]
        /\ conns'[c].in = <<>> /\ conns'[c].out = <<>>
    BY <1>1, <1>5, <2>2, ConnectEffect
  <2>4. /\ pool' \in Seq(Pools) /\ DOMAIN pool' = DOMAIN pool /\ OtherPools(p)
        /\ pool'[p].idle = pool[p].idle /\ pool'[p].total = pool[p].total + 1
    <3>1. pool[p].total \in Int
      <4>1. pool[p] \in Pools  BY <1>1, Element DEF TypeOK
      <4>2. QED  BY <4>1 DEF Pools
    <3>2. PICK n \in Int : n = pool[p].total + 1  BY <3>1
    <3>3. pool' = [pool EXCEPT ![p].total = n]  BY <1>5, <3>2
    <3>4. QED  BY <1>1, <3>2, <3>3, TotalEffect, Zenon
  <2>5. \A q \in DOMAIN pool : pool'[q].idle = pool[q].idle /\ (q # p => pool'[q] = pool[q])
    BY <2>4 DEF OtherPools
  <2>6. /\ wcall' \in [Writers -> Calls] /\ Others(w)
        /\ wcall'[w].pc = "send" /\ wcall'[w].pool = p /\ wcall'[w].conn = c
    BY <1>1, <1>3, <1>5, <2>2, ZenonT(30) DEF TypeOK, Calls, Others
  <2>7. \A v \in Writers : v # w => wcall'[v] = wcall[v]  BY <2>6 DEF Others
  <2>8. TypeOK'  BY <1>1, <2>3, <2>4, <2>6 DEF TypeOK
  <2>9. PoolsKnown'  BY <1>1, <2>4, <2>6, <2>7 DEF IInv, PoolsKnown
  <2>10. Counted'
    <3> SUFFICES ASSUME NEW q \in DOMAIN pool, q \notin raced'
                 PROVE  pool'[q].total = Len(pool'[q].idle) + Cardinality(Holders(q)') /\ pool'[q].total <= MaxConnections
      BY <2>4 DEF Counted
    <3>1. q \notin raced /\ (q = p => ~(pool[p].total >= MaxConnections))  BY <1>5
    <3>2. pool[q].total = Len(pool[q].idle) + Cardinality(Holders(q)) /\ pool[q].total <= MaxConnections
      BY <3>1 DEF IInv, Counted
    <3>3. w \notin Holders(q) /\ (w \in Holders(q)' <=> q = p)  BY <1>2, <2>6 DEF Holders, Holding
    <3>4. /\ Cardinality(Holders(q)) \in Nat /\ Cardinality(Holders(q)') \in Nat
          /\ Cardinality(Holders(q)') + (IF w \in Holders(q) THEN 1 ELSE 0)
               = Cardinality(Holders(q)) + (IF w \in Holders(q)' THEN 1 ELSE 0)
      BY <2>6, HoldersCount
    <3>5. CASE q = p
      <4>1. Cardinality(Holders(q)') = Cardinality(Holders(q)) + 1  BY <3>3, <3>4, <3>5
      <4>2. Len(pool[q].idle) \in Nat /\ pool[q].total \in Int
        <5>1. pool[q] \in Pools  BY <1>1, Element DEF TypeOK
        <5>2. QED  BY <5>1 DEF Pools
      <4>3. pool'[q].total = pool[q].total + 1 /\ pool'[q].idle = pool[q].idle /\ ~(pool[q].total >= MaxConnections)
        BY <2>4, <3>1, <3>5
      <4>4. QED  BY <3>2, <3>4, <4>1, <4>2, <4>3 DEF Sizes
    <3>6. CASE q # p
      <4>1. Cardinality(Holders(q)') = Cardinality(Holders(q))  BY <3>3, <3>4, <3>6
      <4>2. QED  BY <3>2, <3>6, <4>1, <2>5
    <3>7. QED  BY <3>5, <3>6
  <2>11. Holding' = Holding \cup {w} /\ \A v \in Holding : v # w /\ wcall'[v] = wcall[v]
    BY <1>2, <2>6, <2>7 DEF Holding
  <2>12. /\ \A q \in DOMAIN pool : \A i \in DOMAIN pool[q].idle : pool[q].idle[i] # c
         /\ \A v \in Holding : wcall[v].conn # c
    BY <2>3, Zenon DEF IInv, Clean, Quiet, OwnOnly, Holding
  <2>13. Apart'  BY <2>4, <2>5, <2>6, <2>11, <2>12 DEF IInv, Apart
  <2>14. Clean'
    <3>1. Quiet(c)' /\ \A d : Quiet(d) => Quiet(d)'  BY <2>3 DEF Quiet
    <3>2. \A d, r : OwnOnly(d, r) => OwnOnly(d, r)'  BY <1>1, <2>3, Zenon DEF OwnOnly
    <3>3. \A q \in DOMAIN pool' : \A i \in DOMAIN pool'[q].idle : Quiet(pool'[q].idle[i])
      BY <2>4, <2>5 DEF IInv, Clean
    <3>4. \A v \in Writers : /\ wcall'[v].pc = "send" => Quiet(wcall'[v].conn) \/ wcall'[v].conn = c
                             /\ wcall'[v].pc = "read" => OwnOnly(wcall'[v].conn, wcall'[v].req)
      BY <2>6, <2>7 DEF IInv, Clean
    <3>5. QED  BY <3>1, <3>2, <3>3, <3>4, CleanNext
  <2>15. AnswerIsOwn'  BY <1>1 DEF IInv, AnswerIsOwn
  <2>16. QED  BY <2>8, <2>9, <2>10, <2>13, <2>14, <2>15 DEF IInv
<1>6. QED  BY <1>3, <1>4, <1>5 DEF GetDial

\* A pool whose connection is given up counts one less.
LEMMA DropIInv ==
  ASSUME Sizes, IInv, NEW w \in Holding, MarkUnusable(wcall[w].pool), Return(w),
         UNCHANGED <<pools, conns, wcalls, applied, acked, raced>>
  PROVE  IInv'
<1>1. TypeOK /\ w \in Writers  BY DEF IInv, Holding
<1>2. PICK p \in DOMAIN pool : p = wcall[w].pool  BY DEF IInv, PoolsKnown, Holding
<1>3. /\ pool' \in Seq(Pools) /\ DOMAIN pool' = DOMAIN pool /\ OtherPools(p)
      /\ pool'[p].idle = pool[p].idle /\ pool'[p].total = pool[p].total - 1
  <2>1. pool[p].total \in Int
    <3>1. pool[p] \in Pools  BY <1>1, Element DEF TypeOK
    <3>2. QED  BY <3>1 DEF Pools
  <2>2. PICK n \in Int : n = pool[p].total - 1  BY <2>1
  <2>3. pool' = [pool EXCEPT ![p].total = n]  BY <1>2, <2>2 DEF MarkUnusable
  <2>4. QED  BY <1>1, <2>2, <2>3, TotalEffect, Zenon
<1>4. \A q \in DOMAIN pool : pool'[q].idle = pool[q].idle /\ (q # p => pool'[q] = pool[q])
  BY <1>3 DEF OtherPools
<1>5. wcall' \in [Writers -> Calls] /\ wcall'[w].pc = "idle" /\ Others(w)  BY <1>1, ReturnEffect
<1>6. \A v \in Writers : v # w => wcall'[v] = wcall[v]  BY <1>5 DEF Others
<1>7. TypeOK'  BY <1>1, <1>3, <1>5, Zenon DEF TypeOK
<1>8. PoolsKnown'  BY <1>3, <1>5, <1>6 DEF IInv, PoolsKnown
<1>9. Counted'
  <2> SUFFICES ASSUME NEW q \in DOMAIN pool, q \notin raced
               PROVE  pool'[q].total = Len(pool'[q].idle) + Cardinality(Holders(q)') /\ pool'[q].total <= MaxConnections
    BY <1>3 DEF Counted
  <2>1. pool[q].total = Len(pool[q].idle) + Cardinality(Holders(q)) /\ pool[q].total <= MaxConnections
    BY DEF IInv, Counted
  <2>2. w \notin Holders(q)' /\ (w \in Holders(q) <=> q = p)  BY <1>2, <1>5 DEF Holders, Holding
  <2>3. /\ Cardinality(Holders(q)) \in Nat /\ Cardinality(Holders(q)') \in Nat
        /\ Cardinality(Holders(q)') + (IF w \in Holders(q) THEN 1 ELSE 0)
             = Cardinality(Holders(q)) + (IF w \in Holders(q)' THEN 1 ELSE 0)
    BY <1>1, <1>5, HoldersCount
  <2>4. CASE q = p
    <3>1. Cardinality(Holders(q)') + 1 = Cardinality(Holders(q))  BY <2>2, <2>3, <2>4
    <3>2. Len(pool[q].idle) \in Nat /\ pool[q].total \in Int
      <4>1. pool[q] \in Pools  BY <1>1, Element DEF TypeOK
      <4>2. QED  BY <4>1 DEF Pools
    <3>3. pool'[q].total = pool[q].total - 1 /\ pool'[q].idle = pool[q].idle  BY <1>3, <2>4
    <3>4. Len(pool'[q].idle) = Len(pool[q].idle)  BY <3>3
    <3>5. pool'[q].total = Len(pool'[q].idle) + Cardinality(Holders(q)')  BY <2>1, <2>3, <3>1, <3>2, <3>3, <3>4
    <3>6. MaxConnections \in Nat  BY DEF Sizes
    <3>7. QED  BY <2>1, <3>2, <3>3, <3>5, <3>6
  <2>5. CASE q # p
    <3>1. Cardinality(Holders(q)') = Cardinality(Holders(q))  BY <2>2, <2>3, <2>5
    <3>2. QED  BY <2>1, <2>5, <3>1, <1>4
  <2>6. QED  BY <2>4, <2>5
<1>10. Holding' = Holding \ {w} /\ \A v \in Holding' : wcall'[v] = wcall[v]  BY <1>5, <1>6, Zenon DEF Holding
<1>11. Apart'  BY <1>3, <1>4, <1>10, SMTT(30) DEF IInv, Apart
<1>12. Clean'
  <2>1. \A c : Quiet(c)' <=> Quiet(c)  BY DEF Quiet
  <2>2. \A c, r : OwnOnly(c, r)' <=> OwnOnly(c, r)  BY DEF OwnOnly
  <2>3. \A q \in DOMAIN pool' : \A i \in DOMAIN pool'[q].idle : Quiet(pool'[q].idle[i])
    BY <1>3, <1>4 DEF IInv, Clean
  <2>4. \A v \in Writers : /\ wcall'[v].pc = "send" => Quiet(wcall'[v].conn)
                           /\ wcall'[v].pc = "read" => OwnOnly(wcall'[v].conn, wcall'[v].req)
    BY <1>5, <1>6 DEF IInv, Clean
  <2>5. QED  BY <2>1, <2>2, <2>3, <2>4, CleanNext
<1>13. AnswerIsOwn'  BY DEF IInv, AnswerIsOwn
<1>14. QED  BY <1>7, <1>8, <1>9, <1>11, <1>12, <1>13 DEF IInv

\* A connection that is put back is quiet, and the pool has room for it.
LEMMA PutIInv ==
  ASSUME Sizes, IInv, NEW w \in Holding, NEW c, c = wcall[w].conn, Put(wcall[w].pool, c), Return(w),
         conns' \in Seq(Conns), DOMAIN conns' = DOMAIN conns, Quiet(c)',
         \A d \in DOMAIN conns : d # c => conns'[d] = conns[d],
         UNCHANGED <<pools, wcalls, applied, raced>>, AnswerIsOwn'
  PROVE  IInv'
<1>1. TypeOK /\ w \in Writers /\ c \in Nat  BY DEF IInv, TypeOK, Calls, Holding
<1>2. PICK p \in DOMAIN pool : p = wcall[w].pool  BY DEF IInv, PoolsKnown, Holding
<1>3. /\ pool' \in Seq(Pools) /\ DOMAIN pool' = DOMAIN pool /\ OtherPools(p)
      /\ pool'[p].total = pool[p].total
      /\ IF Len(pool[p].idle) < MaxConnections
         THEN pool'[p].idle = Append(pool[p].idle, c) ELSE pool'[p].idle = pool[p].idle
  BY <1>1, <1>2, PutEffect, Zenon
<1>4. \A q \in DOMAIN pool : q # p => pool'[q] = pool[q]  BY <1>3 DEF OtherPools
<1>5. pool[p].idle \in Seq(Nat) /\ Len(pool[p].idle) \in Nat /\ pool[p].total \in Int
  <2>1. pool[p] \in Pools  BY <1>1, Element DEF TypeOK
  <2>2. QED  BY <2>1 DEF Pools
<1>6. /\ Len(Append(pool[p].idle, c)) = Len(pool[p].idle) + 1
      /\ DOMAIN Append(pool[p].idle, c) = DOMAIN pool[p].idle \cup {Len(pool[p].idle) + 1}
      /\ Len(pool[p].idle) + 1 \notin DOMAIN pool[p].idle
      /\ Append(pool[p].idle, c)[Len(pool[p].idle) + 1] = c
      /\ \A j \in DOMAIN pool[p].idle : Append(pool[p].idle, c)[j] = pool[p].idle[j]
  BY <1>1, <1>5, Appended, SMTT(30)
<1>7. wcall' \in [Writers -> Calls] /\ wcall'[w].pc = "idle" /\ Others(w)  BY <1>1, ReturnEffect
<1>8. \A v \in Writers : v # w => wcall'[v] = wcall[v]  BY <1>7 DEF Others
<1>9. TypeOK'  BY <1>1, <1>3, <1>7 DEF TypeOK
<1>10. PoolsKnown'  BY <1>3, <1>7, <1>8, Zenon DEF IInv, PoolsKnown
<1>11. Counted'
  <2> SUFFICES ASSUME NEW q \in DOMAIN pool, q \notin raced
               PROVE  pool'[q].total = Len(pool'[q].idle) + Cardinality(Holders(q)') /\ pool'[q].total <= MaxConnections
    BY <1>3 DEF Counted
  <2>1. pool[q].total = Len(pool[q].idle) + Cardinality(Holders(q)) /\ pool[q].total <= MaxConnections
    BY DEF IInv, Counted
  <2>2. w \notin Holders(q)' /\ (w \in Holders(q) <=> q = p)  BY <1>2, <1>7, Zenon DEF Holders, Holding
  <2>3. /\ Cardinality(Holders(q)) \in Nat /\ Cardinality(Holders(q)') \in Nat
        /\ Cardinality(Holders(q)') + (IF w \in Holders(q) THEN 1 ELSE 0)
             = Cardinality(Holders(q)) + (IF w \in Holders(q)' THEN 1 ELSE 0)
        /\ w \in Holders(q) => Cardinality(Holders(q)) >= 1
    BY <1>1, <1>7, HoldersCount
  <2>4. CASE q = p
    <3>1. Cardinality(Holders(q)') + 1 = Cardinality(Holders(q))  BY <2>2, <2>3, <2>4
    <3>2. Len(pool[p].idle) < MaxConnections
      BY <2>1, <2>3, <2>4, <3>1, <1>5 DEF Sizes
    <3>3. Len(pool'[q].idle) = Len(pool[q].idle) + 1 /\ pool'[q].total = pool[q].total
      BY <2>4, <3>2, <1>3, <1>6, Zenon
    <3>4. QED  BY <2>1, <2>3, <2>4, <3>1, <3>3, <1>5
  <2>5. CASE q # p
    <3>1. Cardinality(Holders(q)') = Cardinality(Holders(q))  BY <2>2, <2>3, <2>5
    <3>2. QED  BY <2>1, <2>5, <3>1, <1>4, Zenon
  <2>6. QED  BY <2>4, <2>5, Zenon
<1>12. Holding' = Holding \ {w} /\ \A v \in Holding' : wcall'[v] = wcall[v]  BY <1>7, <1>8 DEF Holding
<1>13. \A q \in DOMAIN pool : \A i \in DOMAIN pool'[q].idle :
         \/ i \in DOMAIN pool[q].idle /\ pool'[q].idle[i] = pool[q].idle[i]
         \/ q = p /\ i = Len(pool[p].idle) + 1 /\ pool'[q].idle[i] = c
  <2> SUFFICES ASSUME NEW q \in DOMAIN pool, NEW i \in DOMAIN pool'[q].idle
               PROVE  \/ i \in DOMAIN pool[q].idle /\ pool'[q].idle[i] = pool[q].idle[i]
                      \/ q = p /\ i = Len(pool[p].idle) + 1 /\ pool'[q].idle[i] = c
    OBVIOUS
  <2>1. CASE q # p  BY <2>1, <1>4
  <2>2. CASE q = p /\ Len(pool[p].idle) < MaxConnections  BY <2>2, <1>3, <1>6
  <2>3. CASE q = p /\ ~(Len(pool[p].idle) < MaxConnections)  BY <2>3, <1>3
  <2>4. QED  BY <2>1, <2>2, <2>3, Zenon
<1>14. \A q \in DOMAIN pool : \A i \in DOMAIN pool[q].idle : pool[q].idle[i] # c  BY DEF IInv, Apart
<1>15. \A v \in Holding' : wcall[v].conn # c  BY <1>12 DEF IInv, Apart
<1>16. Apart'
  <2>1. ASSUME NEW q1 \in DOMAIN pool, NEW q2 \in DOMAIN pool, NEW i1 \in DOMAIN pool'[q1].idle,
               NEW i2 \in DOMAIN pool'[q2].idle, pool'[q1].idle[i1] = pool'[q2].idle[i2]
        PROVE  q1 = q2 /\ i1 = i2
    <3>1. CASE i1 \in DOMAIN pool[q1].idle /\ pool'[q1].idle[i1] = pool[q1].idle[i1]
      <4>1. i2 \in DOMAIN pool[q2].idle /\ pool'[q2].idle[i2] = pool[q2].idle[i2]
        <5>1. pool'[q2].idle[i2] # c  BY <2>1, <3>1, <1>14, Zenon
        <5>2. QED  BY <5>1, <1>13, Zenon
      <4>2. pool[q1].idle[i1] = pool[q2].idle[i2]  BY <2>1, <3>1, <4>1, Zenon
      <4>3. i1 \in DOMAIN pool[q1].idle /\ i2 \in DOMAIN pool[q2].idle  BY <3>1, <4>1
      <4>4. QED  BY <4>2, <4>3 DEF IInv, Apart
    <3>2. CASE q1 = p /\ i1 = Len(pool[p].idle) + 1 /\ pool'[q1].idle[i1] = c
      BY <2>1, <3>2, <1>13, <1>14
    <3>3. QED  BY <3>1, <3>2, <1>13, Zenon
  <2>2. ASSUME NEW v \in Holding', NEW q \in DOMAIN pool, NEW i \in DOMAIN pool'[q].idle
        PROVE  pool'[q].idle[i] # wcall'[v].conn
    <3>1. v \in Holding /\ wcall'[v].conn = wcall[v].conn  BY <1>12, <2>2
    <3>2. CASE i \in DOMAIN pool[q].idle /\ pool'[q].idle[i] = pool[q].idle[i]
      <4>1. pool[q].idle[i] # wcall[v].conn  BY <3>1, <3>2, Zenon DEF IInv, Apart
      <4>2. QED  BY <3>1, <3>2, <4>1
    <3>3. CASE pool'[q].idle[i] = c
      <4>1. wcall[v].conn # c  BY <1>15, <2>2, Zenon
      <4>2. QED  BY <3>1, <3>3, <4>1
    <3>4. QED  BY <1>13, <3>2, <3>3, Zenon
  <2>3. QED  BY <2>1, <2>2, <1>3, <1>12, SMTT(30) DEF IInv, Apart
<1>17. Clean'
  <2>1. \A d : Quiet(d) => Quiet(d)'  BY DEF Quiet
  <2>2. \A d, r : d # c /\ OwnOnly(d, r) => OwnOnly(d, r)'  BY Zenon DEF OwnOnly
  <2>3. \A q \in DOMAIN pool' : \A i \in DOMAIN pool'[q].idle : Quiet(pool'[q].idle[i]) \/ pool'[q].idle[i] = c
    BY <1>3, <1>13, Zenon DEF IInv, Clean
  <2>4. \A v \in Writers : /\ wcall'[v].pc = "send" => Quiet(wcall'[v].conn)
                           /\ wcall'[v].pc = "read" => wcall'[v].conn # c /\ OwnOnly(wcall'[v].conn, wcall'[v].req)
    BY <1>7, <1>8, <1>12, <1>15 DEF IInv, Clean, Holding
  <2>5. QED  BY <2>1, <2>2, <2>3, <2>4, CleanNext, Zenon
<1>18. QED  BY <1>9, <1>10, <1>11, <1>16, <1>17, Zenon DEF IInv

\* A connection's record is replaced.
LEMMA ConnReplaced ==
  ASSUME TypeOK, NEW c \in DOMAIN conns, NEW x \in Conns, conns' = [conns EXCEPT ![c] = x]
  PROVE  /\ conns' \in Seq(Conns) /\ DOMAIN conns' = DOMAIN conns /\ conns'[c] = x
         /\ \A d \in DOMAIN conns : d # c => conns'[d] = conns[d]
BY Updated DEF TypeOK

\* The end of a call that has its answer, or whose shard is gone.
LEMMA BackIInv ==
  ASSUME Sizes, IInv, NEW w \in Writers, ShardGone(w) \/ Read(w)
  PROVE  IInv'
<1>1. TypeOK  BY DEF IInv
<1>2. PICK c : c = wcall[w].conn  BY Zenon
<1>3. CASE ShardGone(w)
  <2>1. wcall[w].pc = "send" /\ Put(wcall[w].pool, c) /\ Return(w)
        /\ UNCHANGED <<pools, conns, wcalls, applied, acked, raced>>
    BY <1>2, <1>3, Zenon DEF ShardGone, At
  <2>2. w \in Holding  BY <2>1, Zenon DEF Holding
  <2>3. Quiet(c)'  BY <1>2, <2>1 DEF IInv, Clean, Quiet
  <2>4. AnswerIsOwn'  BY <2>1 DEF IInv, AnswerIsOwn
  <2>5. conns' \in Seq(Conns)  BY <1>1, <2>1 DEF TypeOK
  <2>6. QED  BY <1>2, <2>1, <2>2, <2>3, <2>4, <2>5, PutIInv, Zenon
<1>4. CASE Read(w)
  <2>1. /\ wcall[w].pc = "read" /\ conns[c].out # <<>> /\ Put(wcall[w].pool, c) /\ Return(w)
        /\ acked' = acked \cup {<<wcall[w].req, Head(conns[c].out)>>}
        /\ conns' = [conns EXCEPT ![c].out = Tail(@)]
        /\ UNCHANGED <<pools, wcalls, applied, raced>>
    BY <1>2, <1>4 DEF Read, At
  <2>2. w \in Holding  BY <2>1 DEF Holding
  <2>3. OwnOnly(c, wcall[w].req)  BY <1>2, <2>1 DEF IInv, Clean
  <2>4. c \in DOMAIN conns /\ conns[c] \in Conns
    <3>1. c \in DOMAIN conns  BY <2>3 DEF OwnOnly
    <3>2. QED  BY <3>1, <1>1, Element DEF TypeOK
  <2>5. conns[c].in \in Seq(Nat) /\ conns[c].out \in Seq(Answers)  BY <2>4 DEF Conns
  <2>6. /\ Tail(conns[c].out) \in Seq(Answers) /\ Len(conns[c].out) \in Nat
        /\ Len(Tail(conns[c].out)) = Len(conns[c].out) - 1
        /\ 1 \in DOMAIN conns[c].out /\ Head(conns[c].out) = conns[c].out[1]
    BY <2>1, <2>5, Shifted
  <2>7. [conns[c] EXCEPT !.out = Tail(@)] \in Conns  BY <2>4, <2>6, Zenon DEF Conns
  <2>8. conns' = [conns EXCEPT ![c] = [conns[c] EXCEPT !.out = Tail(@)]]  BY <2>1
  <2>9. /\ conns' \in Seq(Conns) /\ DOMAIN conns' = DOMAIN conns
        /\ conns'[c] = [conns[c] EXCEPT !.out = Tail(@)]
        /\ \A d \in DOMAIN conns : d # c => conns'[d] = conns[d]
    BY <1>1, <2>4, <2>7, <2>8, ConnReplaced, Zenon
  <2>10. conns'[c].in = conns[c].in /\ conns'[c].out = Tail(conns[c].out)  BY <2>4, <2>9 DEF Conns
  <2>11. Quiet(c)'
    <3>1. Len(conns[c].in) + Len(conns[c].out) <= 1  BY <2>3, Zenon DEF OwnOnly
    <3>2. Len(conns[c].in) \in Nat /\ Len(conns[c].out) # 0  BY <2>1, <2>5
    <3>3. Len(conns[c].out) \in Nat /\ Len(Tail(conns[c].out)) = Len(conns[c].out) - 1  BY <2>6
    <3>4. Len(conns[c].in) = 0 /\ Len(Tail(conns[c].out)) = 0
      <4>1. PICK m, n, k :
               m \in Nat /\ n \in Nat /\ m = Len(conns[c].in) /\ n = Len(conns[c].out) /\ k = Len(Tail(conns[c].out))
        BY <3>2, <3>3, Zenon
      <4>2. m \in Nat /\ n \in Nat /\ m + n <= 1 /\ n # 0 /\ k = n - 1  BY <3>1, <3>2, <3>3, <4>1, Zenon
      <4>3. m = 0 /\ k = 0  BY <4>2
      <4>4. QED  BY <4>1, <4>3
    <3>5. conns[c].in = <<>>  BY <3>4, <2>5, Empty
    <3>6. Tail(conns[c].out) = <<>>  BY <3>4, <2>6, Empty, Zenon
    <3>7. QED  BY <3>5, <3>6, <2>4, <2>9, <2>10 DEF Quiet
  <2>12. AnswerIsOwn'
    <3>1. Head(conns[c].out).req = wcall[w].req /\ (Head(conns[c].out).ok => wcall[w].req \in applied)
      BY <2>3, <2>6 DEF OwnOnly
    <3> DEFINE a == <<wcall[w].req, Head(conns[c].out)>>
    <3>2. a[2].req = a[1] /\ (a[2].ok => a[1] \in applied)  BY <3>1
    <3>3. acked' = acked \cup {a} /\ applied' = applied  BY <2>1
    <3> HIDE DEF a
    <3>4. QED  BY <3>2, <3>3 DEF IInv, AnswerIsOwn
  <2>13. QED  BY <1>2, <2>1, <2>2, <2>9, <2>11, <2>12, PutIInv, Zenon
<1>5. QED  BY <1>3, <1>4

\* Steps on one connection, which is quiet or its holder's: the pools stay as they are.
LEMMA ConnStep ==
  ASSUME Sizes, IInv, UNCHANGED <<pools, pool, wcalls, raced>>, wcall' \in [Writers -> Calls],
         \A v \in Writers : /\ wcall'[v].pool = wcall[v].pool /\ wcall'[v].conn = wcall[v].conn
                            /\ wcall'[v].node = wcall[v].node
                            /\ wcall'[v].pc = wcall[v].pc \/ {wcall[v].pc, wcall'[v].pc} \subseteq {"send", "read"},
         conns' \in Seq(Conns)
  PROVE  TypeOK' /\ PoolsKnown' /\ Counted' /\ Apart'
<1>1. TypeOK'  BY DEF IInv, TypeOK
<1>2. PoolsKnown'  BY DEF IInv, PoolsKnown
<1>3. Holding' = Holding /\ \A p : Holders(p)' = Holders(p)  BY DEF Holding, Holders
<1>4. Counted'  BY <1>3, Zenon DEF IInv, Counted
<1>5. Apart'  BY <1>3 DEF IInv, Apart, Holding
<1>6. QED  BY <1>1, <1>2, <1>4, <1>5

\* The request goes out on a quiet connection.
LEMMA SendIInv ==
  ASSUME Sizes, IInv, NEW w \in Writers, Send(w)
  PROVE  IInv'
<1>1. TypeOK  BY DEF IInv
<1>2. PICK c, r : c = wcall[w].conn /\ r = wcall[w].req  OBVIOUS
<1>3. /\ wcall[w].pc = "send" /\ wcall' = [wcall EXCEPT ![w].pc = "read"]
      /\ conns' = IF conns[c].up THEN [conns EXCEPT ![c].in = Append(@, r)] ELSE conns
      /\ UNCHANGED <<pools, pool, wcalls, applied, acked, raced>>
  BY <1>2 DEF Send, At, Goto
<1>4. Quiet(c) /\ c \in DOMAIN conns /\ r \in Nat /\ w \in Holding
  BY <1>1, <1>2, <1>3 DEF IInv, Clean, Quiet, TypeOK, Calls, Holding
<1>5. /\ wcall' \in [Writers -> Calls]
      /\ \A v \in Writers : v # w => wcall'[v] = wcall[v]
      /\ wcall'[w].pc = "read" /\ wcall'[w].pool = wcall[w].pool /\ wcall'[w].node = wcall[w].node
      /\ wcall'[w].conn = c /\ wcall'[w].req = r
  BY <1>1, <1>2, <1>3, Zenon DEF TypeOK, Calls
<1>6. conns[c] \in Conns  BY <1>1, <1>4, Element DEF TypeOK
<1>7. /\ conns' \in Seq(Conns) /\ DOMAIN conns' = DOMAIN conns
      /\ \A d \in DOMAIN conns : d # c => conns'[d] = conns[d]
      /\ conns'[c].out = <<>> /\ conns'[c].in \in {<<>>, <<r>>}
  <2>1. CASE conns[c].up
    <3> DEFINE x == [conns[c] EXCEPT !.in = Append(@, r)]
    <3>1. conns[c].in = <<>> /\ conns[c].out = <<>>  BY <1>4 DEF Quiet
    <3>2. Append(conns[c].in, r) = <<r>> /\ <<r>> \in Seq(Nat)  BY <1>4, <3>1
    <3>3. x \in Conns /\ x.in = <<r>> /\ x.out = <<>>  BY <1>6, <3>1, <3>2, Zenon DEF Conns
    <3>4. conns' = [conns EXCEPT ![c] = x]  BY <1>3, <2>1
    <3> HIDE DEF x
    <3>5. QED  BY <1>1, <1>4, <3>3, <3>4, ConnReplaced, Zenon
  <2>2. CASE ~conns[c].up  BY <1>1, <1>3, <1>4, <2>2 DEF TypeOK, Quiet
  <2>3. QED  BY <2>1, <2>2
<1>8. TypeOK' /\ PoolsKnown' /\ Counted' /\ Apart'
  <2>1. \A v \in Writers : /\ wcall'[v].pool = wcall[v].pool /\ wcall'[v].conn = wcall[v].conn
                           /\ wcall'[v].node = wcall[v].node
                           /\ wcall'[v].pc = wcall[v].pc \/ {wcall[v].pc, wcall'[v].pc} \subseteq {"send", "read"}
    BY <1>2, <1>3, <1>5, Zenon
  <2>2. QED  BY <1>3, <1>5, <1>7, <2>1, ConnStep
<1>9. Clean'
  <2>1. OwnOnly(c, r)'
    <3>1. Len(conns'[c].in) \in {0, 1} /\ Len(conns'[c].out) = 0 /\ DOMAIN conns'[c].out = {}
          /\ \A i \in DOMAIN conns'[c].in : conns'[c].in[i] = r
      BY <1>7
    <3>2. Len(conns'[c].in) \in Nat /\ Len(conns'[c].out) \in Nat  BY <3>1
    <3>3. Len(conns'[c].in) + Len(conns'[c].out) <= 1
      <4>1. PICK m \in Nat, n \in Nat : m = Len(conns'[c].in) /\ n = Len(conns'[c].out)  BY <3>2
      <4>2. m \in {0, 1} /\ n = 0  BY <3>1, <4>1
      <4>3. m + n <= 1  BY <4>2
      <4>4. QED  BY <4>1, <4>3, Zenon
    <3>4. QED  BY <1>4, <1>7, <3>1, <3>3, Zenon DEF OwnOnly
  <2>2. \A d : d # c /\ Quiet(d) => Quiet(d)'  BY <1>7 DEF Quiet
  <2>3. \A d, x : d # c /\ OwnOnly(d, x) => OwnOnly(d, x)'  BY <1>3, <1>7, ZenonT(30) DEF OwnOnly
  <2>4. \A q \in DOMAIN pool' : \A i \in DOMAIN pool'[q].idle : pool'[q].idle[i] # c /\ Quiet(pool'[q].idle[i])
    BY <1>2, <1>3, <1>4 DEF IInv, Clean, Apart
  <2>5. \A v \in Writers : v # w =>
          /\ wcall'[v].pc = "send" => wcall'[v].conn # c /\ Quiet(wcall'[v].conn)
          /\ wcall'[v].pc = "read" => wcall'[v].conn # c /\ OwnOnly(wcall'[v].conn, wcall'[v].req)
    BY <1>2, <1>4, <1>5, Zenon DEF IInv, Clean, Apart, Holding
  <2>6. \A q \in DOMAIN pool' : \A i \in DOMAIN pool'[q].idle : \E d : d = pool'[q].idle[i] /\ Quiet(d)'
    BY <2>2, <2>4
  <2>7. \A v \in Writers : wcall'[v].pc = "send" => \E d : d = wcall'[v].conn /\ Quiet(d)'
    BY <2>2, <2>5, <1>5, Zenon
  <2>8. \A v \in Writers : wcall'[v].pc = "read" => \E d, x : d = wcall'[v].conn /\ x = wcall'[v].req /\ OwnOnly(d, x)'
    BY <2>1, <2>3, <2>5, <1>5
  <2>9. QED  BY <2>6, <2>7, <2>8, CleanNext, Zenon
<1>10. AnswerIsOwn'  BY <1>3 DEF IInv, AnswerIsOwn
<1>11. QED  BY <1>8, <1>9, <1>10 DEF IInv

\* The service answers a request, or the connection is lost.
LEMMA ServiceIInv ==
  ASSUME Sizes, IInv, NEW c \in DOMAIN conns, Serve(c) \/ Break(c)
  PROVE  IInv'
<1>1. TypeOK /\ UNCHANGED <<pools, pool, wcall, wcalls, acked, raced>>  BY Zenon DEF IInv, Serve, Break
<1>2. conns[c] \in Conns  BY <1>1, Element DEF TypeOK
<1>3. conns[c].in \in Seq(Nat) /\ conns[c].out \in Seq(Answers)  BY <1>2 DEF Conns
<1>4. CASE Break(c)
  <2> DEFINE x == [up |-> FALSE, in |-> <<>>, out |-> <<>>]
  <2>1. conns' = [conns EXCEPT ![c] = x] /\ applied' = applied  BY <1>4 DEF Break
  <2>2. x \in Conns /\ x.in = <<>> /\ x.out = <<>>  BY DEF Conns, Flags
  <2> HIDE DEF x
  <2>3. /\ conns' \in Seq(Conns) /\ DOMAIN conns' = DOMAIN conns /\ conns'[c] = x
        /\ \A d \in DOMAIN conns : d # c => conns'[d] = conns[d]
    BY <1>1, <2>1, <2>2, ConnReplaced, Zenon
  <2>4. TypeOK' /\ PoolsKnown' /\ Counted' /\ Apart'
    BY <1>1, <2>3, ConnStep DEF TypeOK
  <2>5. \A d : Quiet(d) => Quiet(d)'  BY <2>2, <2>3 DEF Quiet
  <2>6. \A d, r : OwnOnly(d, r) => OwnOnly(d, r)'
    <3>1. /\ Len(conns'[c].in) = 0 /\ Len(conns'[c].out) = 0
          /\ DOMAIN conns'[c].in = {} /\ DOMAIN conns'[c].out = {}
      BY <2>2, <2>3
    <3>2. Len(conns'[c].in) + Len(conns'[c].out) <= 1  BY <3>1, SMTT(30)
    <3>3. QED  BY <2>1, <2>3, <3>1, <3>2, Zenon DEF OwnOnly
  <2>7. Clean'
    <3>1. \A q \in DOMAIN pool' : \A i \in DOMAIN pool'[q].idle : Quiet(pool'[q].idle[i])  BY <1>1, Zenon DEF IInv, Clean
    <3>2. \A v \in Writers : /\ wcall'[v].pc = "send" => Quiet(wcall'[v].conn)
                             /\ wcall'[v].pc = "read" => OwnOnly(wcall'[v].conn, wcall'[v].req)
      BY <1>1 DEF IInv, Clean
    <3>3. QED  BY <2>5, <2>6, <3>1, <3>2, CleanNext
  <2>8. AnswerIsOwn'  BY <1>1, <2>1 DEF IInv, AnswerIsOwn
  <2>9. QED  BY <2>4, <2>7, <2>8 DEF IInv
<1>5. CASE Serve(c)
  <2>1. PICK req : req = Head(conns[c].in)  OBVIOUS
  <2>2. PICK ok \in BOOLEAN :
          /\ applied' = IF ok THEN applied \cup {req} ELSE applied
          /\ conns' = [conns EXCEPT ![c].in = Tail(@), ![c].out = Append(@, [req |-> req, ok |-> ok])]
    BY <1>5, <2>1, Zenon DEF Serve
  <2>3. conns[c].in # <<>>  BY <1>5, Zenon DEF Serve
  <2>4. /\ Tail(conns[c].in) \in Seq(Nat) /\ Len(conns[c].in) \in Nat
        /\ Len(Tail(conns[c].in)) = Len(conns[c].in) - 1
        /\ 1 \in DOMAIN conns[c].in /\ req = conns[c].in[1] /\ req \in Nat
        /\ \A i \in DOMAIN Tail(conns[c].in) : i + 1 \in DOMAIN conns[c].in /\ Tail(conns[c].in)[i] = conns[c].in[i + 1]
    BY <1>3, <2>1, <2>3, Shifted
  <2> DEFINE ans == [req |-> req, ok |-> ok]
             x == [conns[c] EXCEPT !.in = Tail(@), !.out = Append(@, ans)]
  <2>5. ans \in Answers /\ ans.req = req  BY <2>4 DEF Answers, Flags
  <2>6. applied \subseteq applied' /\ (ans.ok => req \in applied')
    <3>1. CASE ok  BY <3>1, <2>2
    <3>2. CASE ~ok  BY <3>2, <2>2
    <3>3. QED  BY <3>1, <3>2
  <2>7. conns' = [conns EXCEPT ![c] = x]  BY <2>2, Zenon
  <2> HIDE DEF ans
  <2>8. /\ Append(conns[c].out, ans) \in Seq(Answers) /\ Len(Append(conns[c].out, ans)) = Len(conns[c].out) + 1
        /\ Len(conns[c].out) \in Nat
        /\ DOMAIN Append(conns[c].out, ans) = DOMAIN conns[c].out \cup {Len(conns[c].out) + 1}
        /\ Append(conns[c].out, ans)[Len(conns[c].out) + 1] = ans
        /\ \A j \in DOMAIN conns[c].out : Append(conns[c].out, ans)[j] = conns[c].out[j]
    BY <1>3, <2>5, Appended
  <2>9. x \in Conns /\ x.in = Tail(conns[c].in) /\ x.out = Append(conns[c].out, ans)
    BY <1>2, <2>4, <2>8, Zenon DEF Conns
  <2> HIDE DEF x
  <2>10. /\ conns' \in Seq(Conns) /\ DOMAIN conns' = DOMAIN conns /\ conns'[c] = x
         /\ \A d \in DOMAIN conns : d # c => conns'[d] = conns[d]
    BY <1>1, <2>7, <2>9, ConnReplaced, Zenon
  <2>11. TypeOK' /\ PoolsKnown' /\ Counted' /\ Apart'
    BY <1>1, <2>10, ConnStep DEF TypeOK
  <2>12. \A d : Quiet(d) => d # c /\ Quiet(d)'  BY <2>3, <2>10 DEF Quiet
  <2>13. ASSUME NEW d, NEW r, OwnOnly(d, r)
         PROVE  OwnOnly(d, r)'
    <3>1. CASE d # c
      <4>1. conns'[d] = conns[d] /\ d \in DOMAIN conns'  BY <2>13, <3>1, <2>10 DEF OwnOnly
      <4>2. QED  BY <2>13, <4>1, <2>6, Zenon DEF OwnOnly
    <3>2. CASE d = c
      <4>1. /\ Len(conns[c].in) + Len(conns[c].out) <= 1
            /\ \A i \in DOMAIN conns[c].in : conns[c].in[i] = r
            /\ \A i \in DOMAIN conns[c].out : conns[c].out[i].req = r /\ (conns[c].out[i].ok => r \in applied)
        BY <2>13, <3>2, Zenon DEF OwnOnly
      <4>2. req = r  BY <4>1, <2>4, Zenon
      <4>3. conns'[c].in = Tail(conns[c].in) /\ conns'[c].out = Append(conns[c].out, ans)  BY <2>9, <2>10
      <4>4. Len(conns'[c].in) + Len(conns'[c].out) <= 1
        <5>1. Len(conns[c].in) \in Nat /\ Len(Tail(conns[c].in)) = Len(conns[c].in) - 1  BY <2>4
        <5>2. Len(conns[c].out) \in Nat /\ Len(Append(conns[c].out, ans)) = Len(conns[c].out) + 1  BY <2>8
        <5>3. PICK m, n, k :
                 m \in Nat /\ n \in Nat /\ m = Len(conns[c].in) /\ n = Len(conns[c].out) /\ k = Len(Tail(conns[c].in))
          BY <5>1, <5>2, Zenon
        <5>4. m \in Nat /\ n \in Nat /\ m + n <= 1 /\ k = m - 1  BY <4>1, <5>1, <5>3, Zenon
        <5>5. k + (n + 1) <= 1  BY <5>4
        <5>6. Len(Tail(conns[c].in)) + Len(Append(conns[c].out, ans)) <= 1  BY <5>2, <5>3, <5>5, Zenon
        <5>7. QED  BY <4>3, <5>6, Zenon
      <4>5. \A i \in DOMAIN conns'[c].in : conns'[c].in[i] = r  BY <4>1, <4>3, <2>4
      <4>6. ASSUME NEW i \in DOMAIN conns'[c].out
            PROVE  conns'[c].out[i].req = r /\ (conns'[c].out[i].ok => r \in applied')
        <5>1. CASE i \in DOMAIN conns[c].out
          <6>1. conns'[c].out[i] = conns[c].out[i]  BY <4>3, <5>1, <2>8
          <6>2. QED  BY <4>1, <5>1, <6>1, <2>6, Zenon
        <5>2. CASE i = Len(conns[c].out) + 1
          <6>1. conns'[c].out[i] = ans  BY <4>3, <5>2, <2>8
          <6>2. QED  BY <4>2, <6>1, <2>5, <2>6, Zenon
        <5>3. i \in DOMAIN conns[c].out \cup {Len(conns[c].out) + 1}  BY <4>3, <4>6, <2>8, Zenon
        <5>4. QED  BY <5>1, <5>2, <5>3, Zenon
      <4>7. QED  BY <3>2, <4>4, <4>5, <4>6, <2>10, Zenon DEF OwnOnly
    <3>3. QED  BY <3>1, <3>2
  <2>14. Clean'
    <3>1. \A q \in DOMAIN pool' : \A i \in DOMAIN pool'[q].idle : Quiet(pool'[q].idle[i])  BY <1>1, Zenon DEF IInv, Clean
    <3>2. \A v \in Writers : /\ wcall'[v].pc = "send" => Quiet(wcall'[v].conn)
                             /\ wcall'[v].pc = "read" => OwnOnly(wcall'[v].conn, wcall'[v].req)
      BY <1>1 DEF IInv, Clean
    <3>3. QED  BY <2>12, <2>13, <3>1, <3>2, CleanNext, Zenon
  <2>15. AnswerIsOwn'  BY <1>1, <2>6 DEF IInv, AnswerIsOwn
  <2>16. QED  BY <2>11, <2>14, <2>15 DEF IInv
<1>6. QED  BY <1>4, <1>5

-----------------------------------------------------------------------------
(* The theorems                                                            *)

\* IInv holds in every reachable state of the writers, the pools and the connections.
THEOREM Invariance ==
  ASSUME Sizes
  PROVE  Spec => []IInv
<1>1. Init => IInv  BY InitIInv
<1>2. IInv /\ [Next]_wvars => IInv'
  <2> SUFFICES ASSUME IInv, [Next]_wvars PROVE IInv'  OBVIOUS
  <2>1. ASSUME NEW w \in Writers, NEW n \in Nodes, WriteShard(w, n) PROVE IInv'  BY <2>1, WriteShardIInv
  <2>2. ASSUME NEW w \in Writers, NewPool(w) PROVE IInv'  BY <2>2, NewPoolIInv
  <2>3. ASSUME NEW w \in Writers, SetPool(w) PROVE IInv'  BY <2>3, SetPoolIInv
  <2>4. ASSUME NEW w \in Writers, Get(w) \/ GetWait(w) PROVE IInv'  BY <2>4, GetIInv
  <2>5. ASSUME NEW w \in Writers, GetDial(w) PROVE IInv'  BY <2>5, GetDialIInv
  <2>6. ASSUME NEW w \in Writers, ShardGone(w) \/ Read(w) PROVE IInv'  BY <2>6, BackIInv
  <2>7. ASSUME NEW w \in Writers, Send(w) PROVE IInv'  BY <2>7, SendIInv
  <2>8. ASSUME NEW w \in Writers, SendFails(w) \/ ReadFails(w) PROVE IInv'
    <3>1. w \in Holding /\ MarkUnusable(wcall[w].pool) /\ Return(w)
          /\ UNCHANGED <<pools, conns, wcalls, applied, acked, raced>>
      BY <2>8 DEF SendFails, ReadFails, At, Holding
    <3>2. QED  BY <3>1, DropIInv
  <2>9. ASSUME NEW c \in DOMAIN conns, Serve(c) \/ Break(c) PROVE IInv'  BY <2>9, ServiceIInv
  <2>10. CASE UNCHANGED wvars
    <3>1. TypeOK' /\ PoolsKnown' /\ Counted' /\ Apart'  BY <2>10, ConnStep DEF wvars, IInv, TypeOK
    <3>2. Clean' /\ AnswerIsOwn'  BY <2>10, Zenon DEF wvars, IInv, Clean, Quiet, OwnOnly, AnswerIsOwn
    <3>3. QED  BY <3>1, <3>2 DEF IInv
  <2>11. QED  BY <2>1, <2>2, <2>3, <2>4, <2>5, <2>6, <2>7, <2>8, <2>9, <2>10 DEF Next
<1>3. QED  BY <1>1, <1>2, PTL DEF Spec

\* A call of WriteShard is told about its own request, and what it is told is so: a
\* connection goes back to its pool only when nothing is left on it.
THEOREM AnswerIsOwnThm ==
  ASSUME Sizes
  PROVE  Spec => []AnswerIsOwn
<1>1. IInv => AnswerIsOwn  BY DEF IInv
<1>2. QED  BY <1>1, Invariance, PTL

\* A boundedPool's total is the number of its connections, idle or lent, unless two
\* Gets passed its limit at once.
THEOREM TotalExactThm ==
  ASSUME Sizes
  PROVE  Spec => []TotalExact
<1>1. IInv => TotalExact  BY DEF IInv, Counted, TotalExact, Holders
<1>2. QED  BY <1>1, Invariance, PTL
=============================================================================
