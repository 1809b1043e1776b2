---------------------------- MODULE MetaReplicas ----------------------------
(***************************************************************************)
(* The metadata on several meta nodes: each applies the commands of the    *)
(* one Raft log, in order and in its own time, to its own copy (storeFSM), *)
(* or takes a snapshot from another.  Raft itself is external: it is the   *)
(* log that everyone agrees on.                                            *)
(***************************************************************************)
EXTENDS MetaData

CONSTANTS
  MetaNodes,   \* the meta nodes
  Hosts, Times,   \* arguments of the commands
  ReplicaN, SGDur, \* the policy of the one database
  MaxLog       \* bound: commands in the log

VARIABLES log, replica   \* the log; meta node -> Data
vars == <<log, replica>>

Commands ==
  [op : {"CreateDataNode"}, arg : Hosts] \cup [op : {"DeleteDataNode"}, arg : 1..Cardinality(Hosts)]
    \cup [op : {"CreateShardGroup"}, arg : Times]

Init ==
  /\ log = <<>>
  /\ replica = [r \in MetaNodes |->
       [nodes |-> <<>>, maxNode |-> 0, maxGroup |-> 0, maxShard |-> 0, index |-> 0,
        rps |-> [db \in Databases |-> [replicaN |-> ReplicaN, dur |-> 0, sgdur |-> SGDur, groups |-> <<>>]]]]

\* Raft commits a command.
Commit == Len(log) < MaxLog /\ (\E c \in Commands : log' = Append(log, c)) /\ UNCHANGED replica

Results(d, c) ==
  CASE c.op = "CreateDataNode" -> CreateDataNode(d, c.arg)
    [] c.op = "DeleteDataNode" -> DeleteDataNode(d, c.arg)
    [] c.op = "CreateShardGroup" -> CreateShardGroup(d, 1, c.arg)

\* storeFSM.Apply on one meta node.
Apply(r) ==
  LET i == replica[r].index + 1
  IN  /\ i <= Len(log)
      /\ \E d \in Results(replica[r], log[i]) : replica' = [replica EXCEPT ![r] = [d EXCEPT !.index = i]]
      /\ UNCHANGED log

\* storeFSM.Snapshot on one meta node and Restore on one that is behind.
Restore(r) ==
  /\ \E s \in MetaNodes :
       /\ replica[s].index > replica[r].index
       /\ replica' = [replica EXCEPT ![r] = [replica[s] EXCEPT !.rps = [db \in Databases |-> Marshalled(@[db])]]]
  /\ UNCHANGED log

Next == Commit \/ \E r \in MetaNodes : Apply(r) \/ Restore(r)
Spec == Init /\ [][Next]_vars

\* Meta nodes that have applied the same commands have the same metadata: storeFSM
\* is a state machine, and the log alone decides what it does.
ReplicasAgree ==
  \A r, s \in MetaNodes : replica[r].index = replica[s].index => replica[r] = replica[s]

=============================================================================
