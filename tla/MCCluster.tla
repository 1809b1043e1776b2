----------------------------- MODULE MCCluster ------------------------------
(* The cluster's metadata and a clustered write, for TLC: each behaviour is one of
   MetaStore or PointsWriter, as picked in MCInit; the variables of the other stay as
   they are. *)
EXTENDS PointsWriter, MetaData

CONSTANTS
  s1, s2, s3, n1, n2, n3,
  Clusters, AdvancePeriod

VARIABLES
  part,
  cluster, data, now, mapping, asked, precreated

metaVars == <<cluster, data, now, mapping, asked, precreated>>

Colocated == [h \in {"a"} |-> 1]
FarBeforeZero == -36

\* Two points, in the same stretch of time or not, in either order.
Pairs == {<<1, 2>>, <<2, 1>>, <<1, 4>>, <<4, 1>>, <<2, 2>>}

\* Three data nodes while the clock stands still, and one node, with policies of several
\* durations, while it runs.
MCClusters ==
  {[hosts |-> {"a", "b", "c"}, replications |-> {1, 2}, durations |-> {0}, shardDurations |-> {2},
    recreate |-> TRUE, maxIndex |-> 7, maxTime |-> 0],
   [hosts |-> {"a"}, replications |-> {1}, durations |-> {0, 2, 5}, shardDurations |-> {0, 4},
    recreate |-> FALSE, maxIndex |-> 5, maxTime |-> 8]}

\* A shard with three owners, where a quorum is neither one nor all, or two shards.
ThreeShards == [s \in {s1, s2, s3} |-> CASE s = s1 -> {n1, n2, n3} [] s = s2 -> {n1} [] s = s3 -> {n2}]
OneOrTwo == {{}, {s1}, {s2, s3}}

Meta == INSTANCE MetaStore WITH Batches <- Pairs

MCInit ==
  /\ part \in {"metadata", "write"}
  /\ Meta!Init /\ PointsInit
  /\ part = "write" \/ level = "any"
  /\ part = "metadata" \/ Cardinality(cluster.hosts) = 1

MCNext ==
  \/ part = "metadata" /\ Meta!Next /\ UNCHANGED <<part, pointsVars>>
  \/ part = "write" /\ PointsNext /\ UNCHANGED <<part, metaVars>>

MCSpec == MCInit /\ [][MCNext]_<<part, pointsVars, metaVars>>

\* A live shard group has shards, and they have owners that are data nodes, each once
\* (CreateShardGroup, DeleteDataNode).
OwnersOK == Meta!OwnersOK

\* Groups that take writes do not overlap, and no two shards have one ID
\* (CreateShardGroup).
GroupsDisjoint == Meta!GroupsDisjoint

\* A point that MapShards takes is not about to be deleted by the retention service.
AcceptedNotExpired == Meta!AcceptedNotExpired

\* MapShards sends every point to a group of its time, or drops it for its age.
MappedWhereItBelongs == Meta!MappedWhereItBelongs
=============================================================================
