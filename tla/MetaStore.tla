----------------------------- MODULE MetaStore ------------------------------
(***************************************************************************)
(* The metadata under the commands of a cluster at work: data nodes come   *)
(* and go, policies are created, altered and dropped, the precreator and   *)
(* the retention service run, and a write maps its points to shard groups  *)
(* (PointsWriter.MapShards), creating the groups it needs.  Commands are   *)
(* applied one at a time, as the Raft log orders them; MapShards takes a   *)
(* step per point, between which other commands are applied.               *)
(***************************************************************************)
EXTENDS MetaData

CONSTANTS
  Clusters,      \* the clusters: records of the arguments and bounds below
  Batches,       \* the batches of points, each a sequence of times
  AdvancePeriod  \* of the precreation service

VARIABLES
  cluster,  \* the cluster of this behaviour
  data,     \* Data: [nodes, maxNode, maxGroup, maxShard, index, rps]
  now,      \* the clock
  mapping,  \* MapShards: [pc, db, min, batch, k, list, to]
  asked,    \* db -> the shard duration last asked for, by CREATE or by ALTER that returned no error
  precreated \* runs of the precreation service

vars == <<cluster, data, now, mapping, asked, precreated>>

Hosts == cluster.hosts                  \* TCP addresses of data nodes
Replications == cluster.replications    \* arguments of CREATE / ALTER RETENTION POLICY
Durations == cluster.durations
ShardDurations == cluster.shardDurations
Recreate == cluster.recreate            \* TRUE if a policy may be dropped and created again
MaxIndex == cluster.maxIndex            \* bound: commands in the log
MaxTime == cluster.maxTime              \* bound: the clock

NoMapping == [pc |-> "idle", db |-> 1, min |-> 0, batch |-> <<>>, k |-> 1, list |-> <<>>, to |-> <<>>]

Init ==
  /\ cluster \in Clusters
  /\ data = [nodes |-> <<>>, maxNode |-> Cardinality(DOMAIN MetaIDs), maxGroup |-> 0, maxShard |-> 0,
             index |-> 0, rps |-> [db \in Databases |-> None]]
  /\ now = 0
  /\ mapping = NoMapping
  /\ asked = [db \in Databases |-> 0]
  /\ precreated = 0

\* storeFSM.Apply: whatever the command does, the index becomes the log's.
Apply(results) ==
  /\ data.index < MaxIndex
  /\ \E r \in results : data' = [r EXCEPT !.index = data.index + 1]

-----------------------------------------------------------------------------
(* Commands *)

AddNode == \E h \in Hosts : Apply(CreateDataNode(data, h)) /\ UNCHANGED <<cluster, now, mapping, asked, precreated>>
RemoveNode == \E n \in DOMAIN data.nodes : Apply(DeleteDataNode(data, n)) /\ UNCHANGED <<cluster, now, mapping, asked, precreated>>

CreatePolicy ==
  \E db \in Databases, n \in Replications, dur \in Durations, sgd \in ShardDurations :
    /\ data.rps[db] = None
    /\ Recreate \/ asked[db] = 0
    /\ Apply(CreateRetentionPolicy(data, db, n, dur, sgd))
    /\ asked' = IF data'.rps[db] = None THEN asked
                ELSE [asked EXCEPT ![db] = normalisedShardDuration(sgd, dur)]
    /\ UNCHANGED <<cluster, now, mapping, precreated>>

DropPolicy ==
  \E db \in Databases :
    /\ data.rps[db] # None
    /\ Recreate
    /\ Apply(DropRetentionPolicy(data, db))
    /\ UNCHANGED <<cluster, now, mapping, asked, precreated>>

\* ALTER RETENTION POLICY with a duration, a replication and a shard duration.
\* Client.UpdateRetentionPolicy leaves the shard duration out of its command.
AlterPolicy ==
  \E db \in Databases, n \in Replications, dur \in Durations, sgd \in ShardDurations :
    /\ data.rps[db] # None
    /\ Apply(UpdateRetentionPolicy(data, db, n, dur))
    /\ asked' = IF data'.rps[db] = data.rps[db] THEN asked
                ELSE [asked EXCEPT ![db] = normalisedShardDuration(sgd, dur)]
    /\ UNCHANGED <<cluster, now, mapping, precreated>>

\* retention.Service.run: an expired group is deleted.
RetentionCheck ==
  \E db \in Databases :
    /\ data.rps[db] # None
    /\ \E i \in Expired(data.rps[db], now) : Apply(DeleteShardGroup(data, db, data.rps[db].groups[i].id))
    /\ UNCHANGED <<cluster, now, mapping, asked, precreated>>

\* The last group of the policy, if it ends between now and the advance period.
Ending(db) ==
  LET gs == data.rps[db].groups
  IN  /\ data.rps[db] # None /\ gs # <<>>
      /\ ~Last(gs).deleted /\ Last(gs).end < now + AdvancePeriod /\ Last(gs).end > now

\* Client.PrecreateShardGroups returns after the first database.
PrecreateShardGroups ==
  /\ Ending(1)
  /\ Apply(CreateShardGroup(data, 1, Last(data.rps[1].groups).end))
  /\ precreated' = precreated + 1
  /\ UNCHANGED <<cluster, now, mapping, asked>>

Tick == now < MaxTime /\ now' = now + 1 /\ UNCHANGED <<cluster, data, mapping, asked, precreated>>

-----------------------------------------------------------------------------
(* PointsWriter.MapShards *)

\* Mutant: the search also stops at a group that ends at t.
ShardGroupAtEnd(list, t) ==
  LET after == {i \in DOMAIN list : list[i].end >= t}
      idx == CHOOSE i \in after : \A j \in after : i <= j
  IN  IF after = {} \/ t < list[idx].start THEN None ELSE list[idx]

\* sgList.ShardGroupAt: the first group that ends after t, if it has begun by then.
ShardGroupAt(list, t) ==
  LET after == {i \in DOMAIN list : list[i].end > t}
      idx == CHOOSE i \in after : \A j \in after : i <= j
  IN  IF after = {} \/ t < list[idx].start THEN None ELSE list[idx]

\* Points before this time have left the policy.
Oldest(rp) == IF rp.dur > 0 THEN now - rp.dur ELSE -Limit + 2

MapStart ==
  \E db \in Databases, batch \in Batches :
    /\ mapping.pc = "idle" /\ data.rps[db] # None
    /\ mapping' = [NoMapping EXCEPT !.pc = "create", !.db = db, !.min = Oldest(data.rps[db]), !.batch = batch]
    /\ UNCHANGED <<cluster, data, now, asked, precreated>>

\* The first loop, for a point that has left the policy or whose group is known.
MapKnown ==
  LET t == mapping.batch[mapping.k]
  IN  /\ mapping.pc = "create" /\ mapping.k <= Len(mapping.batch)
      /\ t < mapping.min \/ ShardGroupAt(mapping.list, t) # None
      /\ mapping' = [mapping EXCEPT !.k = @ + 1]
      /\ UNCHANGED <<cluster, data, now, asked, precreated>>

\* The group in the client's copy of the metadata.
CachedGroup(rp, t) == IF rp = None THEN None ELSE ShardGroupByTimestamp(Marshalled(rp), t)

\* A group is added to the list; without one MapShards fails.
Listed(g) ==
  mapping' = IF g = None THEN [mapping EXCEPT !.pc = "error"]
             ELSE [mapping EXCEPT !.k = @ + 1, !.list = AddSorted(@, g)]

\* The first loop, for a point that needs a group: Client.CreateShardGroup has it in
\* its copy, or has it created and looks again.
MapCreate ==
  LET t == mapping.batch[mapping.k]
      db == mapping.db
      cached == CachedGroup(data.rps[db], t)
  IN  /\ mapping.pc = "create" /\ mapping.k <= Len(mapping.batch)
      /\ t >= mapping.min /\ ShardGroupAt(mapping.list, t) = None
      /\ \/ cached # None /\ UNCHANGED data /\ Listed(cached)
         \/ cached = None /\ Apply(CreateShardGroup(data, db, t)) /\ Listed(CachedGroup(data'.rps[db], t))
      /\ UNCHANGED <<cluster, now, asked, precreated>>

\* The second loop: every point goes to a group of the list, or is dropped.
MapFinish ==
  /\ mapping.pc = "create" /\ mapping.k > Len(mapping.batch)
  /\ mapping' = [mapping EXCEPT !.pc = "mapped",
       !.to = [k \in DOMAIN mapping.batch |-> ShardGroupAt(mapping.list, mapping.batch[k])]]
  /\ UNCHANGED <<cluster, data, now, asked, precreated>>

MapReturn ==
  /\ mapping.pc \in {"mapped", "error"}
  /\ mapping' = NoMapping
  /\ UNCHANGED <<cluster, data, now, asked, precreated>>

Next ==
  \/ AddNode \/ RemoveNode \/ CreatePolicy \/ DropPolicy \/ AlterPolicy
  \/ RetentionCheck \/ PrecreateShardGroups \/ Tick
  \/ MapStart \/ MapKnown \/ MapCreate \/ MapFinish \/ MapReturn

Spec == Init /\ [][Next]_vars

-----------------------------------------------------------------------------
(* Properties *)

Policies == {db \in Databases : data.rps[db] # None}
Groups(db) == ToSet(data.rps[db].groups)
LiveGroups(db) == {g \in Groups(db) : ~g.deleted}

\* However nodes come and go, every shard of a group that is not deleted has an
\* owner, no owner twice, and owners that are data nodes: DeleteDataNode "reassigns
\* ownership of any shards that would otherwise become orphaned".
OwnersOK ==
  \A db \in Policies : \A g \in LiveGroups(db) : g.shards # <<>> /\ \A s \in ToSet(g.shards) :
    /\ s.owners # <<>> /\ IsInjective(s.owners)
    /\ ToSet(s.owners) \subseteq DOMAIN data.nodes

\* The groups that take writes do not overlap, so that a point has one place to be; no
\* two shards of the cluster have one ID, which names their directory on every node, and
\* the next ID is a new one.
GroupsDisjoint ==
  /\ \A db \in Policies : \A g, h \in LiveGroups(db) : g = h \/ g.end <= h.start \/ h.end <= g.start
  /\ \A a, b \in Policies : \A i \in DOMAIN data.rps[a].groups, j \in DOMAIN data.rps[b].groups :
       LET g == data.rps[a].groups[i]  h == data.rps[b].groups[j]
       IN  \A k \in DOMAIN g.shards, l \in DOMAIN h.shards :
             /\ g.shards[k].id <= data.maxShard
             /\ g.shards[k].id = h.shards[l].id => a = b /\ i = j /\ k = l

\* A point that MapShards takes is not in a group that the retention service is
\* about to delete, whatever durations a policy was altered to; and a policy keeps data
\* at least as long as a shard group lasts.
AcceptedNotExpired ==
  \A db \in Policies : LET rp == data.rps[db] IN
    /\ \A i \in Expired(rp, now) : \A t \in rp.groups[i].start..rp.groups[i].end - 1 : t < Oldest(rp)
    /\ rp.dur > 0 => rp.sgdur <= rp.dur

\* MapShards sends every point to a group of its time, and drops one only "because
\* the point was outside the scope of the RP".
MappedWhereItBelongs ==
  mapping.pc = "mapped" => \A k \in DOMAIN mapping.batch :
    LET t == mapping.batch[k]  g == mapping.to[k]
    IN  IF g = None THEN t < mapping.min ELSE g.start <= t /\ t < g.end

\* The copy of the metadata that clients have finds the same group for every time
\* as the metadata itself.
CopyAgrees ==
  \A db \in Policies : \A t \in -Limit + 2..Limit - 2 :
    LET g == ShardGroupByTimestamp(data.rps[db], t)
        h == ShardGroupByTimestamp(Marshalled(data.rps[db]), t)
    IN  (g = None <=> h = None) /\ (g # None => g.id = h.id)

\* An altered policy has the shard duration that was asked for.
ShardDurationUpdated == \A db \in Policies : data.rps[db].sgdur = asked[db]

\* A run of the precreation service leaves no policy whose last group is about to end
\* without a successor.
PrecreatesAll == [][precreated' # precreated => \A db \in Databases : ~Ending(db)']_vars

=============================================================================
