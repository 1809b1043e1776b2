------------------------------ MODULE MetaData ------------------------------
(***************************************************************************)
(* The cluster's metadata (services/meta/data.go): data nodes, retention   *)
(* policies, shard groups, shards and their owners, as values and as the   *)
(* operations that the Raft commands of store_fsm.go apply to them.  The   *)
(* operations are operators: each yields the set of results it can have,   *)
(* one unless it walks a Go map.  Every database has one policy here.      *)
(***************************************************************************)
EXTENDS Integers, Sequences, FiniteSets, SequencesExt

CONSTANTS
  DatabaseN,   \* the number of databases
  MetaIDs,     \* host -> node ID, of the hosts that run a meta node
  ZeroTime,    \* time.Time{}, the origin of Time.Truncate
  Limit,       \* int64 nanoseconds are -Limit .. Limit - 1
  Hour, Day, Week, HalfYear   \* the durations that shardGroupDuration names

None == [none |-> TRUE]

ASSUME TimeAssumption ==
  /\ ZeroTime \in Int /\ Limit \in Nat /\ ZeroTime < -Limit
  /\ {Hour, Day, Week, HalfYear} \subseteq Nat \ {0}
ASSUME DatabaseAssumption == DatabaseN \in Nat \ {0}

Databases == 1..DatabaseN   \* in the order of Data.Databases

-----------------------------------------------------------------------------
(* Times *)

\* Mutant: a group starts with its first point.
TruncateNot(t, d) == t
\* Time.Truncate.
Truncate(t, d) == t - ((t - ZeroTime) % d)

\* MarshalTime and UnmarshalTime together: nanoseconds in an int64, in which the
\* zero time and the epoch are the same.
UnixNano(t) ==
  LET wrapped == ((t + Limit) % (2 * Limit)) - Limit
  IN  IF t = ZeroTime \/ wrapped = 0 THEN ZeroTime ELSE wrapped

shardGroupDuration(d) ==
  IF d >= HalfYear \/ d = 0 THEN Week ELSE IF d >= 2 * Day THEN Day ELSE Hour

normalisedShardDuration(sgd, d) ==
  IF sgd = 0 THEN shardGroupDuration(d) ELSE IF sgd < Hour THEN shardGroupDuration(Hour) ELSE sgd

-----------------------------------------------------------------------------
(* Shard groups *)

ContainsTime(g, t) == g.start <= t /\ t < g.end

\* ShardGroupInfos.Less: by end, then by start.
Less(g, h) == g.end < h.end \/ (g.end = h.end /\ g.start < h.start)

\* append, then sort.Sort: the list was sorted before.
AddSorted(groups, g) ==
  InsertAt(groups, 1 + Cardinality({i \in DOMAIN groups : ~Less(g, groups[i])}), g)

\* RetentionPolicyInfo.ShardGroupByTimestamp: the first group that matches.
ShardGroupByTimestamp(rp, t) ==
  LET match == {i \in DOMAIN rp.groups : ContainsTime(rp.groups[i], t) /\ ~rp.groups[i].deleted}
  IN  IF match = {} THEN None ELSE rp.groups[CHOOSE i \in match : \A j \in match : i <= j]

\* Mutant: a group is expired when its first point is.
ExpiredByStart(rp, t) ==
  {i \in DOMAIN rp.groups : ~rp.groups[i].deleted /\ rp.dur # 0 /\ rp.groups[i].start + rp.dur < t}
\* RetentionPolicyInfo.ExpiredShardGroups.
Expired(rp, t) ==
  {i \in DOMAIN rp.groups : ~rp.groups[i].deleted /\ rp.dur # 0 /\ rp.groups[i].end + rp.dur < t}

-----------------------------------------------------------------------------
(* Operations on the metadata.  An operation that fails yields no change. *)

WithPolicy(d, db, rp) == [d EXCEPT !.rps[db] = rp]
WithGroup(d, db, i, g) == [d EXCEPT !.rps[db].groups[i] = g]

\* CreateDataNode: a host that runs a meta node keeps the meta node's ID.
CreateDataNode(d, host) ==
  IF \E n \in DOMAIN d.nodes : d.nodes[n] = host THEN {d}
  ELSE LET fresh == host \notin DOMAIN MetaIDs
           id == IF fresh THEN d.maxNode + 1 ELSE MetaIDs[host]
       IN  {[d EXCEPT !.nodes = [n \in DOMAIN d.nodes \cup {id} |-> IF n = id THEN host ELSE d.nodes[n]],
                      !.maxNode = IF fresh THEN id ELSE d.maxNode]}

ShardCount(nodes, replicaN) == nodes \div replicaN

\* The shards of a new group: owners go round the sorted nodes, from a place given
\* by the index.
NewShards(d, replicaN) ==
  LET nodes == SetToSortSeq(DOMAIN d.nodes, <)
      place(k) == nodes[((d.index + k) % Len(nodes)) + 1]
  IN  [i \in 1..ShardCount(Len(nodes), replicaN) |->
         [id |-> d.maxShard + i, owners |-> [j \in 1..replicaN |-> place((i - 1) * replicaN + j - 1)]]]

\* Require at least one replica but no more replicas than nodes.
Replicas(d, rp) ==
  LET n == Cardinality(DOMAIN d.nodes)
  IN  IF rp.replicaN = 0 THEN 1 ELSE IF rp.replicaN > n THEN n ELSE rp.replicaN

\* CreateShardGroup, from the point where it is known to be needed.
WithNewGroup(d, db, t) ==
  LET rp == d.rps[db]
      start == Truncate(t, rp.sgdur)
      shards == NewShards(d, Replicas(d, rp))
      g == [id |-> d.maxGroup + 1, start |-> start, end |-> start + rp.sgdur,
            deleted |-> FALSE, shards |-> shards]
  IN  [WithPolicy(d, db, [rp EXCEPT !.groups = AddSorted(@, g)]) EXCEPT
         !.maxGroup = @ + 1, !.maxShard = @ + Len(shards)]

\* CreateShardGroup: one group for each stretch of time, shards spread over the nodes.
CreateShardGroup(d, db, t) ==
  IF \/ DOMAIN d.nodes = {}
     \/ d.rps[db] = None
     \/ ShardGroupByTimestamp(d.rps[db], t) # None
  THEN {d}
  ELSE {WithNewGroup(d, db, t)}

\* DeleteShardGroup marks the first group with the ID.
DeleteShardGroup(d, db, id) ==
  IF d.rps[db] = None THEN {d}
  ELSE LET at == {i \in DOMAIN d.rps[db].groups : d.rps[db].groups[i].id = id}
       IN  IF at = {} THEN {d}
           ELSE LET i == CHOOSE i \in at : \A j \in at : i <= j
                IN  {WithGroup(d, db, i, [d.rps[db].groups[i] EXCEPT !.deleted = TRUE])}

-----------------------------------------------------------------------------
(* DeleteDataNode *)

Owns(s, n) == \E k \in DOMAIN s.owners : s.owners[k] = n

\* The shard without the last place where n owns it.
Relinquish(s, n) ==
  IF ~Owns(s, n) THEN s
  ELSE [s EXCEPT !.owners = RemoveAt(@, CHOOSE k \in DOMAIN @ :
          @[k] = n /\ \A l \in DOMAIN @ : @[l] = n => l <= k)]

Orphans(shards) == {i \in DOMAIN shards : shards[i].owners = <<>>}

\* newShardOwner for the shard i: it goes to a node with the fewest shards of the
\* group, whichever of those the range over ownerFreqs meets first.
newShardOwner(a, i) ==
  LET least == {n \in DOMAIN a.freqs : \A m \in DOMAIN a.freqs : a.freqs[n] <= a.freqs[m]}
  IN  {[shards |-> [a.shards EXCEPT ![i].owners = <<n>>], freqs |-> [a.freqs EXCEPT ![n] = @ + 1]] : n \in least}

\* Mutant: an orphan keeps its place in the group, without an owner.
DropOwnerKeepOrphans(g, n) == {[g EXCEPT !.shards = [i \in DOMAIN @ |-> Relinquish(@[i], n)]]}

\* What DeleteDataNode makes of one shard group: a group that is all orphans is
\* deleted, else its orphans in turn find new owners among the owners of the others.
DropOwner(g, n) ==
  LET left == [i \in DOMAIN g.shards |-> Relinquish(g.shards[i], n)]
      owners == UNION {ToSet(left[i].owners) : i \in DOMAIN left}
      freqs == [m \in owners |-> Cardinality({i \in DOMAIN left : Owns(left[i], m)})]
      reassign(as, i) == UNION {newShardOwner(a, i) : a \in as}
  IN  IF Cardinality(Orphans(left)) = Len(left)
      THEN {[g EXCEPT !.shards = left, !.deleted = TRUE]}
      ELSE {[g EXCEPT !.shards = a.shards] :
              a \in FoldLeft(reassign, {[shards |-> left, freqs |-> freqs]}, SetToSortSeq(Orphans(left), <))}

\* The lists of groups that DeleteDataNode can make of a list.
DropOwners(groups, n) ==
  LET after == [i \in DOMAIN groups |-> DropOwner(groups[i], n)]
  IN  {gs \in [DOMAIN groups -> UNION {after[i] : i \in DOMAIN groups}] :
         \A i \in DOMAIN groups : gs[i] \in after[i]}

DeleteDataNode(d, n) ==
  IF n \notin DOMAIN d.nodes THEN {d}
  ELSE LET after == [db \in Databases |-> IF d.rps[db] = None THEN {None}
                       ELSE {[d.rps[db] EXCEPT !.groups = gs] : gs \in DropOwners(d.rps[db].groups, n)}]
       IN  {[d EXCEPT !.nodes = [m \in DOMAIN d.nodes \ {n} |-> d.nodes[m]], !.rps = rps] :
              rps \in {f \in [Databases -> UNION {after[db] : db \in Databases}] :
                         \A db \in Databases : f[db] \in after[db]}}

-----------------------------------------------------------------------------
(* Retention policies *)

\* CreateRetentionPolicy; the policy of a database that has one is left as it is.
CreateRetentionPolicy(d, db, replicaN, dur, sgd) ==
  LET sgdur == normalisedShardDuration(sgd, dur)
  IN  IF replicaN < 1 \/ (dur > 0 /\ dur < sgdur) \/ d.rps[db] # None THEN {d}
      ELSE {WithPolicy(d, db, [replicaN |-> replicaN, dur |-> dur, sgdur |-> sgdur, groups |-> <<>>])}

DropRetentionPolicy(d, db) == {WithPolicy(d, db, None)}

\* UpdateRetentionPolicy as a command asks for it: the command carries the policy's
\* duration and replication, and no shard group duration.
UpdateRetentionPolicy(d, db, replicaN, dur) ==
  IF d.rps[db] = None \/ dur \in 1..Hour-1 \/ (dur > 0 /\ dur < d.rps[db].sgdur) THEN {d}
  ELSE {WithPolicy(d, db, [d.rps[db] EXCEPT !.replicaN = replicaN, !.dur = dur])}

-----------------------------------------------------------------------------
(* The copy that travels in a snapshot, to a client or to a restarted node *)

Marshalled(rp) ==
  IF rp = None THEN None
  ELSE [rp EXCEPT !.groups = [i \in DOMAIN @ |-> [@[i] EXCEPT !.start = UnixNano(@), !.end = UnixNano(@)]]]

=============================================================================
