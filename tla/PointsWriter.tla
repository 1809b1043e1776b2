---------------------------- MODULE PointsWriter ----------------------------
(***************************************************************************)
(* One clustered write (coordinator/points_writer.go): the request of      *)
(* WritePointsPrivileged, a writeToShard goroutine for each shard its      *)
(* points map to, and under it a goroutine for each owner of the shard.    *)
(* They talk over buffered channels; the request and the shard goroutines  *)
(* give up at a timeout or when the writer is closed, the owners' never    *)
(* do.  What an owner really stored is kept beside what it was told.       *)
(***************************************************************************)
EXTENDS Integers, Sequences, FiniteSets

CONSTANTS
  Owners,      \* shard -> the data nodes that own it (ShardInfo.Owners)
  Batches,     \* bound: the sets of shards that the points of a request may map to
  Local        \* PointsWriter.Node

Shards == DOMAIN Owners
Goroutines == UNION {{s} \X Owners[s] : s \in Shards}
Levels == {"any", "one", "quorum", "all"}

VARIABLES
  level,     \* consistency level of the request
  request,   \* WritePointsPrivileged: "map", "wait", or what it returned
  shard,     \* shard -> [pc, wrote, got, failed]; pc is "idle" (no point maps to it), "wait",
             \* what writeToShard returned, "sent"
  owner,     \* goroutine -> "idle", "write", "hint", "ok" / "fail" (result still to send), "done"
  results,   \* shard -> the channel of owners' results
  replies,   \* the channel of the shards' errors
  closing,   \* PointsWriter.closing is closed
  stored,    \* owners that have the points in their store
  hinted,    \* owners that have them in a hinted-handoff queue
  refused,   \* owners that answered with an error that is not retryable
  unsaved,   \* owners whose write failed, and the hint as well
  orphaned   \* owners not sent to, as the shard's group was no longer in the metadata

disks == <<stored, hinted, refused, unsaved, orphaned>>
pointsVars == <<level, request, shard, owner, results, replies, closing, disks>>

\* What WritePointsPrivileged, and writeToShard, can return.
Errors == {"timeout", "failed", "partial", "error"}
Returned == {"nil", "beyond", "maperror"} \cup Errors

-----------------------------------------------------------------------------
\* The number of results without error that writeToShard asks for.
Required(s) ==
  LET n == Cardinality(Owners[s])
  IN  CASE level \in {"any", "one"} -> 1 [] level = "quorum" -> n \div 2 + 1 [] level = "all" -> n

\* Mutant: room for one result only.
CapacityOne(s) == 1
\* The channel that writeToShard makes has room for every owner.
Capacity(s) == Cardinality(Owners[s])

-----------------------------------------------------------------------------
PointsInit ==
  /\ level \in Levels
  /\ request = "map"
  /\ shard = [s \in Shards |-> [pc |-> "idle", wrote |-> 0, got |-> 0, failed |-> FALSE]]
  /\ owner = [g \in Goroutines |-> "idle"]
  /\ results = [s \in Shards |-> <<>>]
  /\ replies = <<>>
  /\ closing = FALSE
  /\ stored = {} /\ hinted = {} /\ refused = {} /\ unsaved = {} /\ orphaned = {}

\* The retention policy, or a shard group, cannot be had.
MapFails ==
  /\ request = "map"
  /\ request' = "maperror"
  /\ UNCHANGED <<level, shard, owner, results, replies, closing, disks>>

\* MapShards finds the shards M; then the goroutines are started: those for the
\* shards and, first thing in writeToShard, those for the owners.
MapShards ==
  /\ request = "map"
  /\ request' = "wait"
  /\ \E M \in Batches :
       /\ shard' = [s \in Shards |-> IF s \in M THEN [shard[s] EXCEPT !.pc = "wait"] ELSE shard[s]]
       /\ owner' = [g \in Goroutines |-> IF g[1] \in M THEN "write" ELSE "idle"]
  /\ UNCHANGED <<level, results, replies, closing, disks>>

-----------------------------------------------------------------------------
(* The goroutine of an owner *)

OwnerFrame == UNCHANGED <<level, request, shard, replies, closing>>
Becomes(g, pc) == owner' = [owner EXCEPT ![g] = pc]

\* TSDBStore.WriteToShard on this node; a missing shard is created and written again.
WriteLocal(g) ==
  /\ owner[g] = "write" /\ g[2] = Local
  /\ \/ Becomes(g, "ok") /\ stored' = stored \cup {g}
     \/ Becomes(g, "fail") /\ UNCHANGED stored
  /\ OwnerFrame /\ UNCHANGED <<results, hinted, refused, unsaved, orphaned>>

\* Mutant: every error is final, nothing is queued.
WriteRemoteNoHint(g) ==
  /\ owner[g] = "write" /\ g[2] # Local
  /\ \/ Becomes(g, "ok") /\ stored' = stored \cup {g}
     \/ Becomes(g, "fail") /\ stored' \in {stored, stored \cup {g}}
  /\ OwnerFrame /\ UNCHANGED <<results, hinted, refused, unsaved, orphaned>>

\* ShardWriter.WriteShard to another node.  The points may be stored although the
\* answer is lost; a shard whose group is gone is dropped without an error.
WriteRemote(g) ==
  /\ owner[g] = "write" /\ g[2] # Local
  /\ \/ Becomes(g, "ok") /\ stored' = stored \cup {g} /\ UNCHANGED <<refused, orphaned>>
     \/ Becomes(g, "ok") /\ orphaned' = orphaned \cup {g} /\ UNCHANGED <<stored, refused>>
     \/ Becomes(g, "hint") /\ stored' \in {stored, stored \cup {g}} /\ UNCHANGED <<refused, orphaned>>
     \/ Becomes(g, "fail") /\ refused' = refused \cup {g} /\ UNCHANGED <<stored, orphaned>>
  /\ OwnerFrame /\ UNCHANGED <<results, hinted, unsaved>>

\* Mutant: a successful hint counts at every level.
QueueHintAlways(g) ==
  /\ owner[g] = "hint"
  /\ \/ Becomes(g, "ok") /\ hinted' = hinted \cup {g} /\ UNCHANGED unsaved
     \/ Becomes(g, "fail") /\ unsaved' = unsaved \cup {g} /\ UNCHANGED hinted
  /\ OwnerFrame /\ UNCHANGED <<results, stored, refused, orphaned>>

\* HintedHandoff.WriteShard after a retryable error; a hint is a success at ANY.
QueueHint(g) ==
  /\ owner[g] = "hint"
  /\ \/ Becomes(g, IF level = "any" THEN "ok" ELSE "fail") /\ hinted' = hinted \cup {g} /\ UNCHANGED unsaved
     \/ Becomes(g, "fail") /\ unsaved' = unsaved \cup {g} /\ UNCHANGED hinted
  /\ OwnerFrame /\ UNCHANGED <<results, stored, refused, orphaned>>

\* The result is sent, and the goroutine ends.
SendResult(g) ==
  /\ owner[g] \in {"ok", "fail"}
  /\ Len(results[g[1]]) < Capacity(g[1])
  /\ results' = [results EXCEPT ![g[1]] = Append(@, owner[g] = "ok")]
  /\ Becomes(g, "done")
  /\ OwnerFrame /\ UNCHANGED disks

-----------------------------------------------------------------------------
(* The goroutine of a shard: the loop of writeToShard, once per owner *)

ShardFrame == UNCHANGED <<level, request, owner, closing, disks>>
Collecting(s) == shard[s].pc = "wait" /\ shard[s].got < Cardinality(Owners[s])

ShardClosing(s) ==
  /\ Collecting(s) /\ closing
  /\ shard' = [shard EXCEPT ![s].pc = "failed"]
  /\ ShardFrame /\ UNCHANGED <<results, replies>>

ShardTimeout(s) ==
  /\ Collecting(s)
  /\ shard' = [shard EXCEPT ![s].pc = "timeout"]
  /\ ShardFrame /\ UNCHANGED <<results, replies>>

\* A result is taken: an error is remembered, a success counted, and with enough of
\* them writeToShard returns nil.
ShardResult(s) ==
  LET ok == Head(results[s])
      wrote == shard[s].wrote + (IF ok THEN 1 ELSE 0)
  IN  /\ Collecting(s) /\ results[s] # <<>>
      /\ results' = [results EXCEPT ![s] = Tail(@)]
      /\ shard' = [shard EXCEPT ![s] =
           [pc |-> IF ok /\ wrote >= Required(s) THEN "nil" ELSE "wait", wrote |-> wrote,
            got |-> @.got + 1, failed |-> @.failed \/ ~ok]]
      /\ ShardFrame /\ UNCHANGED replies

\* Every owner's result is in, and they were not enough.
ShardShort(s) ==
  /\ shard[s].pc = "wait" /\ ~Collecting(s)
  /\ shard' = [shard EXCEPT ![s].pc = IF shard[s].wrote > 0 THEN "partial"
                                      ELSE IF shard[s].failed THEN "error" ELSE "failed"]
  /\ ShardFrame /\ UNCHANGED <<results, replies>>

\* The shard goroutine sends what writeToShard returned; the channel has room for all.
ShardReply(s) ==
  /\ shard[s].pc \in {"nil"} \cup Errors
  /\ replies' = Append(replies, shard[s].pc)
  /\ shard' = [shard EXCEPT ![s].pc = "sent"]
  /\ ShardFrame /\ UNCHANGED results

-----------------------------------------------------------------------------
(* The request: the loop of WritePointsPrivileged, once per shard *)

RequestFrame == UNCHANGED <<level, shard, owner, results, closing, disks>>
Mapped == {s \in Shards : shard[s].pc # "idle"}
Sent == {s \in Shards : shard[s].pc = "sent"}
Received == Cardinality(Sent) - Len(replies)
Waiting == request = "wait" /\ Received < Cardinality(Mapped)

RequestClosing ==
  /\ Waiting /\ closing
  /\ request' = "failed"
  /\ RequestFrame /\ UNCHANGED replies

RequestTimeout ==
  /\ Waiting
  /\ request' = "timeout"
  /\ RequestFrame /\ UNCHANGED replies

RequestReply ==
  /\ Waiting /\ replies # <<>>
  /\ replies' = Tail(replies)
  /\ request' = IF Head(replies) = "nil" THEN "wait" ELSE Head(replies)
  /\ RequestFrame

\* Every shard was written: nil, or an error for the points that MapShards had dropped.
RequestDone ==
  /\ request = "wait" /\ ~Waiting
  /\ request' \in {"nil", "beyond"}
  /\ RequestFrame /\ UNCHANGED replies

\* PointsWriter.Close.
Close ==
  /\ ~closing
  /\ closing' = TRUE
  /\ UNCHANGED <<level, request, shard, owner, results, replies, disks>>

Owner(g) == WriteLocal(g) \/ WriteRemote(g) \/ QueueHint(g) \/ SendResult(g)
Shard(s) == ShardClosing(s) \/ ShardTimeout(s) \/ ShardResult(s) \/ ShardShort(s) \/ ShardReply(s)
Request == MapFails \/ MapShards \/ RequestClosing \/ RequestTimeout \/ RequestReply \/ RequestDone
PointsNext ==
  \/ Request \/ Close
  \/ \E s \in Shards : Shard(s)
  \/ \E g \in Goroutines : Owner(g)

PointsSpec == PointsInit /\ [][PointsNext]_pointsVars

-----------------------------------------------------------------------------
(* Properties *)

OwnersIn(S, s) == {o \in Owners[s] : <<s, o>> \in S}

\* The owners that count for the level: with the points stored, or queued if it is
\* ANY, or not asked because the shard's group is gone.
Counting(s) == OwnersIn(stored \cup orphaned \cup (IF level = "any" THEN hinted ELSE {}), s)

\* At least one owner of n, more than half of them, or all of them.
Enough(k, n) ==
  CASE level \in {"any", "one"} -> k > 0 [] level = "quorum" -> 2 * k > n [] level = "all" -> k = n

\* A write that returned nil (or only complains about points it dropped for their
\* age) meets the consistency level on every shard: "requires at least one data
\* node / a quorum of data nodes / all data nodes to acknowledge a write", where a
\* remote owner of a shard that was deleted meanwhile counts like one that answered.
\* And ErrPartialWrite "is returned when a write partially succeeds but does not meet
\* the requested consistency level": an owner has the points, and the level asks for
\* more owners than one.
LevelMet ==
  /\ request \in {"nil", "beyond"} =>
       \A s \in Mapped : Enough(Cardinality(Counting(s)), Cardinality(Owners[s]))
  /\ request = "partial" =>
       \E s \in Mapped : Counting(s) # {} /\ ~Enough(1, Cardinality(Owners[s]))

\* "ErrWriteFailed is returned when no writes succeeded."
FailedMeansNone == request = "failed" => stored = {}

\* When the goroutine of a remote owner is through, the owner has the points, or
\* they are queued for it, or it refused them for good, or the queue failed as
\* well, or there is no such shard any more: however early the request returned, no owner is forgotten.
NobodyForgotten ==
  \A g \in Goroutines :
    owner[g] = "done" /\ g[2] # Local => g \in stored \cup hinted \cup refused \cup unsaved \cup orphaned

\* An owner's goroutine whose write has returned can always send its result and end,
\* also when writeToShard has returned long before (level met, timeout, Close) and
\* nobody takes results any more: writeToShard's channel has room for every owner.
SendersNeverBlock ==
  \A g \in Goroutines : owner[g] \in {"ok", "fail"} => Len(results[g[1]]) < Capacity(g[1])

=============================================================================
