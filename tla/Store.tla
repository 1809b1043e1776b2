------------------------------- MODULE Store -------------------------------
(***************************************************************************)
(* The shards of one database in tsdb.Store (tsdb/store.go, shard.go):     *)
(* shards are created, written, disabled, deleted one at a time or with    *)
(* their retention policy or database, concurrently, and the process may   *)
(* stop at any moment and load again what it finds on disk.                *)
(*                                                                         *)
(* A shard id is a directory; a Shard object is an engine opened on it,    *)
(* and callers keep using the object they looked up after the store has    *)
(* forgotten it.  A write is one point, known by its caller and its series.*)
(***************************************************************************)
EXTENDS Naturals, Sequences

CONSTANTS
    Ids,          \* shard ids
    Series,
    Callers,      \* goroutines that call the store
    MaxObjs,      \* bound: Shard objects made
    MaxCalls,     \* bound: calls made
    MaxRestarts,  \* bound: restarts
    NoShard       \* nil: no Shard object, no series file

ASSUME StoreAssumption ==
    Ids \subseteq Nat /\ NoShard \notin Nat /\ \A set \in SUBSET Series : NoShard # set

VARIABLES
    shards,       \* Store.shards: id -> object or NoShard
    objs,         \* the Shard objects: [id, engine, enabled, index]
    pending,      \* Store.pendingShardDeletes
    epochs,       \* the keys of Store.epochs
    database,     \* whether Store.databases has the database
    sfile,        \* the series file's live series; NoShard when there is no series file
    disk,         \* id -> [dir, points] on disk
    call,         \* caller -> the call it is in
    calls, restarts,
    panic,        \* the process has hit a nil pointer
    acked,        \* ghost: writes acknowledged: [id, obj, point]
    touched        \* ghost: the ids a known defect has touched

storeVars == <<shards, objs, pending, epochs, database, sfile, disk, call, calls, restarts, panic, acked, touched>>

Idle == [pc |-> "idle", id |-> NoShard, obj |-> NoShard, list |-> {}, set |-> {}]
NoDir == [dir |-> FALSE, points |-> {}]

StoreInit ==
    /\ shards = [i \in Ids |-> NoShard] /\ objs = <<>>
    /\ pending = {} /\ epochs = {} /\ database = FALSE /\ sfile = NoShard
    /\ disk = [i \in Ids |-> NoDir]
    /\ call = [c \in Callers |-> Idle]
    /\ calls = 0 /\ restarts = 0 /\ panic = FALSE
    /\ acked = {} /\ touched = {}

Registered == {shards[i] : i \in {j \in Ids : shards[j] # NoShard}}
Ready(o) == objs[o].engine = "open" /\ objs[o].enabled            \* Shard.ready
Live == IF sfile = NoShard THEN {} ELSE sfile

May(c) == call[c].pc = "idle" /\ ~panic /\ calls < MaxCalls
At(c, pc) == call[c].pc = pc /\ ~panic
Goto(c, pc) == call' = [call EXCEPT ![c].pc = pc]
Return(c) == call' = [call EXCEPT ![c] = Idle]

-----------------------------------------------------------------------------
(* CreateShard, wholly under the store's lock.                             *)

NewShard(id) == [id |-> id, engine |-> "open", enabled |-> TRUE,
                 index |-> {p.series : p \in disk[id].points}]

\* Someone is between listing the shards to drop and removing the directories.
Dropping == \E c \in Callers : call[c].pc \in {"dbClose", "dbRemove", "rpClose", "rpRemove", "rpUnlist"}

\* Mutant: a shard that is being deleted may be created.
CreatableUnlisted(id) == shards[id] = NoShard

Creatable(id) == shards[id] = NoShard /\ id \notin pending

CreateShard(c, id) ==
    /\ May(c)
    /\ Creatable(id)
    /\ Len(objs) < MaxObjs
    /\ objs' = Append(objs, NewShard(id))
    /\ shards' = [shards EXCEPT ![id] = Len(objs')]
    /\ epochs' = epochs \cup {id}
    /\ database' = TRUE
    /\ sfile' = Live
    /\ disk' = [disk EXCEPT ![id].dir = TRUE]
    /\ calls' = calls + 1
    /\ touched' = IF Dropping THEN touched \cup {id} ELSE touched
    /\ UNCHANGED <<pending, call, restarts, panic, acked>>

SetShardEnabled(c, id, enabled) ==
    /\ May(c)
    /\ shards[id] # NoShard
    /\ objs' = [objs EXCEPT ![shards[id]].enabled = enabled]
    /\ calls' = calls + 1
    /\ UNCHANGED <<shards, pending, epochs, database, sfile, disk, call, restarts, panic, acked, touched>>

-----------------------------------------------------------------------------
(* WriteToShard: the shard is looked up under the lock, its epoch tracker  *)
(* after it, and the points are written through the object.                *)

WriteLookup(c, id) ==
    /\ May(c)
    /\ shards[id] # NoShard
    /\ call' = [call EXCEPT ![c] = [Idle EXCEPT !.pc = "writeEpoch", !.id = id, !.obj = shards[id]]]
    /\ calls' = calls + 1
    /\ UNCHANGED <<shards, objs, pending, epochs, database, sfile, disk, restarts, panic, acked, touched>>

WriteEpoch(c) ==
    /\ At(c, "writeEpoch")
    /\ IF call[c].id \in epochs THEN Goto(c, "write") /\ UNCHANGED panic
       ELSE panic' = TRUE /\ UNCHANGED call
    /\ UNCHANGED <<shards, objs, pending, epochs, database, sfile, disk, calls, restarts, acked, touched>>

\* Shard.WritePoints: the series joins the index and the series file, the point the files.
WritePoints(c, s) ==
    /\ At(c, "write")
    /\ LET o == call[c].obj
           id == call[c].id
           point == [by |-> c, series |-> s]
           raced == \E d \in Callers : call[d].pc = "dropSeries" /\ s \in call[d].set
       IN  IF ~Ready(o) THEN UNCHANGED <<objs, sfile, disk, acked, touched>>
           ELSE /\ objs' = [objs EXCEPT ![o].index = @ \cup {s}]
                /\ sfile' = IF sfile = NoShard THEN NoShard ELSE sfile \cup {s}
                /\ disk' = IF disk[id].dir THEN [disk EXCEPT ![id].points = @ \cup {point}] ELSE disk
                /\ acked' = acked \cup {[id |-> id, obj |-> o, point |-> point]}
                /\ touched' = IF raced THEN touched \cup {id} ELSE touched
    /\ Return(c)
    /\ UNCHANGED <<shards, pending, epochs, database, calls, restarts, panic>>

-----------------------------------------------------------------------------
(* DeleteShard.                                                            *)

DeleteLookup(c, id) ==
    /\ May(c)
    /\ shards[id] # NoShard
    /\ call' = [call EXCEPT ![c] = [Idle EXCEPT !.pc = "unlist", !.id = id, !.obj = shards[id]]]
    /\ calls' = calls + 1
    /\ UNCHANGED <<shards, objs, pending, epochs, database, sfile, disk, restarts, panic, acked, touched>>

\* The id leaves the map, whichever object it leads to by now.
Unlist(c) ==
    /\ At(c, "unlist")
    /\ LET id == call[c].id
       IN  IF id \in pending THEN Return(c) /\ UNCHANGED <<shards, pending, epochs, touched>>
           ELSE /\ shards' = [shards EXCEPT ![id] = NoShard]
                /\ epochs' = epochs \ {id}
                /\ pending' = pending \cup {id}
                /\ call' = [call EXCEPT ![c].pc = "series", ![c].list = Registered \ {shards[id]}]
                /\ touched' = IF shards[id] \in {NoShard, call[c].obj} THEN touched ELSE touched \cup {id}
    /\ UNCHANGED <<objs, database, sfile, disk, calls, restarts, panic, acked>>

\* Mutant: all the shard's series.
OnlyInAll(o, others) == objs[o].index

OnlyIn(o, others) == objs[o].index \ UNION {objs[p].index : p \in {q \in others : Ready(q)}}

\* The series no other shard has.  A shard that is closed or disabled has no index to
\* ask: for the shard itself that ends the call, another shard is passed over.
SeriesDiff(c) ==
    /\ At(c, "series")
    /\ LET o == call[c].obj
       IN  IF Ready(o)
           THEN /\ call' = [call EXCEPT ![c].pc = "dropSeries", ![c].set = OnlyIn(o, call[c].list)]
                /\ touched' = touched \cup {objs[p].id : p \in {q \in Registered : q \notin call[c].list \/ ~Ready(q)}}
           ELSE Goto(c, "unmark") /\ touched' = touched \cup {call[c].id}
    /\ UNCHANGED <<shards, objs, pending, epochs, database, sfile, disk, calls, restarts, panic, acked>>

DropSeries(c) ==
    /\ At(c, "dropSeries")
    /\ sfile' = IF sfile = NoShard THEN NoShard ELSE sfile \ call[c].set
    /\ Goto(c, "close")
    /\ UNCHANGED <<shards, objs, pending, epochs, database, disk, calls, restarts, panic, acked, touched>>

CloseShard(c) ==
    /\ At(c, "close")
    /\ objs' = [objs EXCEPT ![call[c].obj].engine = "closed"]
    /\ Goto(c, "remove")
    /\ UNCHANGED <<shards, pending, epochs, database, sfile, disk, calls, restarts, panic, acked, touched>>

\* Mutant: the id may be created again before its files are removed.
RemoveShardLate(c) ==
    /\ At(c, "remove")
    /\ \/ /\ call[c].id \in pending
          /\ pending' = pending \ {call[c].id}
          /\ UNCHANGED <<disk, call>>
       \/ /\ call[c].id \notin pending
          /\ disk' = [disk EXCEPT ![call[c].id] = NoDir]
          /\ Goto(c, "unmark")
          /\ UNCHANGED pending
    /\ UNCHANGED <<shards, objs, epochs, database, sfile, calls, restarts, panic, acked, touched>>

RemoveShard(c) ==
    /\ At(c, "remove")
    /\ disk' = [disk EXCEPT ![call[c].id] = NoDir]
    /\ Goto(c, "unmark")
    /\ UNCHANGED <<shards, objs, pending, epochs, database, sfile, calls, restarts, panic, acked, touched>>

\* The deferred function: the database's state may be gone by now.
Unmark(c) ==
    /\ At(c, "unmark")
    /\ pending' = pending \ {call[c].id}
    /\ panic' = ~database
    /\ Return(c)
    /\ UNCHANGED <<shards, objs, epochs, database, sfile, disk, calls, restarts, acked, touched>>

-----------------------------------------------------------------------------
(* DeleteDatabase and DeleteRetentionPolicy, of the database's only policy.*)

DropList(c, pc) ==
    /\ May(c)
    /\ database
    /\ call' = [call EXCEPT ![c] = [Idle EXCEPT !.pc = pc, !.list = Registered]]
    /\ calls' = calls + 1
    /\ UNCHANGED <<shards, objs, pending, epochs, database, sfile, disk, restarts, panic, acked, touched>>

DropClose(c) ==
    /\ call[c].pc \in {"dbClose", "rpClose"} /\ ~panic
    /\ objs' = [o \in DOMAIN objs |-> IF o \in call[c].list THEN [objs[o] EXCEPT !.engine = "closed"] ELSE objs[o]]
    /\ Goto(c, IF call[c].pc = "dbClose" THEN "dbRemove" ELSE "rpRemove")
    /\ UNCHANGED <<shards, pending, epochs, database, sfile, disk, calls, restarts, panic, acked, touched>>

\* The ids of the shards that were listed.
ListedIds(c) == {objs[o].id : o \in call[c].list}

\* The rest of DeleteDatabase runs under the lock.
DatabaseRemove(c) ==
    /\ At(c, "dbRemove")
    /\ disk' = [i \in Ids |-> NoDir]
    /\ shards' = [i \in Ids |-> IF i \in ListedIds(c) THEN NoShard ELSE shards[i]]
    /\ epochs' = epochs \ ListedIds(c)
    /\ database' = FALSE
    /\ sfile' = NoShard
    /\ Return(c)
    /\ UNCHANGED <<objs, pending, calls, restarts, panic, acked, touched>>

\* DeleteRetentionPolicy removes the directories before it takes the lock.
PolicyRemove(c) ==
    /\ At(c, "rpRemove")
    /\ disk' = [i \in Ids |-> NoDir]
    /\ Goto(c, "rpUnlist")
    /\ UNCHANGED <<shards, objs, pending, epochs, database, sfile, calls, restarts, panic, acked, touched>>

PolicyUnlist(c) ==
    /\ At(c, "rpUnlist")
    /\ shards' = [i \in Ids |-> IF i \in ListedIds(c) THEN NoShard ELSE shards[i]]
    /\ panic' = (~database /\ call[c].list # {})
    /\ Return(c)
    /\ UNCHANGED <<objs, pending, epochs, database, sfile, disk, calls, restarts, acked, touched>>

-----------------------------------------------------------------------------
\* The numbers of the new objects, one for each shard found, in the order of the ids.
Numbered(found, numbers) ==
    {f \in [found -> numbers] : /\ \A o \in numbers : \E i \in found : f[i] = o
                               /\ \A i, j \in found : i < j => f[i] < f[j]}

\* A shard object for each directory found, open and listed; fresh has its number, n is
\* the last.
LoadShards(n, fresh) ==
    LET found == DOMAIN fresh
    IN  /\ shards' = [i \in Ids |-> IF i \in found THEN fresh[i] ELSE NoShard]
        /\ objs' = [o \in 1..n |-> IF o <= Len(objs) THEN [objs[o] EXCEPT !.engine = "closed"]
                                  ELSE NewShard(CHOOSE i \in found : fresh[i] = o)]
        /\ epochs' = found
        /\ database' = (found # {})
        /\ acked' = {[a EXCEPT !.obj = IF a.obj = shards[a.id] THEN fresh[a.id] ELSE 0] :
                         a \in {b \in acked : b.id \in found}}
        /\ touched' = touched \cup (found \cap pending)

\* The process stops (or panics) and loads the directories it finds: Open, loadShards.
StoreRestart ==
    /\ restarts < MaxRestarts
    /\ \E n \in Len(objs)..MaxObjs :
          \E fresh \in Numbered({i \in Ids : disk[i].dir}, Len(objs) + 1 .. n) : LoadShards(n, fresh)
    /\ pending' = {} /\ panic' = FALSE
    /\ call' = [c \in Callers |-> Idle]
    /\ restarts' = restarts + 1
    /\ UNCHANGED <<sfile, disk, calls>>

StoreNext ==
    \/ \E c \in Callers, id \in Ids :
          \/ CreateShard(c, id) \/ WriteLookup(c, id) \/ DeleteLookup(c, id)
          \/ \E e \in BOOLEAN : SetShardEnabled(c, id, e)
    \/ \E c \in Callers :
          \/ WriteEpoch(c) \/ \E s \in Series : WritePoints(c, s)
          \/ Unlist(c) \/ SeriesDiff(c) \/ DropSeries(c) \/ CloseShard(c) \/ RemoveShard(c) \/ Unmark(c)
          \/ DropList(c, "dbClose") \/ DropList(c, "rpClose") \/ DropClose(c)
          \/ DatabaseRemove(c) \/ PolicyRemove(c) \/ PolicyUnlist(c)
    \/ StoreRestart

StoreSpec == StoreInit /\ [][StoreNext]_storeVars

-----------------------------------------------------------------------------
(* Properties.  The ids a known defect of section 6 of the README has      *)
(* touched are excepted from the step on at which it did.                  *)

Open(o) == objs[o].engine = "open"
Sound(o) == objs[o].id \notin touched

\* A listed shard has on disk what was acknowledged to it and nothing else, before and
\* after a restart: no call that deletes this or another shard, the policy or the database
\* removes files of a listed shard, and a shard that is created after its namesake was
\* deleted starts empty.
RegisteredKept ==
    \A o \in Registered : Open(o) /\ Sound(o) =>
        disk[objs[o].id].points = {a.point : a \in {b \in acked : b.id = objs[o].id /\ b.obj = o}}

\* No two engines are open on one directory: pendingShardDeletes keeps CreateShard from
\* opening what a DeleteShard has not closed yet.
OneEngine ==
    \A o, p \in {q \in DOMAIN objs : Open(q) /\ Sound(q)} : objs[o].id = objs[p].id => o = p

\* The series of a listed shard are in the series file: deleting one shard leaves the
\* series that the others still have.
SeriesKept == \A o \in Registered : Open(o) /\ Sound(o) => objs[o].index \subseteq Live

\* Promise of DeleteShard: it removes series "as they don't exist in any of the
\* database's remaining shards".  The code breaks it (README, section 6).
RemovedSeriesUnused ==
    \A c \in Callers : At(c, "dropSeries") =>
        \A o \in Registered : Open(o) => objs[o].index \cap call[c].set = {}

\* No call finds a map entry gone that it relies on.  The code breaks it (README,
\* section 6).
NoPanic == ~panic
=============================================================================
