----------------------------- MODULE MetaClient -----------------------------
(***************************************************************************)
(* A data node's client of the meta service (services/meta/client.go) and  *)
(* the handlers it talks to (handler.go, store.go).  The client keeps a    *)
(* copy of the metadata: one goroutine long-polls a meta node for newer    *)
(* ones, a caller executes a command and waits until the copy has it, and  *)
(* some operations change only the copy.                                   *)
(*                                                                         *)
(* Raft is external: the log that all meta nodes apply in order.  Data is  *)
(* the set of things that commands created; the commands are those things. *)
(***************************************************************************)
EXTENDS Integers, Sequences, FiniteSets, Functions

CONSTANTS
  Servers,     \* Client.metaServers: a sequence of meta nodes
  Commands,    \* each adds itself to the data
  MaxRetries,  \* maxRetries
  MaxLog,      \* bound: entries of the log
  MaxFails,    \* bound: requests that fail
  MaxRestarts, \* bound: restarts of a meta node
  MaxCommits   \* bound: changes that the client makes to its copy alone

VARIABLES
  log,      \* the Raft log
  applied,  \* meta node -> store.data.Index
  cache,    \* Client.cacheData: [index, data]
  poll,     \* pollForUpdates: [pc, at, idx, since, got]
  call,     \* retryUntilExec: [pc, cmd, tries, index]
  told,     \* Client.changed: another value when it is closed and replaced
  dropped,  \* what DropShard took out of the copy
  fails, restarts, commits

clientVars == <<log, applied, cache, poll, call, told, dropped, fails, restarts, commits>>
bounds == <<fails, restarts, commits>>

MetaNodes == Range(Servers)
\* The metadata of a meta node that has applied n entries.
DataAt(n) == [index |-> n, data |-> Range(SubSeq(log, 1, n))]

NoCall == [pc |-> "idle", cmd |-> "none", tries |-> 0, index |-> 0]

\* Entries that the bound leaves, beside those of the call under way.
Room == MaxLog - Len(log) - (IF call.pc = "exec" THEN MaxRetries + 1 - call.tries ELSE 0)

\* Open: the first copy comes from the first server, as soon as it has any data.
ClientInit ==
  /\ \E c \in Commands : log = <<c>>
  /\ applied = [s \in MetaNodes |-> 1]
  /\ cache = DataAt(1)
  /\ poll = [pc |-> "index", at |-> 1, idx |-> 0, since |-> 0, got |-> DataAt(1)]
  /\ call = NoCall
  /\ told = FALSE /\ dropped = {}
  /\ fails = 0 /\ restarts = 0 /\ commits = 0

-----------------------------------------------------------------------------
(* Meta nodes *)

ServerFrame == UNCHANGED <<cache, told, dropped, fails, commits>>

\* A command from another client is committed.
OtherExec ==
  /\ Room > 0
  /\ \E c \in Commands : log' = Append(log, c)
  /\ ServerFrame /\ UNCHANGED <<applied, poll, call, restarts>>

\* storeFSM.Apply; closing dataChanged is what poll.since stands for.
Apply(s) ==
  /\ applied[s] < Len(log)
  /\ applied' = [applied EXCEPT ![s] = @ + 1]
  /\ ServerFrame /\ UNCHANGED <<log, poll, call, restarts>>

\* A meta node restarts from a snapshot, and replays the rest of the log; a client
\* that polls it gets an error.
Restart(s) ==
  /\ restarts < MaxRestarts
  /\ restarts' = restarts + 1
  /\ \E n \in 1..applied[s] : applied' = [applied EXCEPT ![s] = n]
  /\ poll' = IF poll.pc = "wait" /\ Servers[poll.at] = s
             THEN [poll EXCEPT !.pc = "ask", !.at = (@ % Len(Servers)) + 1] ELSE poll
  /\ ServerFrame /\ UNCHANGED <<log, call>>

-----------------------------------------------------------------------------
(* pollForUpdates, with retryUntilSnapshot, and serveSnapshot at the other end *)

PollFrame == UNCHANGED <<log, applied, call, dropped, restarts, commits>>

\* c.index(); every poll begins with the first server.
PollIndex ==
  /\ poll.pc = "index"
  /\ poll' = [poll EXCEPT !.pc = "ask", !.at = 1, !.idx = cache.index]
  /\ PollFrame /\ UNCHANGED <<cache, told, fails>>

PollFails ==
  /\ poll.pc \in {"ask", "wait"} /\ fails < MaxFails
  /\ fails' = fails + 1
  /\ poll' = [poll EXCEPT !.pc = "ask", !.at = (@ % Len(Servers)) + 1]
  /\ PollFrame /\ UNCHANGED <<cache, told>>

\* The request arrives: store.afterIndex picks the channel to wait for.
PollArrives ==
  /\ poll.pc = "ask"
  /\ poll' = [poll EXCEPT !.pc = "wait", !.since = applied[Servers[poll.at]]]
  /\ PollFrame /\ UNCHANGED <<cache, told, fails>>

\* Mutant: a server that is ahead answers at its next change.
AnswerableLater == applied[Servers[poll.at]] > poll.since
\* afterIndex's channel is closed: at once if the server is ahead of the client, else
\* when it applies another command.
Answerable == poll.idx < poll.since \/ applied[Servers[poll.at]] > poll.since

\* store.snapshot: the answer is sent.
PollAnswered ==
  /\ poll.pc = "wait" /\ Answerable
  /\ poll' = [poll EXCEPT !.pc = "got", !.got = DataAt(applied[Servers[poll.at]])]
  /\ PollFrame /\ UNCHANGED <<cache, told, fails>>

\* Mutant: the index moves on and the data stays.
PollInstallIndex ==
  /\ poll.pc = "got"
  /\ cache' = [cache EXCEPT !.index = poll.got.index]
  /\ told' = IF cache.index < poll.got.index THEN ~told ELSE told
  /\ poll' = [poll EXCEPT !.pc = "index"]
  /\ PollFrame /\ UNCHANGED fails

\* The answer replaces the copy, whatever the copy was; waiters are told of a higher
\* index only.
PollInstall ==
  /\ poll.pc = "got"
  /\ cache' = poll.got
  /\ told' = IF cache.index < poll.got.index THEN ~told ELSE told
  /\ poll' = [poll EXCEPT !.pc = "index"]
  /\ PollFrame /\ UNCHANGED fails

-----------------------------------------------------------------------------
(* retryUntilExec, with serveExec at the other end *)

CallFrame == UNCHANGED <<cache, poll, told, dropped, restarts, commits>>

CallStart ==
  /\ call.pc \in {"idle", "ok", "error"} /\ Room > MaxRetries
  /\ \E c \in Commands : call' = [pc |-> "exec", cmd |-> c, tries |-> 0, index |-> 0]
  /\ CallFrame /\ UNCHANGED <<log, applied, fails>>

\* The leader commits the command and applies it, and answers with its index: the
\* leader may be any server that has the log.
Executed(l) ==
  /\ log' = Append(log, call.cmd)
  /\ applied' = [applied EXCEPT ![l] = Len(log')]

Exec ==
  /\ call.pc = "exec"
  /\ \E l \in MetaNodes : Executed(l)
  /\ call' = [call EXCEPT !.pc = "wait", !.tries = @ + 1, !.index = Len(log')]
  /\ CallFrame /\ UNCHANGED fails

\* The command is applied and has an error, as creating what is there already can
\* have: it is in the log all the same, and retryUntilExec returns the error at once.
ExecRefused ==
  /\ call.pc = "exec" /\ call.cmd \in Range(log)
  /\ \E l \in MetaNodes : Executed(l)
  /\ call' = [call EXCEPT !.tries = @ + 1, !.pc = "error"]
  /\ CallFrame /\ UNCHANGED fails

\* No answer, or a redirect: before the command is in the log, or after it.
ExecFails ==
  /\ call.pc = "exec" /\ fails < MaxFails
  /\ fails' = fails + 1
  /\ \/ UNCHANGED <<log, applied>>
     \/ \E l \in MetaNodes : Executed(l)
  /\ call' = [call EXCEPT !.tries = @ + 1, !.pc = IF call.tries + 1 > MaxRetries THEN "error" ELSE "exec"]
  /\ CallFrame

\* Mutant: an entry is thought to be there when the one before is.
WaitForIndexShort ==
  /\ call.pc = "wait" /\ cache.index + 1 >= call.index
  /\ call' = [call EXCEPT !.pc = "ok"]
  /\ CallFrame /\ UNCHANGED <<log, applied, fails>>

\* waitForIndex returns.
WaitForIndex ==
  /\ call.pc = "wait" /\ cache.index >= call.index
  /\ call' = [call EXCEPT !.pc = "ok"]
  /\ CallFrame /\ UNCHANGED <<log, applied, fails>>

\* DropShard and PruneShardGroups (an operator's command, the retention service)
\* change the copy, its index included, and nothing else.
DropShard ==
  /\ commits < MaxCommits
  /\ commits' = commits + 1
  /\ \E x \in cache.data :
       /\ cache' = [index |-> cache.index + 1, data |-> cache.data \ {x}]
       /\ dropped' = dropped \cup {x}
  /\ told' = ~told
  /\ UNCHANGED <<log, applied, poll, call, fails, restarts>>

-----------------------------------------------------------------------------
Poll == PollIndex \/ PollArrives \/ PollAnswered \/ PollInstall
Caller == Exec \/ ExecRefused \/ ExecFails \/ WaitForIndex
ClientNext ==
  \/ OtherExec \/ (\E s \in MetaNodes : Apply(s) \/ Restart(s))
  \/ Poll \/ PollFails
  \/ CallStart \/ Caller \/ DropShard

ClientSpec == ClientInit /\ [][ClientNext]_clientVars

\* Meta nodes apply what is committed, requests arrive or fail, goroutines run.
FairClientSpec ==
  /\ ClientSpec
  /\ WF_clientVars(Poll) /\ WF_clientVars(Caller)
  /\ \A s \in MetaNodes : WF_clientVars(Apply(s))

-----------------------------------------------------------------------------
(* Properties *)

\* As long as nothing changes the copy alone, it is the metadata as it was after some
\* entry of the log, and its index says which, whatever servers were polled on the way
\* and which of them restarted.
CopyOfLog == commits = 0 => cache.index <= Len(log) /\ cache = DataAt(cache.index)

\* What a command created is in the copy that its caller reads when the command has
\* returned without an error (or was dropped from it): CreateShardGroup relies on it,
\* when it looks for the group it had created.
ReadYourWrite == [][call.pc = "wait" /\ call'.pc = "ok" => call.cmd \in cache.data \cup dropped]_clientVars

\* The same as long as nothing changes the copy alone.
ReadYourWriteInLog ==
  [][call.pc = "wait" /\ call'.pc = "ok" /\ commits = 0 => call.cmd \in cache.data]_clientVars

\* What is committed reaches the client, whatever servers it polls on the way, or
\* something changed the copy alone; and a caller, who waits for the poll to bring what
\* it had executed, gets an answer.
CopyCatchesUp ==
  /\ \A c \in Commands : c \in Range(log) ~> c \in cache.data \/ commits > 0
  /\ call.pc = "exec" ~> call.pc \in {"ok", "error"}

\* The copy only moves forward: an answer to a poll is "an updated snapshot".
CopyMovesForward == [][cache'.index >= cache.index]_clientVars

\* A shard that was dropped stays dropped.
DropsStay == dropped \cap cache.data = {}

\* The channel of WaitForDataChanged is closed when the data changes.
ChangesAreTold == [][cache'.data # cache.data => told' # told]_clientVars

=============================================================================
