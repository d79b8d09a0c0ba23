# Verification of the distributed key-value store

TLA+ models of the program under `src/kv-store`, their TLC runs, and TLAPS
proofs about Raft, the slice of its log, the write-ahead log, the store, the
server and the event bus. Every definition that models code is listed with its
source lines in `PROJECT.json` ("map"). Paths below are relative to
`src/kv-store/internal` unless they say otherwise.

## 1. The system

One process (`cmd/server/main.go`) runs three Raft nodes that call each other
over HTTP, a store with a write-ahead log per node, an HTTP API for clients
and operators, and an event bus that feeds a dashboard.

| Part | State | Operations | What makes it correct |
|---|---|---|---|
| Raft log (`raft/log.go`) | entries with Index, Term, command | Append, Get, EntriesFrom, TruncateFrom, LastIndex | an entry's Index is its position; what is sent is not changed while it is read |
| Raft node (`raft/node.go`, `append_entries.go`, `vote.go`) | term, state, vote, log, commit and apply index, per-peer indexes, election timer, stop channel | election timer, startElection, RequestVote, heartbeats, AppendEntries, commit, apply, Start, Stop, Restart | one leader per term, agreeing logs, one sequence of applied commands, an election when there is no leader |
| Transport (`raft/http_transport.go`, `http_handler.go`) | calls under way | send, answer, fail after 2 s | none of its own: calls may be lost, late, or overtake each other |
| Write-ahead log (`wal/wal.go`) | mutex, number of the next record, bounded queue, batch of the commit goroutine, file | Append, group commit, Close, Open and Replay | an answered record survives a crash; file order is number order; every call returns |
| Store (`store/store.go`) | map, pending records, next number to apply | Set, Delete, Get, applyOrdered, New | the map is a prefix of the durable records, in order, before and after a restart |
| KV node (`raft/kv_node.go`) | none of its own | propose a command, apply a committed one | the store shows a prefix of what its node has applied, without holes |
| HTTP API (`httpapi/handler.go`) | none of its own | GET, PUT, DELETE, status, kill, restart, event stream | a command is applied once, at the index its client was told; the leader it names has led |
| Server (`cmd/server/main.go`) | none of its own | start on what the WALs hold, shutdown, the end of the process | no store loses a durable record or shows one without those before it |
| Event bus (`events/events.go`) | window of recent events, subscribers, their channels | Publish, Subscribe, Unsubscribe, Recent | no publisher waits, no client that keeps up misses an event |
| Snapshots | none: the package is empty | | |

Interactions: a client's PUT looks for a leader and calls `Start`; the leader's
heartbeat loop replicates; a reply that completes a majority commits and
applies *with the node's mutex held*, through `applyFunc`, the store and the
log, down to an fsync. The event bus is called with the same mutex held. Only
the stores are persisted; Raft state is not.

Hard behaviours: goroutines that come back with an answer after the node has
moved on; a state check and the action it leads to in two critical sections;
heartbeats of different lengths that overtake each other; kill and restart
between two messages; a mutex held across a blocking send; one failing write in
a batch; a crash between write, sync and answer, and bytes left at the end of
the file; a send to a channel that another goroutine closes. `PROJECT.json`
("hazards") lists them at their lines.

## 2. Modules

| Module | Models | Role |
|---|---|---|
| `RaftLog` | log operators, log comparison, the merge of AppendEntries | operators |
| `Raft` | the Raft nodes and the calls between them | core specification |
| `MCRaft` | | instances for TLC |
| `RaftProofs` | | theorems about `Raft`: types, votes, elections, application |
| `LogMatchingProofs` | | theorems about `Raft`, on `RaftProofs`: log matching, what a leader believes of its peers, leader completeness, commitment |
| `LogArray` | one node's log as a Go slice, read by calls outside the lock | shows that `MergeEntries` is the loop, and when a call carries what the log held |
| `LogArrayProofs` | | theorems about `LogArray` |
| `AgreedLog` | | abstract specification of the nodes of one process |
| `KVCluster` | the server: `Raft`, the stores, the API, the process | composition, implements `AgreedLog` |
| `MCKVCluster` | | instances for TLC |
| `KVClusterProofs` | | theorems about `KVCluster`, on `LogMatchingProofs` |
| `WAL` | writers, commit goroutine, Close, file, crash, Replay | specification |
| `MCWAL` | | instances for TLC |
| `WALProofs` | | theorems about `WAL` |
| `DurableMap` | | abstract specification of store and log |
| `Store` | the store, on `WAL` (`INSTANCE`) | implements `DurableMap` |
| `Positions` | | the part of a sequence at a set of positions, used by `Store` |
| `MCStore` | | instances for TLC |
| `PositionsProofs` | | lemmas about positions, sets of naturals and the map a journal gives |
| `StoreProofs` | | theorems about `Store`, with those of `WALProofs` for its log |
| `EventBus` | event bus and SSE handlers | specification |
| `MCEventBus` | | instances for TLC |
| `EventBusProofs` | | theorems about `EventBus` |

Definitions marked "Mutant of" differ from the code in the way a plausible
error would; no specification uses them. Each property has one that breaks it.

### Raft

State variables are the fields of `RaftNode`, one function of the node each.
Four sets hold requests and replies of the two calls. `electing[i]` says that
the timer goroutine has looked at the state and is about to call
`startElection`; that check and its use are two critical sections in the code.
Histories: `applied`, the commands given to `applyFunc`, and `elections`.

| Action | Code |
|---|---|
| `TimerFires`, `StartElection` | runElectionTimer, startElection up to the calls |
| `RequestVote`, `AppendEntries` | the handlers, whole |
| `VoteReply`, `AppendReply` | the ends of the calling goroutines, with becomeLeader, updateCommitIndex and applyCommitted |
| `SendHeartbeats` | one sendHeartbeats of the leader's loop |
| `Start`, `Stop`, `Restart` | the same |
| `RPCFails` | a refused, lost or timed-out call, before or after its handling |

Granularity and abstraction:

* A critical section of `r.mu` is one step. The handler's IsStopped check
  (`Answers`) is merged with it: in `Raft` a Stop between the two has the same
  effect as one after both. In `KVCluster` the WAL of the node may be closed
  between them as well (`main.go:137-146`), so that the call applies commands to
  a store that refuses them; there only the nodes of `Failing`, whose stores may
  refuse any write at any time, show this.
* The heartbeat loop may send once more after a Stop has come
  (`node.go:196-208`); in the model that Stop comes after the send.
* A goroutine of a call is done when its call returns, and each call returns
  once at most. Loss of a request at once is the choice of the set `S`.
  Requests and replies are sets; two identical calls under way at once are one.
* A request carries the entries the log held when the call was made. The code
  encodes them later, without the lock; `LogArray` shows that nothing changes
  as long as the sender is in the term of the call, and `raft_log_race` what
  may be sent after that.
* `votes` is the set of peers counted. The code counts in an integer, with one
  goroutine per peer and election, which gives the same number.
* A timer that fires on a leader is spent, as in the code, which goes back to
  wait without resetting it.
* After Stop, the timer goroutine takes the closed stop channel before a timer
  that has seconds to go. Several timer goroutines after a fast Restart are one
  flag. Extra heartbeat loops only send more often, which `SendHeartbeats`
  allows anyway.
* `nextIndex` and `matchIndex` of a node that never led are absent maps, read
  as 0.
* Left out: events, messages of errors, durations, the getters.

### The log as a slice

`LogArray` keeps the arrays that `r.log.Entries` has pointed to and the length
of the slice. `append` writes into the array while there is room and else copies
into one of twice the capacity (`cap`: 1, 2, 4, 8); `TruncateFrom` only
shortens. A call holds a slice (`next`, `held`) and `Marshal` reads it, one
element a step, whenever it likes. The node itself starts commands when it leads, and merges
the entries of another leader (`rival`), one iteration of the loop a step, with
`r.mu` held (`Unlocked`). The rival's log agrees with the node's up to some
index and then has entries of terms above the node's own. `LogMatching` leaves
more possible, entries of lower terms that this node never held there; the loop
asks only whether two terms differ, so the higher ones stand for those too. The
rival's calls come early, late or again. An element is read and written whole:
what a torn read could send is left out.

### The server

`KVCluster` extends `Raft`. `RaftStep(A)` takes a step `A` of Raft with
`Stores`: the commands the step applies go into the store of their node, in
order. A store has one writer, since `applyCommitted` holds `r.mu` while it
waits for the WAL, so the batches of `WAL` have one record, and the WAL is
`journal`, the sequence of its records. `Fates` says what becomes of a command:
`ok`, or refused with the record in the file (`kept`: the Sync failed) or not
(`lost`: the Write failed, or the WAL was closed). After a number that was never
answered applyOrdered waits for ever (`gap`).

| Action | Code |
|---|---|
| `Route`, `Propose`, `Answer` | kvHandler up to the choice of the node, `KVNode.Set` or `Delete` up to the return of `Start`, `LeaderID` and the answer |
| `Kill` | the kill handler |
| `Halt`, `CloseWAL` | main after SIGTERM, node by node |
| `CrashAndStart` | the end of the process at any moment, or after the shutdown, and main again |

`Route` may choose any running node: the nodes are asked one after the other,
each with its own lock. `Map(i)` is `DurableMap` for node i, whose `MapOf` says
what map a WAL gives at the next start. `Agreed` is `AgreedLog`: one sequence of
commands that only grows (here what the node that has been given most has been
given), each node given a prefix of it, all of it forgotten when the process
ends. Restart is left to `Raft`: it touches no
store, and with it a node may apply what no leader was told
(`raft_double_vote`). Bytes of a record that a crash cuts are `WAL`'s matter.

### Write-ahead log and store

`WAL` has one step per lock, send, receive, write and sync. `mu` names the
writer that holds `w.mu` while it waits for room in the queue. The file is a
sequence of entries, whole or cut in their length field ("header") or later
("body"); `synced` is how many are stable. `Crash` keeps a prefix of the file
that contains the synced part, and may cut the first entry lost (`CrashTears`
says where); it assumes that unsynced bytes are not lost out of order. A Write
that fails may leave a cut record too (`WriteTears`), in the middle of the file
as soon as another batch follows. `Open` and `OpenFails` are Open with Replay.
The answers of a batch are one step (a send to a done channel never blocks).
The encoding never fails and is left out with the statistics.

`Store` takes the steps of `WAL` and adds what the caller does with them:
`Set` and `Delete` (whose bodies `ApplyPut` and `ApplyDelete` share),
`applyOrdered` in three kinds of steps, since it takes `s.mu` anew for each
record and a Get may come in between, and `New` after a crash. The result of
Delete is not modelled.

`DurableMap` says what the two promise together: a journal that only grows and
a map that shows a prefix of it. The refinement takes as journal the whole
records of the synced file (`RecordsOf`), and as `shown` the replayed ones and those applied
since. It is checked, and proved (section 4), with failing writes and syncs and one crash. It does not
say how far the map has got: `QuietIsApplied` says that whoever leaves
applyOrdered last leaves nothing behind.

### Event bus

Publish appends and copies the subscriber list in one critical section, and
then sends to the copy, one subscriber per step and in any order. The SSE
handler subscribes first and reads the window second. A send on a channel that
was closed meanwhile sets `panicked`, after which the process takes no step.

## 3. Runs

Deadlock is not checked: bounds, kills and the end of the process stop these
systems legitimately, and the liveness properties say where they may not stop.

| Run | Instance | Distinct states | Shows |
|---|---|---|---|
| `raft_elections` | 3 nodes, 2 candidates, 2 terms, 2 calls of a kind under way, no commands | 0.8 M | `ElectionSafety`, `VotesAreKept`, `VoteKept`, `ElectionAhead`, `TypeOK` |
| `raft_replication` | 1 candidate, 1 term, 2 entries, 2 calls under way, two nodes killed and restarted | 3.3 M | `MatchIsHeld`, `AppliedExactly`, `CommittedIsKept` |
| `raft_three_terms` | 2 candidates, 3 terms, 2 entries, 2 commands, one call at a time | 3.6 M | `IndexIsPosition`, `LogMatching`, `LeaderCompleteness`, `StateMachineSafety` |
| `raft_log_merge` | logs of 3 entries, 3 terms, 2 calls under way | 1.2 M | `LoopIsMerge`, `SentInTerm`, `InOrder` |
| `wal_commit` | 2 writers, queue of 1, 2 calls per start, failures with and without a cut record, Close, one crash with cut records | 26 k | `OneAnswer`, `FileInOrder`, `NoSendOnClosed`, `AppendReturns`, `CloseReturns`, `TypeOK` |
| `store_map` | 3 writers, queue of 1, 2 values, 2 calls per start, failures, Close, one crash with cut records | 317 k | `ImplementsDurableMap`, `QuietIsApplied`, `AckedIsReplayed`, `TypeOK` |
| `kv_cluster` | 3 nodes, 2 candidates, 2 terms, 2 commands on 2 keys, one node killed and with a failing WAL, shutdown, one crash | 1.0 M | `NoHoles`, `StoresAgree`, `ImplementsAgreedLog`, `AppliedWhereAccepted`, `LeaderNamed` |
| `events_stream` | 2 nodes, 2 clients, window of 2, channels of 1, 3 events | 316 k | `NothingMissed`, `PublishReturns`, `TypeOK` |

Why the bounds are enough for what is asked: three nodes have majorities that
meet in one node; two candidates in two terms give a stale vote, a stale
heartbeat and a stale reply; two heartbeats under way overtake each other; two
entries give a log that is longer but older. Three entries fill arrays of one
and two and leave room in one of four, so that an append after a truncation
writes into an array that a call still reads. In `wal_commit` one writer fills
the queue and the other waits for room with `w.mu` held; both records may also
get into one batch and fail half-way. In `store_map` the records reach
`applyOrdered` in either order, from one batch or two, with or without a gap
where the first should be, and again after the crash. Larger instances take
longer and hold as well: three calls per start in both, and three writers with
a queue of two in `wal_commit`. Three events overrun a window of 2 and a
channel of 1. In `kv_cluster` two commands are enough for a
hole (the second without the first) and for a command at another index.

Symmetry is used where nodes that may elect, writers, keys and commands are
interchangeable, and in no run with a liveness property. `OneAtATime` and
`Slow` only remove behaviours. `Slow` plays `kv_cluster` one call and one
request at a time, and after a kill or a crash with one term and one write
(after a crash also with one candidate, and up to the first write that fails);
how calls overtake each other is the matter of the Raft runs.

### What the code does not do

Four runs expect a violation:

* `raft_double_vote`: Restart forgets the vote but keeps the term. A node that
  is killed and restarted between two requests votes twice, and a term gets two
  leaders.
* `raft_old_term_commit`: `updateCommitIndex` commits an entry of an old term
  by counting its copies. Over four terms it can be overwritten after it was
  applied, and two nodes apply different commands at one index. With three
  terms this cannot happen: `raft_three_terms` shows it, and section 4 proves it
  for every cluster.
* `raft_log_race`: a leader makes a call, is deposed, and merges its
  successor's entries before the call is encoded. The call carries the
  successor's entries under the old term, because both slices share an array.
* `wal_after_short_tail`: Replay tolerates a short tail and leaves it in the
  file. Records appended after it are acknowledged and lost at the next start.

Other behaviour that the properties exclude by name, or that the models show
when a bound or constant is changed:

* A leader whose election timer fires has no timer afterwards. When it steps
  down for a higher term that it sees in a reply or in a vote request it
  refuses, it starts no election until it grants a vote or follows a heartbeat,
  which set the timer again (`ElectionAhead` is about nodes that have not led).
* `StartElection` and `VoteReply` of a killed node still happen.
* A PUT is answered with "accepted" when it is in the leader's log. It may be
  overwritten by a later leader and never applied; `docs/raft_overview.md:25-28`
  puts the answer after the commitment. `AppliedWhereAccepted` is about the
  commands that are applied.
* `src/README.md:235` says that a crash in the middle of a write does not prevent
  the recovery of all prior records. A tail of one to three bytes makes
  `binary.Read` return `io.ErrUnexpectedEOF`, which Replay takes for the end of
  the log only behind the length (`wal.go:230`) and returns as an error here
  (`wal.go:223`); after four bytes `io.ReadFull` returns `io.EOF`, which it
  returns too. The log, and with it the server, does not start again. The models
  take this step (`OpenFails`, in `wal_commit` and `store_map`, whose crashes
  leave such tails), and no property says that it does not happen:
  `AckedIsReplayed` is about a log that opens.
* After the process has crashed the Raft logs start empty on stores that hold
  what each had got. Stores that were different stay different, and nothing
  compares them: `StoresAgree` is about stores that started alike.
* With `QueueCap` + 2 writers, one holds `w.mu` and waits for room while the
  commit goroutine waits for `w.mu`: `AppendReturns` fails. The code's queue
  has room for 1024, and in the server each log has one writer; the package
  allows more.
* Close while a batch is collected, or while requests are still queued: once
  they are taken the closed queue is always ready, the goroutine collects zero
  requests for ever, Close does not return (`committer = "spinning"`).
* A failed batch leaves a gap in the numbers, and no later record is applied
  until the process restarts.
* A Set may return before its record is in the map.
* A client that disconnects while a node publishes to it causes a panic.

### Fairness

Safety runs assume none. `WAL!LiveSpec` (`wal_commit`) assumes weak fairness of
every goroutine that can run, which the Go scheduler provides, and strong
fairness of the steps that take the mutex, since `sync.Mutex` hands the lock to
a waiter that has been overtaken for a millisecond. Nobody has to call Append or
Close. `EventBus!LiveSpec` (`events_stream`) assumes only that a node inside
Publish goes on; clients may be arbitrarily slow. Raft liveness is not claimed:
two candidates may split their votes for ever, and a leader that has stepped
down may be the only one left with the longest log and without a timer.

## 4. Proofs

All theorems hold for every value of the constants that the named assumptions
allow: every set of nodes, writers or clients, every number of terms, entries,
calls, events and crashes.

| Theorem | States | Assumes | Inductive invariant |
|---|---|---|---|
| `RaftProofs`: `TypeCorrect`, `PositionsCorrect`, `ApplicationCorrect` | `TypeOK`, `IndexIsPosition`, `AppliedExactly` | | `TypeInv` |
| `ElectionAheadCorrect` | `ElectionAhead` | | with `TimerInv` |
| `VotesCorrect`, `VoteKeptCorrect`, `ElectionsCorrect` | `VotesAreKept`, `VoteKept`, `ElectionSafety` | `NoRestart` | with `VoteInv` |
| `LogMatchingProofs`: `LogsMatch` | `LogMatching` | `NoRestart` | with `VoteInv`, `MatchInv` |
| `MatchCorrect` | `MatchIsHeld` | `NoRestart` | with `HoldInv` |
| `CompletenessCorrect` | `LeaderCompleteness` | `NoRestart` | `RaftInv`, `BoundInv`, `KeptState` |
| `StateMachinesAgreeThreeTerms`, `CommittedStaysThreeTerms` | `StateMachineSafety`, `CommittedIsKept` | `NoRestart`, `MaxTerm <= 3` | `RaftInv`, `BoundInv`, `CommitState` |
| `LogArrayProofs`: `MergeCorrect`, `SentCorrect` | `LoopIsMerge`, `SentInTerm` | | `Inv` (`LogInv`, `CallInv`) |
| `InOrderCorrect` | `InOrder` | | with `OrderInv` |
| `WALProofs`: `TypeCorrect`, `OneAnswerCorrect`, `FileInOrderCorrect`, `NoSendOnClosedCorrect` | `TypeOK`, `OneAnswer`, `FileInOrder`, `NoSendOnClosed` | | `LogInv` |
| `AckedIsReplayedCorrect` | `AckedIsReplayed` | `CutOnce` | with `CutInv`, `DurableInv` |
| `StoreProofs`: `TypeCorrect`, `QuietCorrect` | `TypeOK`, `QuietIsApplied` | | `StoreInv` |
| `AckedCorrect`, `MapCorrect` | `AckedIsReplayed`, `ImplementsDurableMap` | `CutOnce` | with `DiskInv` |
| `KVClusterProofs`: `NamedCorrect` | `LeaderNamed` | | `LeaderInv` |
| `AcceptedCorrect` | `AppliedWhereAccepted` | | `AcceptInv` |
| `StoresCorrect` | `NoHoles` | | `TypeInv` with `StoreInv` |
| `StoresAgreeThreeTerms`, `AgreedLogThreeTerms` | `StoresAgree`, `ImplementsAgreedLog` | `NoRestart`, `MaxTerm <= 3` | `NodesInv` with `StoreInv` |
| `EventBusProofs`: `TypeCorrect`, `NothingMissedCorrect` | `TypeOK`, `NothingMissed` | | `BusInv` |

**Raft.** `TypeInv` joins `TypeOK`, `IndexIsPosition` and `AppliedExactly`.
They need each other: merging keeps positions only because the entries of a
message continue `prevLogIndex`, and `applyCommitted` skips nothing only because
the commit index never exceeds what was applied.

`VoteInv` is `VotesAreKept` over all terms. A vote is tracked from the reply
through the candidate's count to the election it won (`VoteIsFor`): its giver
is in that term or a later one and, if in that term, still knows its candidate.
Two elections of one term have majorities that share a node (`MajoritiesMeet`),
which voted for both winners, so they are one. `ElectionSafety` alone is not
inductive, because it says nothing about votes that are still under way.
`NoRestart`, which is `Restartable = {}`, is needed: `raft_double_vote` is the
counterexample.

`TimerInv` adds to `ElectionAhead` that every leader is in the history of
elections: only a leader's timer is spent without an election.

`LogMatching` says nothing of calls under way and compares whole prefixes, so
it is not inductive. `MatchInv` is about *links*: an entry with the term of the
entry before it, in a log or in a call. Index and term of an entry determine its
link (`OneLink`); a merge makes no link that was not there, and only a leader
makes a new one, of an index its term does not have yet (`FreshInv`), since its
term has one leader (`ElectionSafety`). Two logs with a link in common have the
one before in common, down to the first.

`MatchIsHeld` speaks of the leader's own figures, which come from calls under
way. `HoldInv` therefore speaks of these: a request is a part of its leader's
log (`Slice`), a successful reply names entries that the peer holds (`Held`),
and so does `matchIndex`, all for as long as the leader leads the term of the
call. A late or shorter call does not undo this, because a merge cuts nothing
where the two logs agree, and in that term only the same leader's calls get in.

`LeaderCompleteness`, `StateMachineSafety` and `CommittedIsKept` compare leaders
of different terms, of which only the last need still be there. The proofs
speak of the log of *every* term's leader: in each reachable state there is a
*history* (`History(L)`), with `L[t]` the log of the leader of term t as far as
it got. Every log, every `L[t]` and every call is made of prefixes of them: an
entry of term s at index k has before it what `L[s]` has (`FromLeaders`,
`SliceOf`). A step extends the history (`HistoryStep`): only a leader that wins
or appends changes its term's log, and what a merge puts together shares with
`L` what it must (`MergeShares`). `L` is not a variable but a witness of the
invariant (`KeptState`, `CommitState`), so `Raft` has no history added for it.

`KeptInv(L)` says what a leader of term T may count on. Q are the nodes that
have acknowledged its entry k (`Acked`). If all of a majority are in Q or have
not gone beyond T (`Backed`), the entry is there for good *or may yet be*
(`Chosen`), and it is kept (`KeptFor`): the leaders of later terms have it, those
in Q have it, and a candidate with the vote of one in Q is not behind it
(`VoteCallInv` says that a vote request names the end of its candidate's log).
When a candidate wins, its voters share a node with the majority; that node is
past T now, so it is in Q, and its vote says that the winner's log is not behind
the entry. A log that is not behind an entry of term s ends with an entry of
term s or of a later one. In the first case it has `L[s]` up to there. In the
second that term has a leader that came after s; if it is after T, it has the
entry by induction, and if it is T, its log is the one with the entry. Between
s and T nothing is known, and this is where the code goes wrong. `MayRely` is
therefore the condition of the whole argument: s is T (which is what Raft asks
for), or T - 1 (no term lies between), or T is the last term of all.
An entry that is only just appended can be chosen only if nobody has won a
later term, since the voters of a later term are past this one.

`CommitInv(L, D)` says that all commit indexes, of nodes and in calls, rest on
*marks*: `D[T]` are indexes that the leader of term T found on a majority, and
they are `Durable` (a majority holds them, and `KeptFor`). A commit index c of a
log is `Known` if the log shares its first c entries with `L[T]`, for a mark of
T at or after c. Two marks of different terms lie in one log, the later
leader's, so any two nodes have the same committed entries (`MarksAgree`,
`CommitSafe`); a later mark never takes one back, since the leader whose call
a node merges has every earlier one (`CommitKeeps`).

`updateCommitIndex` asks only for a majority. What that guarantees in any number
of terms is `LeaderCompleteness`, which is about entries of the leader's own
term and of the term before. What is committed may be older, so
`StateMachineSafety` and `CommittedIsKept` hold up to `MaxTerm = 3` only: of
three terms, an entry two terms old belongs to the first and is counted in the
last (`FewAreSafe`), after which there is no leader to lose it. The bound is
sharp, because `raft_old_term_commit` needs a fourth. `NoRestart` is needed as
for votes.

**The log as a slice.** `LogInv` joins the types and `LoopIsMerge`: after each
iteration the slice is `MergeEntries` of the log before the call and the entries
taken so far. `CallInv` says that while the node is in the term of a call it
leads, so nobody merges, and that what the call holds is still in its array, in
front of the end of the slice if that array is the one in use: appends go behind
it. `OrderInv` adds to `InOrder` that the rival's log is ordered, and so is what
is merged of it, and that the entry the loop is at *joins* the log: the one
before it is there, with no higher term. For the first entry the comparison of
the previous term gives this, for each further one the iteration before.

**The server.** One induction per property, on Raft's `TypeInv`; the first
three need no condition, not even one leader per term. `LeaderInv`: a leader, and the sender of every heartbeat, is in
the history of elections, so `leaderID` only ever changes to a winner of the
same or a later term. `AcceptInv`: whatever is in a log, a call or `applied` at
an index was accepted from some client at that index (over the links of
`MatchInv`, which a merge only removes or takes over). `StoreInv`: a store shows
what its node had at the start and a prefix of what it has applied since, its
WAL begins with that, and without a gap both are all of it.

`NodesInv` is `RaftInv`, `BoundInv` and `CommitState`, taken over to the server:
each of its steps is one of `Next`, or a Stop of any node, of which the invariant
says nothing (`NodesSame`), or a start from `Init` after a crash
(`NodesCases`). With `StoreInv` it gives `StoresAgree`: nodes that have been
given as much have been given the same, so stores that started alike and have
no gap hold the same map and the same WAL. `ImplementsAgreedLog` maps a step
that applies commands to `Give`, a crash to `Forget`, and the others to stutters.
The terms begin again at 0 with each start of the process, so the bound of three
is one for each run of it.

**Write-ahead log.** `LogInv` follows a request through its places. `PlaceInv`:
what is in the queue or the batch is what its writer waits for, and a writer
that waits for nothing under way has its answer. `OrderInv`: numbers increase
from the file through the rest of the batch and the queue to the writer that
holds `w.mu`, across failed writes, which leave gaps only. `DurableInv` adds that
what was acknowledged stands whole in the synced part of the file, and `CutInv`
where a cut record may be: at the end of what was replayed, after the last
crash. It assumes `CutOnce`: a failing Write leaves no part of a record, and
crashes cut none unless there is only one of them. Any number of crashes that
cut nothing is covered, and one that cuts in either place. The assumption is
needed: `wal_after_short_tail` is the counterexample.

**Store.** `StoreProofs` takes over the theorems of `WALProofs`
(`LogP == INSTANCE WALProofs`): each step of the store is a step of its log or
leaves the log alone. `StoreInv` follows a number from the call of Append that
takes it, through the answer, to `pending` and `applyOrdered`: it is in one place
(`NumberInv`), an answered one is with a writer that knows it, kept, or applied
(`AnswerInv`), and when nobody holds `applyMu` nothing waits whose turn it is.
That gives `QuietIsApplied`, with failing batches and cut records. `DiskInv`
relates it to the file: the records of this start stand behind the replayed
ones (`RunsInv`), those applied at the places of their numbers (`ShownInv`), and
those still to be applied in the synced part (`ToApplyInv`), with each batch as
far as it is written in the file (`WrittenInv`). The record of number n is then
the entry `Old + n` of the file, and each step maps to one of `DurableMap`: a
Sync to `Persist`, and a Crash that leaves more of the file than was synced;
`ApplyNext` to `Show`; `New` to `Recover`; the others to stutters. The map is the last write of each key; that its
update is what one more record does to it is in `PositionsProofs`, with the
lemmas about the positions of whole records in the file. `MapCorrect` assumes
`CutOnce`, which the instance of `store_map` meets.

**Event bus.** `BusInv` adds to `NothingMissed` and the types that who is
caught up, or about to be, is in the list of subscribers: then an event that
enters the window while a client connects is also on its way to it.

Only model-checked, within the bounds of their runs:

* `CommittedIsKept` with restarts (`raft_replication`). What is proved of
  commitment assumes `NoRestart` and `MaxTerm <= 3`. Without the first the
  properties rest on bounds under which no vote is given twice; beyond three
  terms `StateMachineSafety` is false (`raft_old_term_commit`).
* `AckedIsReplayed` and `ImplementsDurableMap` outside `CutOnce`. The
  first is false there (`wal_after_short_tail`).
* Liveness (`AppendReturns`, `CloseReturns`, `PublishReturns`): temporal proofs
  under fairness need ENABLED, which the prover does not handle.

No module uses RECURSIVE.

## 5. Not modelled, and the plan

Not modelled, and why:

* JSON, HTTP and CORS, parsing of requests and the texts of answers: formats
  without state of their own.
* GET, the status handlers, getters and statistics: they read under one lock and
  change nothing.
* The bytes of a record. The CRC is taken to detect what it covers; a cut record
  is known by where it was cut.
* The value Delete returns, which is computed before its record is appended. The
  Raft path uses ApplyDelete, which returns none.
* Restarts inside `KVCluster` (they are in `Raft`), and torn reads of an entry
  in the race of `LogArray`.
* `snapshot` (an empty package), `mock_transport.go` (a test stub) and the
  dashboard (it only displays).

Left of the plan, in this order, for TLC:

1. Liveness of Raft, under the assumption that nobody who has led steps down;
   without it the code does not have it (section 3).
2. `AgreedLog` with restarts of nodes, which needs a run of the process in which
   no node is restarted between two vote requests of one term.
