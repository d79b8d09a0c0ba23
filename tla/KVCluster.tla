------------------------------ MODULE KVCluster ------------------------------
(***************************************************************************)
(* The server (cmd/server): Raft nodes in one process, each with the store *)
(* its committed commands go into (raft.KVNode), and the HTTP API through  *)
(* which clients write and the operator kills nodes (internal/httpapi).    *)
(* Every step of Raft is taken together with what it does to the stores.   *)
(*                                                                         *)
(* applyCommitted calls the store with r.mu held and waits until the WAL   *)
(* has answered, so a node's store has one writer: its WAL is the sequence *)
(* of the records in the file (journal), and whether a record that the     *)
(* store was refused is in the file or not is decided by fate.  The errors *)
(* are dropped by NewKVNode.                                               *)
(***************************************************************************)
EXTENDS Raft, Positions

CONSTANTS
    Key, Value,
    Failing,    \* nodes whose WAL may fail to write or to sync
    MaxCrashes  \* bound: crashes of the process

ASSUME KVClusterAssumption ==
    /\ Node # {}
    /\ None \notin Value
    /\ \A c \in Command : c.key \in Key /\ c.value \in Value \cup {None}
    /\ Failing \subseteq Node
    /\ MaxCrashes \in Nat

VARIABLES
    journal,  \* the records in each node's WAL
    data,     \* each store's map
    gap,      \* a number of the WAL that never reached applyOrdered
    exit,     \* how far main has got with each node at SIGTERM
    request,  \* each client's PUT or DELETE
    base,     \* history: what New replayed when the process started
    crashes   \* history: crashes so far

storeVars == <<journal, data, gap>>
processVars == <<exit, base, crashes>>
kvVars == <<vars, storeVars, request, processVars>>

Map(i) == INSTANCE DurableMap WITH journal <- journal[i], data <- data[i],
                                   shown <- Len(journal[i])

\* A client sends one command while the process runs; a delete has no value.
Client == {c.client : c \in Command}

NoRequest == [stage |-> "none", node |-> None, index |-> 0, term |-> 0]

-----------------------------------------------------------------------------
(* The stores.                                                             *)

\* What becomes of a command that reaches the store: the WAL answers without
\* an error, or fails with the record in the file or not.  A WAL that is
\* closed refuses it; it takes no number, but nothing follows it either.
Fates(i) ==
    IF exit[i] = "closed" THEN {"lost"}
    ELSE IF i \in Failing THEN {"ok", "kept", "lost"}
    ELSE {"ok"}

\* Mutant of Shown: a number that was never answered is skipped.
ShownWithHoles(i, fate) == {k \in DOMAIN fate : fate[k] = "ok"}

\* The new commands that get into the map: those before the first number that
\* never reaches applyOrdered.
Shown(i, fate) ==
    {k \in DOMAIN fate : ~gap[i] /\ \A q \in 1 .. k : fate[q] = "ok"}

\* applyFunc on node i, for the commands this step applies.
StoreFollows(i, new) ==
    \E fate \in [1 .. Len(new) -> Fates(i)] :
        LET shown == Only(new, Shown(i, fate))
            on(k) == {q \in DOMAIN shown : shown[q].key = k}
        IN  /\ journal' = [journal EXCEPT ![i] = @ \o
                             Only(new, {k \in DOMAIN new : fate[k] # "lost"})]
            /\ gap' = [gap EXCEPT ![i] =
                         @ \/ \E k \in DOMAIN fate : fate[k] # "ok"]
            /\ data' = [data EXCEPT ![i] = [k \in Key |->
                         IF on(k) = {} THEN @[k]
                         ELSE LET last == CHOOSE q \in on(k) :
                                            \A p \in on(k) : p <= q
                              IN  shown[last].value]]

\* A step of Raft applies commands on one node at most.
Stores ==
    IF applied' = applied THEN UNCHANGED storeVars
    ELSE \E i \in Node :
            /\ applied'[i] # applied[i]
            /\ StoreFollows(i, SubSeq(applied'[i], Len(applied[i]) + 1,
                                      Len(applied'[i])))

RaftStep(A) == A /\ Stores /\ UNCHANGED <<request, processVars>>

-----------------------------------------------------------------------------
(* The API.                                                                *)

\* kvHandler has chosen the node: a leader that it found in its scan, or
\* else the first one alive.  The nodes are asked one after the other, so
\* that any running node may be the outcome.
Route(c, i) ==
    /\ request[c.client].stage = "none"
    /\ ~stopped[i]
    /\ request' = [request EXCEPT ![c.client] =
                     [stage |-> "routed", node |-> i, index |-> 0, term |-> 0]]
    /\ UNCHANGED <<vars, storeVars, processVars>>

\* KVNode.Set and Delete up to the return of Start.
Propose(c) ==
    LET r == request[c.client]
    IN  /\ r.stage = "routed"
        /\ \/ /\ Start(r.node, c)
              /\ request' = [request EXCEPT ![c.client] =
                               [r EXCEPT !.stage = "accepted",
                                         !.index = Len(log'[r.node]),
                                         !.term  = currentTerm[r.node]]]
           \/ /\ state[r.node] # Leader
              /\ request' = [request EXCEPT ![c.client].stage = "refused"]
              /\ UNCHANGED vars
        /\ UNCHANGED <<storeVars, processVars>>

\* Mutant of NamedLeader: the node's own state is asked.
NamedIfLeading(i) == IF state[i] = Leader THEN i ELSE None

\* The leader_id of an answer: LeaderID takes r.mu again.
NamedLeader(i) == leaderID[i]

\* The answer, with 200 or 307; a client that was refused may try again.
Answer(c) ==
    LET r == request[c.client]
    IN  /\ r.stage \in {"accepted", "refused"}
        /\ request' = [request EXCEPT ![c.client] =
                         IF r.stage = "refused" THEN NoRequest
                         ELSE [r EXCEPT !.stage = "done"]]
        /\ UNCHANGED <<vars, storeVars, processVars>>

\* The kill handler looks whether the node is stopped and then calls Stop,
\* which looks again.  Restart touches no store and is left to Raft.
Kill(i) == RaftStep(Stop(i))

-----------------------------------------------------------------------------
(* The process.                                                            *)

\* main: every store is what its WAL holds, and every Raft node is new.
KVInit ==
    /\ Init
    /\ journal = [i \in Node |-> <<>>]
    /\ base    = journal
    /\ data    = [i \in Node |-> [k \in Key |-> None]]
    /\ gap     = [i \in Node |-> FALSE]
    /\ exit    = [i \in Node |-> "no"]
    /\ request = [cl \in Client |-> NoRequest]
    /\ crashes = 0

\* SIGTERM: main stops one node after the other, and then closes one WAL
\* after the other, while calls are under way and the API still answers.
Halt(i) ==
    /\ exit[i] = "no"
    /\ Stop(i)
    /\ exit' = [exit EXCEPT ![i] = "stopped"]
    /\ UNCHANGED <<storeVars, request, base, crashes>>

CloseWAL(i) ==
    /\ exit[i] = "stopped"
    /\ \A j \in Node : exit[j] # "no"
    /\ exit' = [exit EXCEPT ![i] = "closed"]
    /\ UNCHANGED <<vars, storeVars, request, base, crashes>>

\* The process ends, at the end of main or before, and is started again.  What
\* a crash leaves of a step under way is what a failing WAL leaves of it.
CrashAndStart ==
    /\ crashes < MaxCrashes
    /\ crashes' = crashes + 1
    /\ base'    = journal
    /\ data'    = [i \in Node |-> Map(i)!MapOf(journal[i])]
    /\ gap'     = [i \in Node |-> FALSE]
    /\ exit'    = [i \in Node |-> "no"]
    /\ request' = [cl \in Client |-> NoRequest]
    /\ currentTerm' = [i \in Node |-> 0]
    /\ state'       = [i \in Node |-> Follower]
    /\ votedFor'    = [i \in Node |-> NoVote]
    /\ leaderID'    = [i \in Node |-> None]
    /\ log'         = [i \in Node |-> <<>>]
    /\ commitIndex' = [i \in Node |-> 0]
    /\ lastApplied' = [i \in Node |-> 0]
    /\ nextIndex'   = [i \in Node |-> [j \in Node |-> 0]]
    /\ matchIndex'  = [i \in Node |-> [j \in Node |-> 0]]
    /\ votes'       = [i \in Node |-> {}]
    /\ timer'       = [i \in Node |-> TRUE]
    /\ electing'    = [i \in Node |-> FALSE]
    /\ stopped'     = [i \in Node |-> FALSE]
    /\ voteReqs' = {} /\ voteReps' = {} /\ appendReqs' = {} /\ appendReps' = {}
    /\ applied'     = [i \in Node |-> <<>>]
    /\ elections'   = {}
    /\ UNCHANGED journal

-----------------------------------------------------------------------------
KVNext ==
    \/ \E i \in Node : RaftStep(TimerFires(i))
    \/ \E i \in Node : \E S \in SUBSET Peers(i) :
          RaftStep(StartElection(i, S)) \/ RaftStep(SendHeartbeats(i, S))
    \/ \E m \in voteReqs : RaftStep(RequestVote(m))
    \/ \E m \in voteReps : RaftStep(VoteReply(m))
    \/ \E m \in appendReqs : RaftStep(AppendEntries(m))
    \/ \E m \in appendReps : RaftStep(AppendReply(m))
    \/ \E i \in Killable : Kill(i)
    \/ RaftStep(RPCFails)
    \/ \E c \in Command : \/ \E i \in Node : Route(c, i)
                          \/ Propose(c) \/ Answer(c)
    \/ \E i \in Node : Halt(i) \/ CloseWAL(i)
    \/ CrashAndStart

KVSpec == KVInit /\ [][KVNext]_kvVars

-----------------------------------------------------------------------------
(* Properties.                                                             *)

\* A store shows the commands its node has applied up to some point, after
\* those it started with, and all of them are in its WAL: a write that failed
\* leaves no hole in the map but stops it for good, and without one the map
\* has them all (kv_node.go:11-19, store.go:92-119).
NoHoles ==
    \A i \in Node : \E n \in 0 .. Len(applied[i]) :
        LET shown == base[i] \o SubSeq(applied[i], 1, n)
        IN  /\ data[i] = Map(i)!MapOf(shown)
            /\ Map(i)!Extends(journal[i], shown)
            /\ ~gap[i] => n = Len(applied[i])

\* Two stores that started with the same records, have been given as many
\* commands since and have failed to write none hold the same map, and the same
\* records in their WALs (kv_node.go:10-25, node.go:235-248).
StoresAgree ==
    \A i, j \in Node :
        base[i] = base[j] /\ lastApplied[i] = lastApplied[j] /\ ~gap[i] /\ ~gap[j]
        => data[i] = data[j] /\ journal[i] = journal[j]

\* The commands of the node that has been given most.
Furthest ==
    CHOOSE s \in {applied[i] : i \in Node} : \A i \in Node : Len(applied[i]) <= Len(s)

Agreed == INSTANCE AgreedLog WITH agreed <- Furthest, given <- applied

\* The nodes of one process agree on one sequence of commands: no step changes
\* what some node has been given, and a node is only ever given the next part
\* of it (node.go:213-248, append_entries.go:98-108).
ImplementsAgreedLog == Agreed!Spec

\* A command that a node has applied was accepted, it stands at the index its
\* client was told, and no node has it twice; a refused one is nowhere
\* (kv_node.go:27-37, handler.go:129-145).
AppliedWhereAccepted ==
    \A i \in Node : \A k \in 1 .. Len(applied[i]) :
        LET r == request[applied[i][k].client]
        IN  r.stage \in {"accepted", "done"} /\ r.index = k

\* The leader named with an accepted command, read after r.mu was released,
\* has won an election in the term of the command or a later one
\* (kv_node.go:27-37).
LeaderNamed ==
    \A cl \in Client : request[cl].stage = "accepted" =>
        \E e \in elections : /\ e.leader = NamedLeader(request[cl].node)
                             /\ e.term >= request[cl].term
=============================================================================
