-------------------------------- MODULE Raft --------------------------------
(***************************************************************************)
(* The Raft core of the key-value store (internal/raft): leader election,  *)
(* log replication, commitment and application on a fixed set of nodes     *)
(* that call each other over HTTP, with the Stop and Restart the operator  *)
(* can ask of a node.  Every step below is one critical section of r.mu;   *)
(* what the code reads before it unlocks and uses afterwards (the election *)
(* timer's state check, the arguments a call was made with) is kept in     *)
(* between.                                                                *)
(*                                                                         *)
(* A call is made by a goroutine of its own and returns once at most: the  *)
(* request waits in voteReqs or appendReqs until the peer handles it, the  *)
(* reply in voteReps or appendReps until the caller does, in any order, or *)
(* the call fails (RPCFails).  A reply carries what the goroutine kept of  *)
(* the arguments.                                                          *)
(***************************************************************************)
EXTENDS RaftLog, FiniteSets

CONSTANTS
    Node,        \* the cluster (peers is the same map on every node)
    None,        \* the -1 of votedFor and leaderID
    Command,     \* client commands
    Electors,    \* nodes whose election timer may expire
    Killable,    \* nodes that may be stopped
    Restartable, \* nodes that may be restarted once stopped
    MaxTerm,     \* bound: no election starts beyond this term
    MaxLog,      \* bound: no command is accepted by a log of this length
    MaxInFlight  \* bound: calls of each kind that are under way at once

ASSUME RaftAssumption ==
    /\ IsFiniteSet(Node)
    /\ None \notin Node
    /\ Electors \subseteq Node
    /\ Killable \subseteq Node
    /\ Restartable \subseteq Node
    /\ MaxTerm \in Nat
    /\ MaxLog \in Nat
    /\ MaxInFlight \in Nat

Follower  == "follower"
Candidate == "candidate"
Leader    == "leader"

VARIABLES
    currentTerm, state, votedFor, leaderID,  \* the fields of RaftNode
    log, commitIndex, lastApplied,
    nextIndex, matchIndex,
    votes,       \* peers (and self) whose vote startElection's goroutines counted
    timer,       \* the election timer is running
    electing,    \* the timer goroutine is about to call startElection
    stopped,     \* stopCh is closed
    voteReqs, voteReps, appendReqs, appendReps,
    applied,     \* history: the commands given to applyFunc, in order
    elections    \* history: the elections won, with the votes that won them

termVars   == <<currentTerm, state, votedFor>>
logVars    == <<log, commitIndex, lastApplied, applied>>
leaderVars == <<nextIndex, matchIndex>>
timerVars  == <<timer, electing>>
netVars    == <<voteReqs, voteReps, appendReqs, appendReps>>
vars == <<termVars, leaderID, logVars, leaderVars, votes, timerVars, stopped,
          netVars, elections>>

-----------------------------------------------------------------------------
Entry == [index : Nat, term : Nat, command : Command]

VoteReq == [src : Node, dst : Node, term : Nat,
            lastLogIndex : Nat, lastLogTerm : Nat]
VoteRep == [src : Node, dst : Node, reqTerm : Nat, term : Nat,
            granted : BOOLEAN]
AppendReq == [src : Node, dst : Node, term : Nat, prevLogIndex : Nat,
              prevLogTerm : Nat, entries : Seq(Entry), leaderCommit : Nat]
AppendRep == [src : Node, dst : Node, reqTerm : Nat, matched : Nat,
              term : Nat, success : BOOLEAN]

Peers(i) == Node \ {i}

\* Both majority tests of the code: votes >= len(peers)/2+1 and
\* count > len(peers)/2.
IsMajority(S) == Cardinality(S) > Cardinality(Node) \div 2

\* There is room for the calls of S beside those under way.
Room(reqs, reps, S) ==
    Cardinality(reqs) + Cardinality(reps) + Cardinality(S) <= MaxInFlight

-----------------------------------------------------------------------------
\* Mutant of NoVote: votedFor starts as the zero of its type instead of -1.
ZeroVote == 0

\* The -1 of votedFor in NewRaftNode.
NoVote == None

Init ==
    /\ currentTerm = [i \in Node |-> 0]
    /\ state       = [i \in Node |-> Follower]
    /\ votedFor    = [i \in Node |-> NoVote]
    /\ leaderID    = [i \in Node |-> None]
    /\ log         = [i \in Node |-> <<>>]
    /\ commitIndex = [i \in Node |-> 0]
    /\ lastApplied = [i \in Node |-> 0]
    /\ nextIndex   = [i \in Node |-> [j \in Node |-> 0]]
    /\ matchIndex  = [i \in Node |-> [j \in Node |-> 0]]
    /\ votes       = [i \in Node |-> {}]
    /\ timer       = [i \in Node |-> TRUE]
    /\ electing    = [i \in Node |-> FALSE]
    /\ stopped     = [i \in Node |-> FALSE]
    /\ voteReqs = {} /\ voteReps = {} /\ appendReqs = {} /\ appendReps = {}
    /\ applied     = [i \in Node |-> <<>>]
    /\ elections   = {}

-----------------------------------------------------------------------------
(* The election timer and elections.                                       *)

\* Mutant of ResetElectionTimer: the timer is stopped and not started again.
LeaveElectionTimer(i) == UNCHANGED timer

ResetElectionTimer(i) == timer' = [timer EXCEPT ![i] = TRUE]

\* The timer goroutine receives from the timer, which is then spent, and
\* looks at the state.  A leader goes back to waiting on the spent timer;
\* any other node goes on to startElection, after it has released r.mu.
TimerFires(i) ==
    /\ i \in Electors
    /\ timer[i] /\ ~electing[i] /\ ~stopped[i]
    /\ timer'    = [timer EXCEPT ![i] = FALSE]
    /\ electing' = [electing EXCEPT ![i] = state[i] # Leader]
    /\ UNCHANGED <<termVars, leaderID, logVars, leaderVars, votes, stopped,
                   netVars, elections>>

\* startElection asks nothing about the state again: the node may meanwhile
\* have become leader, followed another one or been stopped.  S are the
\* peers whose request leaves the node, the other calls fail at once.
StartElection(i, S) ==
    /\ electing[i]
    /\ currentTerm[i] < MaxTerm
    /\ Room(voteReqs, voteReps, S)
    /\ state'       = [state EXCEPT ![i] = Candidate]
    /\ currentTerm' = [currentTerm EXCEPT ![i] = @ + 1]
    /\ votedFor'    = [votedFor EXCEPT ![i] = i]
    /\ votes'       = [votes EXCEPT ![i] = {i}]
    /\ electing'    = [electing EXCEPT ![i] = FALSE]
    /\ ResetElectionTimer(i)
    /\ voteReqs'    = voteReqs \cup
         {[src |-> i, dst |-> j, term |-> currentTerm[i] + 1,
           lastLogIndex |-> LastIndex(log[i]),
           lastLogTerm  |-> LastTerm(log[i])] : j \in S}
    /\ UNCHANGED <<leaderID, logVars, leaderVars, stopped, voteReps,
                   appendReqs, appendReps, elections>>

\* Whether a node's handlers take a call: those of a stopped one refuse it,
\* and the caller's transport returns an error (RPCFails).  A Stop between the
\* handler's look and the method it calls is taken for one after the method.
Answers(i) == ~stopped[i]

\* Mutant of MayVoteFor: any candidate whose term is not old gets the vote.
VoteForAnyone(i, m) == m.term >= currentTerm[i]

\* Node i has not voted for another candidate in the term of the request m.
MayVoteFor(i, m) ==
    m.term > currentTerm[i] \/ votedFor[i] \in {None, m.src}

\* RequestVote: the handler of a vote request, on the peer.
RequestVote(m) ==
    LET i     == m.dst
        newer == m.term > currentTerm[i]
        grant == /\ m.term >= currentTerm[i]
                 /\ MayVoteFor(i, m)
                 /\ UpToDate(log[i], m.lastLogIndex, m.lastLogTerm)
    IN  /\ Answers(i)
        /\ currentTerm' = [currentTerm EXCEPT ![i] = IF newer THEN m.term ELSE @]
        /\ state'       = [state EXCEPT ![i] = IF newer THEN Follower ELSE @]
        /\ votedFor'    = [votedFor EXCEPT ![i] = IF grant THEN m.src
                                                  ELSE IF newer THEN None ELSE @]
        /\ IF grant THEN ResetElectionTimer(i) ELSE UNCHANGED timer
        /\ voteReqs'    = voteReqs \ {m}
        /\ voteReps'    = voteReps \cup
             {[src |-> i, dst |-> m.src, reqTerm |-> m.term,
               term |-> currentTerm'[i], granted |-> grant]}
        /\ UNCHANGED <<leaderID, logVars, leaderVars, votes, electing, stopped,
                       appendReqs, appendReps, elections>>

\* Mutant of Awaits: the term of the call is not compared.
AwaitsAnyTerm(i, role, term) == state[i] = role

\* A goroutine's first look at the node once its call has returned: it still
\* is what it was in the term of the call.
Awaits(i, role, term) == state[i] = role /\ currentTerm[i] = term

\* A node that hears of a later term from a reply.
StepDown(i, term) ==
    /\ currentTerm' = [currentTerm EXCEPT ![i] = term]
    /\ state'       = [state EXCEPT ![i] = Follower]
    /\ votedFor'    = [votedFor EXCEPT ![i] = None]

\* becomeLeader, inside the goroutine that counted the deciding vote.
BecomeLeader(i, voters) ==
    /\ state'      = [state EXCEPT ![i] = Leader]
    /\ leaderID'   = [leaderID EXCEPT ![i] = i]
    /\ nextIndex'  = [nextIndex EXCEPT ![i] =
                        [j \in Node |-> LastIndex(log[i]) + 1]]
    /\ matchIndex' = [matchIndex EXCEPT ![i] = [j \in Node |-> 0]]
    /\ elections'  = elections \cup
         {[term |-> currentTerm[i], leader |-> i, voters |-> voters]}

\* The end of startElection's goroutine.  Nothing in it asks whether the
\* candidate has been stopped since.
VoteReply(m) ==
    LET i       == m.dst
        waiting == Awaits(i, Candidate, m.reqTerm)
        counted == waiting /\ m.term <= currentTerm[i] /\ m.granted
        voters  == votes[i] \cup {m.src}
    IN  /\ voteReps' = voteReps \ {m}
        /\ \/ /\ waiting /\ m.term > currentTerm[i]
              /\ StepDown(i, m.term)
              /\ UNCHANGED <<leaderID, leaderVars, votes, elections>>
           \/ /\ counted
              /\ votes' = [votes EXCEPT ![i] = voters]
              /\ IF IsMajority(voters)
                 THEN BecomeLeader(i, voters) /\ UNCHANGED <<currentTerm, votedFor>>
                 ELSE UNCHANGED <<termVars, leaderID, leaderVars, elections>>
           \/ /\ ~counted
              /\ ~(waiting /\ m.term > currentTerm[i])
              /\ UNCHANGED <<termVars, leaderID, leaderVars, votes, elections>>
        /\ UNCHANGED <<logVars, timerVars, stopped, voteReqs, appendReqs,
                       appendReps>>

-----------------------------------------------------------------------------
(* Log replication.                                                        *)

\* One sendHeartbeats of the leader's heartbeat loop: a request to every peer,
\* with all it is not known to hold.  S are the peers whose request leaves the
\* node.  The loop ends when the node is stopped; that it may still send once
\* after a Stop (node.go:196-208) is taken for a Stop that came after it.
SendHeartbeats(i, S) ==
    /\ state[i] = Leader
    /\ ~stopped[i]
    /\ Room(appendReqs, appendReps, S)
    /\ appendReqs' = appendReqs \cup
         {[src |-> i, dst |-> j, term |-> currentTerm[i],
           prevLogIndex |-> IF nextIndex[i][j] > 1 THEN nextIndex[i][j] - 1 ELSE 0,
           prevLogTerm  |-> IF nextIndex[i][j] > 1
                            THEN TermAt(log[i], nextIndex[i][j] - 1) ELSE 0,
           entries      |-> EntriesFrom(log[i], nextIndex[i][j]),
           leaderCommit |-> commitIndex[i]] : j \in S}
    /\ UNCHANGED <<termVars, leaderID, logVars, leaderVars, votes, timerVars,
                   stopped, voteReqs, voteReps, appendReps, elections>>

\* applyCommitted on node i, whose log and commit index are then l and
\* commit.  It moves lastApplied on before it looks for the entry, and gives
\* up at the first one that is missing.
Commands(l, from, to) == [k \in 1 .. (to - from + 1) |-> l[from + k - 1].command]

\* Mutant of ApplyCommitted: the last command applied is applied again.
ApplyFromLast(i, l, commit) ==
    IF lastApplied[i] >= commit THEN UNCHANGED <<lastApplied, applied>>
    ELSE /\ lastApplied' = [lastApplied EXCEPT ![i] = commit]
         /\ applied' = [applied EXCEPT ![i] = @ \o
              Commands(l, IF lastApplied[i] = 0 THEN 1 ELSE lastApplied[i], commit)]

ApplyCommitted(i, l, commit) ==
    IF lastApplied[i] >= commit THEN UNCHANGED <<lastApplied, applied>>
    ELSE IF commit <= Len(l)
    THEN /\ lastApplied' = [lastApplied EXCEPT ![i] = commit]
         /\ applied' = [applied EXCEPT ![i] =
                          @ \o Commands(l, lastApplied[i] + 1, commit)]
    ELSE /\ lastApplied' = [lastApplied EXCEPT ![i] =
                              IF @ > Len(l) THEN @ + 1 ELSE Len(l) + 1]
         /\ applied' = [applied EXCEPT ![i] =
                          @ \o Commands(l, lastApplied[i] + 1, Len(l))]

\* Mutant of Follow: the vote is forgotten at every heartbeat.
FollowAfresh(i, leader, term) ==
    /\ currentTerm' = [currentTerm EXCEPT ![i] = term]
    /\ votedFor'    = [votedFor EXCEPT ![i] = None]
    /\ state'       = [state EXCEPT ![i] = Follower]
    /\ leaderID'    = [leaderID EXCEPT ![i] = leader]
    /\ ResetElectionTimer(i)

\* A node that hears from a leader of its own or of a later term.
Follow(i, leader, term) ==
    /\ currentTerm' = [currentTerm EXCEPT ![i] = term]
    /\ votedFor'    = [votedFor EXCEPT ![i] = IF term > currentTerm[i] THEN None ELSE @]
    /\ state'       = [state EXCEPT ![i] = Follower]
    /\ leaderID'    = [leaderID EXCEPT ![i] = leader]
    /\ ResetElectionTimer(i)

\* AppendEntries: the handler of a heartbeat, on the peer.
AppendEntries(m) ==
    LET i       == m.dst
        success == PrevMatches(log[i], m.prevLogIndex, m.prevLogTerm)
        merged  == MergeEntries(log[i], m.entries)
        commit  == IF m.leaderCommit <= commitIndex[i] THEN commitIndex[i]
                   ELSE IF m.leaderCommit > LastIndex(merged) THEN LastIndex(merged)
                   ELSE m.leaderCommit
        Reply(term, ok) == appendReps' = appendReps \cup
             {[src |-> i, dst |-> m.src, reqTerm |-> m.term,
               matched |-> m.prevLogIndex + Len(m.entries),
               term |-> term, success |-> ok]}
    IN  /\ Answers(i)
        /\ appendReqs' = appendReqs \ {m}
        /\ \/ /\ m.term < currentTerm[i]
              /\ Reply(currentTerm[i], FALSE)
              /\ UNCHANGED <<termVars, leaderID, logVars, timer>>
           \/ /\ m.term >= currentTerm[i]
              /\ Follow(i, m.src, m.term)
              /\ Reply(m.term, success)
              /\ IF success
                 THEN /\ log'         = [log EXCEPT ![i] = merged]
                      /\ commitIndex' = [commitIndex EXCEPT ![i] = commit]
                      /\ ApplyCommitted(i, merged, commit)
                 ELSE UNCHANGED logVars
        /\ UNCHANGED <<leaderVars, votes, electing, stopped, voteReqs, voteReps,
                       elections>>

\* updateCommitIndex with the match indexes match: the last index beyond the
\* commit index that a majority holds, of whatever term it is.
Committable(i, match) ==
    {index \in (commitIndex[i] + 1) .. LastIndex(log[i]) :
        IsMajority({i} \cup {j \in Peers(i) : match[j] >= index})}

UpdateCommitIndex(i, match) ==
    IF Committable(i, match) = {} THEN commitIndex[i]
    ELSE CHOOSE index \in Committable(i, match) :
            \A other \in Committable(i, match) : other <= index

\* The end of sendHeartbeats' goroutine.
AppendReply(m) ==
    LET i       == m.dst
        j       == m.src
        waiting == Awaits(i, Leader, m.reqTerm)
        current == waiting /\ m.term <= currentTerm[i]
        match   == [matchIndex[i] EXCEPT ![j] = m.matched]
        commit  == UpdateCommitIndex(i, match)
    IN  /\ appendReps' = appendReps \ {m}
        /\ \/ /\ ~waiting
              /\ UNCHANGED <<termVars, logVars, leaderVars>>
           \/ /\ waiting /\ m.term > currentTerm[i]
              /\ StepDown(i, m.term)
              /\ UNCHANGED <<logVars, leaderVars>>
           \/ /\ current /\ ~m.success
              /\ nextIndex' = [nextIndex EXCEPT ![i][j] = IF @ > 1 THEN @ - 1 ELSE @]
              /\ UNCHANGED <<termVars, logVars, matchIndex>>
           \/ /\ current /\ m.success
              /\ matchIndex'  = [matchIndex EXCEPT ![i] = match]
              /\ nextIndex'   = [nextIndex EXCEPT ![i][j] = m.matched + 1]
              /\ commitIndex' = [commitIndex EXCEPT ![i] = commit]
              /\ ApplyCommitted(i, log[i], commit)
              /\ UNCHANGED <<termVars, log>>
        /\ UNCHANGED <<leaderID, votes, timerVars, stopped, voteReqs, voteReps,
                       appendReqs, elections>>

-----------------------------------------------------------------------------
(* Clients, the operator and the network.                                  *)

\* Start: a command that reaches a leader is appended to its log.
Start(i, c) ==
    /\ state[i] = Leader
    /\ Len(log[i]) < MaxLog
    /\ log' = [log EXCEPT ![i] = Append(@, NextEntry(@, currentTerm[i], c))]
    /\ UNCHANGED <<termVars, leaderID, commitIndex, lastApplied, applied,
                   leaderVars, votes, timerVars, stopped, netVars, elections>>

\* Stop ends the timer and heartbeat goroutines; the rest of the node stays
\* as it is, and so do the goroutines of calls it has made.
Stop(i) ==
    /\ stopped' = [stopped EXCEPT ![i] = TRUE]
    /\ timer'   = [timer EXCEPT ![i] = FALSE]
    /\ UNCHANGED <<termVars, leaderID, logVars, leaderVars, votes, electing,
                   netVars, elections>>

\* Restart keeps the term and the log and forgets the vote.
Restart(i) ==
    /\ i \in Restartable
    /\ stopped[i]
    /\ stopped'  = [stopped EXCEPT ![i] = FALSE]
    /\ state'    = [state EXCEPT ![i] = Follower]
    /\ votedFor' = [votedFor EXCEPT ![i] = None]
    /\ timer'    = [timer EXCEPT ![i] = TRUE]
    /\ UNCHANGED <<currentTerm, leaderID, logVars, leaderVars, votes, electing,
                   netVars, elections>>

\* A call fails: the peer refuses it because it is stopped or cannot be
\* reached, or the call times out before or after the peer has handled it.
\* The caller's goroutine returns.
RPCFails ==
    /\ \/ \E m \in voteReqs : voteReqs' = voteReqs \ {m}
                              /\ UNCHANGED <<voteReps, appendReqs, appendReps>>
       \/ \E m \in voteReps : voteReps' = voteReps \ {m}
                              /\ UNCHANGED <<voteReqs, appendReqs, appendReps>>
       \/ \E m \in appendReqs : appendReqs' = appendReqs \ {m}
                                /\ UNCHANGED <<voteReqs, voteReps, appendReps>>
       \/ \E m \in appendReps : appendReps' = appendReps \ {m}
                                /\ UNCHANGED <<voteReqs, voteReps, appendReqs>>
    /\ UNCHANGED <<termVars, leaderID, logVars, leaderVars, votes, timerVars,
                   stopped, elections>>

-----------------------------------------------------------------------------
Next ==
    \/ \E i \in Node : TimerFires(i)
    \/ \E i \in Node : \E S \in SUBSET Peers(i) : StartElection(i, S)
    \/ \E m \in voteReqs : RequestVote(m)
    \/ \E m \in voteReps : VoteReply(m)
    \/ \E i \in Node : \E S \in SUBSET Peers(i) : SendHeartbeats(i, S)
    \/ \E m \in appendReqs : AppendEntries(m)
    \/ \E m \in appendReps : AppendReply(m)
    \/ \E i \in Node, c \in Command : Start(i, c)
    \/ \E i \in Killable : Stop(i)
    \/ \E i \in Node : Restart(i)
    \/ RPCFails

Spec == Init /\ [][Next]_vars

-----------------------------------------------------------------------------
(* Properties.                                                             *)

\* Every log entry stands at the position its Index names (log.go reads the
\* one as the other), in a node's log and in the entries of a call, which
\* continue prevLogIndex; and a leader never counts a peer's next index down
\* to 0, from which EntriesFrom would send nothing for ever.
IndexIsPosition ==
    /\ \A i \in Node : \A k \in 1 .. Len(log[i]) : log[i][k].index = k
    /\ \A m \in appendReqs : \A k \in 1 .. Len(m.entries) :
          m.entries[k].index = m.prevLogIndex + k
    /\ \A i, j \in Node : state[i] = Leader => nextIndex[i][j] >= 1

\* The types of the fields, of the calls under way and of the histories.
TypeOK ==
    /\ currentTerm \in [Node -> Nat]
    /\ state       \in [Node -> {Follower, Candidate, Leader}]
    /\ votedFor    \in [Node -> Node \cup {None}]
    /\ leaderID    \in [Node -> Node \cup {None}]
    /\ log         \in [Node -> Seq(Entry)]
    /\ commitIndex \in [Node -> Nat]
    /\ lastApplied \in [Node -> Nat]
    /\ nextIndex   \in [Node -> [Node -> Nat]]
    /\ matchIndex  \in [Node -> [Node -> Nat]]
    /\ votes       \in [Node -> SUBSET Node]
    /\ timer       \in [Node -> BOOLEAN]
    /\ electing    \in [Node -> BOOLEAN]
    /\ stopped     \in [Node -> BOOLEAN]
    /\ voteReqs   \subseteq VoteReq
    /\ voteReps   \subseteq VoteRep
    /\ appendReqs \subseteq AppendReq
    /\ appendReps \subseteq AppendRep
    /\ applied     \in [Node -> Seq(Command)]
    /\ elections \subseteq [term : Nat, leader : Node, voters : SUBSET Node]

\* j's vote in term t has reached c, or is on its way to c: as a reply, among
\* the votes c has counted, or among those that once made it leader.
VoteIsFor(j, t, c) ==
    \/ \E m \in voteReps :
          m.granted /\ m.src = j /\ m.reqTerm = t /\ m.dst = c
    \/ state[c] # Follower /\ currentTerm[c] = t /\ j \in votes[c]
    \/ \E e \in elections : e.term = t /\ e.leader = c /\ j \in e.voters

\* A vote given in a term is given to one candidate, and for as long as it is
\* in that term its giver knows to whom.
VotesAreKept ==
    /\ \A j, c \in Node : \A t \in 0 .. MaxTerm : VoteIsFor(j, t, c) =>
          /\ currentTerm[j] >= t
          /\ currentTerm[j] = t => votedFor[j] = c
    /\ \A j, c, d \in Node : \A t \in 0 .. MaxTerm :
          VoteIsFor(j, t, c) /\ VoteIsFor(j, t, d) => c = d
    /\ \A e \in elections : IsMajority(e.voters)

\* becomeLeader happens for one node of a term only, whatever calls are lost,
\* late or answered out of order.
ElectionSafety ==
    \A e, f \in elections : e.term = f.term => e.leader = f.leader

\* Two logs that hold an entry of the same term at an index are the same up
\* to that index.
LogMatching ==
    \A i \in Node : \A j \in Node \ {i} : \A k \in 1 .. Len(log[i]) :
        k <= Len(log[j]) /\ log[i][k].term = log[j][k].term
        => \A q \in 1 .. k : log[i][q] = log[j][q]

\* applyCommitted hands every command to the state machine once: nothing is
\* committed and left, and nothing is counted as applied that was skipped.
AppliedExactly ==
    \A i \in Node : /\ Len(applied[i]) = lastApplied[i]
                    /\ commitIndex[i] <= lastApplied[i]

\* The state machines of any two nodes have been given the same commands as
\* far as both have got.
StateMachineSafety ==
    \A i, j \in Node : \A k \in 1 .. Len(applied[i]) :
        k <= Len(applied[j]) => applied[i][k] = applied[j][k]

\* An entry of a leader's own term, or of the term before, that the leader knows
\* on a majority is in the log of every leader of a later term: the entries
\* whose copies updateCommitIndex may count.  Of entries two terms old or more
\* this does not hold, although it counts those too (node.go:212-236).
LeaderCompleteness ==
    \A i, j \in Node : \A k \in 1 .. Len(log[i]) :
        /\ state[i] = Leader /\ state[j] = Leader
        /\ currentTerm[j] > currentTerm[i]
        /\ log[i][k].term >= currentTerm[i] - 1
        /\ IsMajority({i} \cup {p \in Peers(i) : matchIndex[i][p] >= k})
        => Has(log[j], k) /\ log[j][k] = log[i][k]

\* What a leader believes of a peer is true: a peer it has matched holds the
\* leader's log that far, unless the peer has moved on to a later term.
MatchIsHeld ==
    \A i \in Node : \A j \in Peers(i) :
        state[i] = Leader /\ currentTerm[j] = currentTerm[i]
        => /\ matchIndex[i][j] <= Len(log[i])
           /\ matchIndex[i][j] <= Len(log[j])
           /\ SubSeq(log[j], 1, matchIndex[i][j]) = SubSeq(log[i], 1, matchIndex[i][j])

\* No step takes a node back in its term, nor, within a term, changes a vote
\* it has given: RequestVote looks at votedFor before it grants another one.
KeepsVote(i) ==
    /\ currentTerm'[i] >= currentTerm[i]
    /\ currentTerm'[i] = currentTerm[i] /\ votedFor[i] # None
       => votedFor'[i] = votedFor[i]

VoteKept == [][\A i \in Node : KeepsVote(i)]_vars

\* What a node has committed stays committed, and stays in its log.
CommittedIsKept ==
    [][\A i \in Node :
         /\ commitIndex'[i] >= commitIndex[i]
         /\ commitIndex[i] <= Len(log'[i])
         /\ SubSeq(log'[i], 1, commitIndex[i]) = SubSeq(log[i], 1, commitIndex[i])]_vars

\* A running node that has never led has an election ahead of it, or it would
\* never notice that there is no leader.  A node that has led may not: a timer
\* that fires while it leads is spent, and stepping down does not reset it.
ElectionAhead ==
    \A i \in Node :
        ~stopped[i] /\ (\A e \in elections : e.leader # i)
        => timer[i] \/ electing[i]
=============================================================================
