--------------------------- MODULE KVClusterProofs ---------------------------
(***************************************************************************)
(* Proofs about KVCluster, for every cluster, every set of clients, keys   *)
(* and values, any number of crashes and every value of the bounds.        *)
(*                                                                         *)
(* Three inductions on top of Raft's TypeInv, one for each property: who   *)
(* may be named as the leader (LeaderInv), which client was told what of   *)
(* the entries in the logs and calls (AcceptInv), and what a store shows   *)
(* of what its node applied (StoreInv).  None needs that terms have one    *)
(* leader.  That two stores agree does: it rests on StoreInv and on what   *)
(* LogMatchingProofs says of commitment, taken over from Spec to KVSpec    *)
(* (NodesInv).                                                             *)
(***************************************************************************)
EXTENDS KVCluster, LogMatchingProofs

-----------------------------------------------------------------------------
(* The steps of the process.  But for the start after a crash, what they   *)
(* do to the Raft nodes is one of Raft's steps or nothing.                 *)

\* The steps of the Raft nodes other than Start; a Stop may hit any node.
NodeStep ==
    \/ \E i \in Node : TimerFires(i) \/ Stop(i)
    \/ \E i \in Node : \E S \in SUBSET Peers(i) :
          StartElection(i, S) \/ SendHeartbeats(i, S)
    \/ \E m \in voteReqs : RequestVote(m)
    \/ \E m \in voteReps : VoteReply(m)
    \/ \E m \in appendReqs : AppendEntries(m)
    \/ \E m \in appendReps : AppendReply(m)
    \/ RPCFails

\* A client's command is appended to the log of the leader it was routed to.
Accepted(c) ==
    LET r == request[c.client]
    IN  /\ r.stage = "routed"
        /\ Start(r.node, c)
        /\ request' = [request EXCEPT ![c.client] =
                         [r EXCEPT !.stage = "accepted",
                                   !.index = Len(log'[r.node]),
                                   !.term  = currentTerm[r.node]]]

\* Any other step of a client.
Asked(c) ==
    LET r == request[c.client]
    IN  \/ /\ r.stage = "none"
           /\ \E i \in Node : request' = [request EXCEPT ![c.client] =
                [stage |-> "routed", node |-> i, index |-> 0, term |-> 0]]
        \/ /\ r.stage = "routed"
           /\ request' = [request EXCEPT ![c.client].stage = "refused"]
        \/ /\ r.stage = "refused"
           /\ request' = [request EXCEPT ![c.client] = NoRequest]
        \/ /\ r.stage = "accepted"
           /\ request' = [request EXCEPT ![c.client] = [r EXCEPT !.stage = "done"]]

LEMMA KVCases ==
    ASSUME [KVNext]_kvVars
    PROVE  \/ NodeStep /\ Stores /\ UNCHANGED <<request, base>>
           \/ \E c \in Command : Accepted(c) /\ UNCHANGED <<storeVars, base>>
           \/ \E c \in Command : Asked(c) /\ UNCHANGED <<vars, storeVars, base>>
           \/ UNCHANGED <<vars, storeVars, request, base>>
           \/ CrashAndStart
<1>1. ASSUME NEW c \in Command, Propose(c)
      PROVE  \/ Accepted(c) /\ UNCHANGED <<storeVars, base>>
             \/ Asked(c) /\ UNCHANGED <<vars, storeVars, base>>
  BY <1>1 DEF Propose, Accepted, Asked, processVars
<1>2. ASSUME NEW c \in Command, Answer(c) \/ \E i \in Node : Route(c, i)
      PROVE  Asked(c) /\ UNCHANGED <<vars, storeVars, base>>
  BY <1>2 DEF Answer, Route, Asked, processVars
<1>3. ASSUME NEW i \in Node, Halt(i)
      PROVE  NodeStep /\ Stores /\ UNCHANGED <<request, base>>
  BY <1>3 DEF Halt, NodeStep, Stores, Stop, logVars
<1>4. ASSUME NEW i \in Node, CloseWAL(i)
      PROVE  UNCHANGED <<vars, storeVars, request, base>>
  BY <1>4 DEF CloseWAL
<1>5. UNCHANGED kvVars => UNCHANGED <<vars, storeVars, request, base>>
  BY DEF kvVars, processVars
<1>6. ASSUME \/ \E i \in Node : RaftStep(TimerFires(i))
             \/ \E i \in Node : \E S \in SUBSET Peers(i) :
                   RaftStep(StartElection(i, S)) \/ RaftStep(SendHeartbeats(i, S))
             \/ \E m \in voteReqs : RaftStep(RequestVote(m))
             \/ \E m \in voteReps : RaftStep(VoteReply(m))
             \/ \E m \in appendReqs : RaftStep(AppendEntries(m))
             \/ \E m \in appendReps : RaftStep(AppendReply(m))
             \/ \E i \in Killable : Kill(i)
             \/ RaftStep(RPCFails)
      PROVE  NodeStep /\ Stores /\ UNCHANGED <<request, base>>
  BY <1>6, RaftAssumption DEF RaftStep, Kill, NodeStep, processVars
<1> QED
  BY <1>1, <1>2, <1>3, <1>4, <1>5, <1>6 DEF KVNext

LEMMA CrashIsInit == CrashAndStart => Init'
BY DEF CrashAndStart, Init, NoVote

LEMMA TypeInitNext == Init' => TypeInv'
BY TypeInit, PTL

LEMMA TypeNodeStep == ASSUME TypeInv, NodeStep PROVE TypeInv'
<1>1. CASE \E i \in Node : Stop(i)
  BY <1>1, TypeOperator
<1>2. CASE Next
  BY <1>2, TypeStep
<1> QED
  BY <1>1, <1>2 DEF NodeStep, Next

\* A client's command is sent to a node.
RequestType ==
    /\ request \in [Client -> [stage : {"none", "routed", "accepted", "refused", "done"},
                               node : Node \cup {None}, index : Nat, term : Nat]]
    /\ \A cl \in Client : request[cl].stage # "none" => request[cl].node \in Node

LEMMA ClientOf == \A c \in Command : c.client \in Client
BY DEF Client

LEMMA AskedType ==
    ASSUME RequestType, NEW c \in Command, Asked(c)
    PROVE  RequestType'
<1> DEFINE cl == c.client
           r  == request[cl]
           Request == [stage : {"none", "routed", "accepted", "refused", "done"},
                       node : Node \cup {None}, index : Nat, term : Nat]
<1>1. cl \in Client /\ r \in Request /\ (r.stage # "none" => r.node \in Node)
  BY ClientOf DEF RequestType
<1>2. PICK q : /\ q \in Request /\ (q.stage # "none" => q.node \in Node)
               /\ request' = [request EXCEPT ![cl] = q]
  <2>1. CASE r.stage = "none"
    <3>1. PICK i \in Node : request' = [request EXCEPT ![cl] =
             [stage |-> "routed", node |-> i, index |-> 0, term |-> 0]]
      BY <2>1 DEF Asked
    <3> DEFINE q == [stage |-> "routed", node |-> i, index |-> 0, term |-> 0]
    <3>2. q \in Request /\ (q.stage # "none" => q.node \in Node)
      OBVIOUS
    <3> HIDE DEF q, Request, cl
    <3> QED
      BY <3>1, <3>2 DEF q
  <2>2. CASE r.stage = "routed"
    <3> DEFINE q == [r EXCEPT !.stage = "refused"]
    <3>1. request' = [request EXCEPT ![cl] = q]
      BY <1>1, <2>2 DEF Asked, RequestType
    <3>2. q \in Request /\ (q.stage # "none" => q.node \in Node)
      <4> HIDE DEF r
      <4> QED
        BY <1>1, <2>2
    <3> HIDE DEF q, Request, cl
    <3> QED
      BY <3>1, <3>2
  <2>3. CASE r.stage = "refused"
    <3>1. request' = [request EXCEPT ![cl] = NoRequest]
      BY <2>3 DEF Asked
    <3>2. NoRequest \in Request /\ NoRequest.stage = "none"
      BY DEF NoRequest
    <3> HIDE DEF Request, cl
    <3> QED
      BY <3>1, <3>2
  <2>4. CASE r.stage = "accepted"
    <3> DEFINE q == [r EXCEPT !.stage = "done"]
    <3>1. request' = [request EXCEPT ![cl] = q]
      BY <1>1, <2>4 DEF Asked, RequestType
    <3>2. q \in Request /\ (q.stage # "none" => q.node \in Node)
      <4> HIDE DEF r
      <4> QED
        BY <1>1, <2>4
    <3> HIDE DEF q, Request, cl
    <3> QED
      BY <3>1, <3>2
  <2> QED
    BY <2>1, <2>2, <2>3, <2>4 DEF Asked
<1> HIDE DEF cl, Request
<1> QED
  BY <1>1, <1>2 DEF RequestType, Request

LEMMA AcceptedType ==
    ASSUME TypeInv, TypeInv', RequestType, NEW c \in Command, Accepted(c)
    PROVE  RequestType'
<1> DEFINE cl == c.client
           r  == request[cl]
           Request == [stage : {"none", "routed", "accepted", "refused", "done"},
                       node : Node \cup {None}, index : Nat, term : Nat]
           q  == [r EXCEPT !.stage = "accepted", !.index = Len(log'[r.node]),
                           !.term = currentTerm[r.node]]
<1>1. /\ cl \in Client /\ r \in Request /\ r.node \in Node
      /\ request' = [request EXCEPT ![cl] = q]
  BY ClientOf DEF RequestType, Accepted
<1>2. Len(log'[r.node]) \in Nat /\ currentTerm[r.node] \in Nat
  BY <1>1 DEF TypeInv, TypeOK
<1>3. q \in Request /\ q.node \in Node
  BY <1>1, <1>2
<1> HIDE DEF cl, q, Request
<1> QED
  BY <1>1, <1>3 DEF RequestType, Request

-----------------------------------------------------------------------------
(* The leader that is named.                                               *)

\* A leader names itself, and only winners of elections send heartbeats.
LeadInv ==
    /\ \A i \in Node : state[i] = Leader =>
          /\ leaderID[i] = i
          /\ \E e \in elections : e.leader = i /\ e.term = currentTerm[i]
    /\ \A m \in appendReqs : \E e \in elections : e.leader = m.src /\ e.term = m.term

\* What a step does to the names: a node that takes another leader takes one
\* that was elected in its term or a later one.
Names ==
    /\ elections \subseteq elections'
    /\ \A i \in Node :
          /\ currentTerm[i] <= currentTerm'[i]
          /\ \/ leaderID'[i] = leaderID[i]
             \/ \E e \in elections' : e.leader = leaderID'[i] /\ e.term >= currentTerm[i]

LEMMA SameNames ==
    ASSUME TypeInv, LeadInv, UNCHANGED <<termVars, leaderID, elections>>,
           appendReqs' \subseteq appendReqs
    PROVE  LeadInv' /\ Names
<1>1. \A i \in Node : currentTerm[i] <= currentTerm[i]
  BY DEF TypeInv, TypeOK
<1> QED
  BY <1>1 DEF LeadInv, Names, termVars

\* Node i takes a later term and leads no more.
LEMMA NoLongerLeads ==
    ASSUME TypeInv, LeadInv, NEW i \in Node, NEW t \in Nat, currentTerm[i] <= t,
           currentTerm' = [currentTerm EXCEPT ![i] = t],
           \A j \in Node : state'[j] = Leader => state[j] = Leader /\ (j # i \/ t = currentTerm[i]),
           UNCHANGED <<leaderID, elections>>, appendReqs' \subseteq appendReqs
    PROVE  LeadInv' /\ Names
<1>1. \A j \in Node : /\ currentTerm[j] \in Nat
                      /\ currentTerm'[j] = IF j = i THEN t ELSE currentTerm[j]
  BY DEF TypeInv, TypeOK
<1>2. \A j \in Node : currentTerm[j] <= currentTerm'[j]
  BY <1>1
<1>3. \A j \in Node : state'[j] = Leader => state[j] = Leader /\ currentTerm'[j] = currentTerm[j]
  BY <1>1
<1> QED
  BY <1>2, <1>3 DEF LeadInv, Names

LEMMA LeadStartElection ==
    ASSUME TypeInv, LeadInv, NEW i \in Node, NEW S \in SUBSET Peers(i), StartElection(i, S)
    PROVE  LeadInv' /\ Names
<1>1. /\ currentTerm' = [currentTerm EXCEPT ![i] = currentTerm[i] + 1]
      /\ state' = [state EXCEPT ![i] = Candidate]
      /\ UNCHANGED <<leaderID, elections, appendReqs>>
  BY DEF StartElection
<1>2. currentTerm[i] + 1 \in Nat /\ currentTerm[i] <= currentTerm[i] + 1
  BY DEF TypeInv, TypeOK
<1>3. \A j \in Node : state'[j] = Leader => state[j] = Leader /\ j # i
  BY <1>1 DEF TypeInv, TypeOK, Candidate, Leader
<1> QED
  BY <1>1, <1>2, <1>3, NoLongerLeads

LEMMA LeadRequestVote ==
    ASSUME TypeInv, LeadInv, NEW m \in voteReqs, RequestVote(m)
    PROVE  LeadInv' /\ Names
<1> DEFINE i == m.dst
           t == IF m.term > currentTerm[i] THEN m.term ELSE currentTerm[i]
<1>1. i \in Node /\ m.term \in Nat /\ currentTerm[i] \in Nat
  BY DEF TypeInv, TypeOK, VoteReq
<1>2. t \in Nat /\ currentTerm[i] <= t
  BY <1>1
<1>3. /\ currentTerm' = [currentTerm EXCEPT ![i] = t]
      /\ UNCHANGED <<leaderID, elections, appendReqs>>
  BY <1>1 DEF RequestVote, TypeInv, TypeOK
<1>4. \A j \in Node : state'[j] = Leader => state[j] = Leader /\ (j # i \/ t = currentTerm[i])
  BY <1>1 DEF RequestVote, TypeInv, TypeOK, Follower, Leader
<1> HIDE DEF i, t
<1> QED
  BY <1>1, <1>2, <1>3, <1>4, NoLongerLeads

LEMMA LeadStepDown ==
    ASSUME TypeInv, LeadInv, NEW i \in Node, NEW t \in Nat, t > currentTerm[i],
           StepDown(i, t), UNCHANGED <<leaderID, elections>>,
           appendReqs' \subseteq appendReqs
    PROVE  LeadInv' /\ Names
<1>1. currentTerm' = [currentTerm EXCEPT ![i] = t] /\ currentTerm[i] <= t
  BY DEF StepDown, TypeInv, TypeOK
<1>2. \A j \in Node : state'[j] = Leader => state[j] = Leader /\ j # i
  BY DEF StepDown, TypeInv, TypeOK, Follower, Leader
<1> QED
  BY <1>1, <1>2, NoLongerLeads

LEMMA LeadVoteReply ==
    ASSUME TypeInv, LeadInv, NEW m \in voteReps, VoteReply(m)
    PROVE  LeadInv' /\ Names
<1> DEFINE i      == m.dst
           voters == votes[i] \cup {m.src}
<1>1. i \in Node /\ m.term \in Nat /\ appendReqs' = appendReqs
  BY DEF TypeInv, TypeOK, VoteRep, VoteReply
<1>2. CASE /\ m.term > currentTerm[i] /\ StepDown(i, m.term)
           /\ UNCHANGED <<leaderID, elections>>
  BY <1>1, <1>2, LeadStepDown
<1>3. CASE BecomeLeader(i, voters) /\ UNCHANGED currentTerm
  <2> DEFINE e == [term |-> currentTerm[i], leader |-> i, voters |-> voters]
  <2>1. /\ elections' = elections \cup {e} /\ e.leader = i /\ e.term = currentTerm[i]
        /\ state' = [state EXCEPT ![i] = Leader]
        /\ leaderID' = [leaderID EXCEPT ![i] = i]
    BY <1>3 DEF BecomeLeader
  <2> HIDE DEF e, i
  <2>2. \A j \in Node : currentTerm[j] \in Nat /\ currentTerm'[j] = currentTerm[j]
    BY <1>3 DEF TypeInv, TypeOK
  <2>3. /\ leaderID'[i] = i
        /\ \A j \in Node : j # i => leaderID'[j] = leaderID[j] /\ state'[j] = state[j]
    BY <1>1, <2>1 DEF TypeInv, TypeOK
  <2>4. e.term >= currentTerm[i] /\ e \in elections'
    BY <1>1, <2>1, <2>2
  <2>5. Names
    BY <2>1, <2>2, <2>3, <2>4 DEF Names
  <2>6. LeadInv'
    BY <1>1, <1>3, <2>1, <2>3, <2>4 DEF LeadInv
  <2> QED
    BY <2>5, <2>6
<1>4. CASE UNCHANGED <<termVars, leaderID, elections>>
  BY <1>1, <1>4, SameNames
<1> QED
  BY <1>2, <1>3, <1>4 DEF VoteReply

LEMMA LeadSendHeartbeats ==
    ASSUME TypeInv, LeadInv, NEW i \in Node, NEW S \in SUBSET Peers(i), SendHeartbeats(i, S)
    PROVE  LeadInv' /\ Names
<1> DEFINE call(j) ==
  [src |-> i, dst |-> j, term |-> currentTerm[i],
   prevLogIndex |-> IF nextIndex[i][j] > 1 THEN nextIndex[i][j] - 1 ELSE 0,
   prevLogTerm  |-> IF nextIndex[i][j] > 1
                    THEN TermAt(log[i], nextIndex[i][j] - 1) ELSE 0,
   entries      |-> EntriesFrom(log[i], nextIndex[i][j]),
   leaderCommit |-> commitIndex[i]]
<1>0. /\ state[i] = Leader /\ UNCHANGED <<termVars, leaderID, elections>>
      /\ appendReqs' = appendReqs \cup {call(j) : j \in S}
  BY DEF SendHeartbeats
<1>1. /\ state[i] = Leader /\ UNCHANGED <<termVars, leaderID, elections>>
      /\ \A m \in appendReqs' :
            m \in appendReqs \/ (m.src = i /\ m.term = currentTerm[i])
  <2>1. \A j \in S : call(j).src = i /\ call(j).term = currentTerm[i]
    OBVIOUS
  <2> HIDE DEF call
  <2> QED
    BY <1>0, <2>1
<1>2. Names
  <2>1. \A j \in Node : currentTerm[j] <= currentTerm[j]
    BY DEF TypeInv, TypeOK
  <2> QED
    BY <1>1, <2>1 DEF Names, termVars
<1>3. LeadInv'
  BY <1>1 DEF LeadInv, termVars
<1> QED
  BY <1>2, <1>3

LEMMA LeadAppendEntries ==
    ASSUME TypeInv, LeadInv, NEW m \in appendReqs, AppendEntries(m)
    PROVE  LeadInv' /\ Names
<1> DEFINE i == m.dst
<1>1. /\ i \in Node /\ m.term \in Nat /\ elections' = elections
      /\ appendReqs' \subseteq appendReqs
  BY DEF TypeInv, TypeOK, AppendReq, AppendEntries
<1>2. CASE UNCHANGED <<termVars, leaderID>>
  BY <1>1, <1>2, SameNames
<1>3. CASE m.term >= currentTerm[i] /\ Follow(i, m.src, m.term)
  <2>1. /\ currentTerm' = [currentTerm EXCEPT ![i] = m.term]
        /\ state' = [state EXCEPT ![i] = Follower]
        /\ leaderID' = [leaderID EXCEPT ![i] = m.src]
    BY <1>3 DEF Follow
  <2> HIDE DEF i
  <2>2. \A j \in Node : /\ currentTerm[j] \in Nat
                        /\ currentTerm'[j] = IF j = i THEN m.term ELSE currentTerm[j]
    BY <1>1, <2>1 DEF TypeInv, TypeOK
  <2>3. /\ leaderID'[i] = m.src /\ state'[i] # Leader
        /\ \A j \in Node : j # i => leaderID'[j] = leaderID[j] /\ state'[j] = state[j]
    BY <1>1, <2>1 DEF TypeInv, TypeOK, Follower, Leader
  <2>4. PICK e \in elections : e.leader = m.src /\ e.term = m.term
    BY DEF LeadInv
  <2>5. \A j \in Node : currentTerm[j] <= currentTerm'[j]
    BY <1>1, <1>3, <2>2 DEF i
  <2>6. Names
    BY <1>1, <1>3, <2>2, <2>3, <2>4, <2>5 DEF Names, i
  <2>7. LeadInv'
    BY <1>1, <2>2, <2>3 DEF LeadInv
  <2> QED
    BY <2>6, <2>7
<1> QED
  BY <1>2, <1>3 DEF AppendEntries

LEMMA LeadNodeStep ==
    ASSUME TypeInv, LeadInv, NodeStep
    PROVE  LeadInv' /\ Names
<1>1. CASE \E i \in Node : TimerFires(i) \/ Stop(i)
  BY <1>1, SameNames DEF TimerFires, Stop, netVars
<1>2. CASE \E m \in appendReps : AppendReply(m)
  <2>1. PICK m \in appendReps : AppendReply(m)
    BY <1>2
  <2>2. /\ m.dst \in Node /\ m.term \in Nat
        /\ UNCHANGED <<leaderID, appendReqs, elections>>
    BY <2>1 DEF TypeInv, TypeOK, AppendRep, AppendReply
  <2>3. CASE m.term > currentTerm[m.dst] /\ StepDown(m.dst, m.term)
    BY <2>2, <2>3, LeadStepDown
  <2>4. CASE UNCHANGED termVars
    BY <2>2, <2>4, SameNames
  <2> QED
    BY <2>1, <2>3, <2>4 DEF AppendReply
<1>3. CASE RPCFails
  <2>1. UNCHANGED <<termVars, leaderID, elections>> /\ appendReqs' \subseteq appendReqs
    BY <1>3 DEF RPCFails
  <2> QED
    BY <2>1, SameNames
<1> QED
  BY <1>1, <1>2, <1>3, LeadStartElection, LeadRequestVote, LeadVoteReply,
     LeadSendHeartbeats, LeadAppendEntries DEF NodeStep

\* A client that is told of an accepted command would be told, until then, of
\* a leader elected in the command's term or later.
NamedInv ==
    \A cl \in Client : LET r == request[cl] IN r.stage = "accepted" =>
        /\ r.term <= currentTerm[r.node]
        /\ \E e \in elections : e.leader = leaderID[r.node] /\ e.term >= r.term

LeaderInv == TypeInv /\ RequestType /\ LeadInv /\ NamedInv

\* Start leaves the terms, the leaders and the calls alone.
LEMMA LeadStart ==
    ASSUME TypeInv, LeadInv, NEW i \in Node, NEW c \in Command, Start(i, c)
    PROVE  LeadInv' /\ Names
BY SameNames DEF Start, netVars

\* The names that a request depends on change for the better only.
LEMMA NamedNodeStep ==
    ASSUME TypeInv, TypeInv', RequestType, NamedInv, Names, UNCHANGED request
    PROVE  NamedInv'
<1> SUFFICES ASSUME NEW cl \in Client, request[cl].stage = "accepted"
             PROVE  LET r == request[cl] IN
                    /\ r.term <= currentTerm'[r.node]
                    /\ \E e \in elections' : e.leader = leaderID'[r.node] /\ e.term >= r.term
  BY DEF NamedInv
<1> DEFINE r == request[cl]
<1>1. r.node \in Node /\ r.term \in Nat /\ r.term <= currentTerm[r.node]
  BY DEF RequestType, NamedInv
<1>2. PICK e \in elections : e.leader = leaderID[r.node] /\ e.term >= r.term
  BY DEF NamedInv
<1> HIDE DEF r
<1>3. /\ currentTerm[r.node] \in Nat /\ currentTerm'[r.node] \in Nat
      /\ currentTerm[r.node] <= currentTerm'[r.node] /\ e \in elections'
  BY <1>1, <1>2 DEF TypeInv, TypeOK, Names
<1>4. CASE leaderID'[r.node] = leaderID[r.node]
  BY <1>1, <1>2, <1>3, <1>4 DEF r
<1>5. CASE \E f \in elections' : f.leader = leaderID'[r.node] /\ f.term >= currentTerm[r.node]
  <2>1. PICK f \in elections' : f.leader = leaderID'[r.node] /\ f.term >= currentTerm[r.node]
    BY <1>5
  <2>2. f.term \in Nat
    BY <2>1 DEF TypeInv, TypeOK
  <2>3. f.term >= r.term
    BY <1>1, <1>3, <2>1, <2>2
  <2> QED
    BY <1>1, <1>3, <2>1, <2>3 DEF r
<1> QED
  BY <1>1, <1>4, <1>5 DEF Names

LEMMA NamedAccepted ==
    ASSUME LeaderInv, NEW c \in Command, Accepted(c)
    PROVE  NamedInv'
<1> DEFINE cl == c.client
           r  == request[cl]
           q  == [r EXCEPT !.stage = "accepted", !.index = Len(log'[r.node]),
                           !.term = currentTerm[r.node]]
<1>1. /\ cl \in Client /\ r.node \in Node /\ Start(r.node, c)
      /\ request' = [request EXCEPT ![cl] = q]
  BY ClientOf DEF LeaderInv, RequestType, Accepted
<1>2. UNCHANGED <<currentTerm, leaderID, elections>> /\ state[r.node] = Leader
  BY <1>1 DEF Start, termVars
<1>3. q.node = r.node /\ q.term = currentTerm[r.node]
  BY <1>1 DEF LeaderInv, RequestType
<1>4. \A d \in Client : request'[d] = IF d = cl THEN q ELSE request[d]
  BY <1>1 DEF LeaderInv, RequestType
<1>5. PICK e \in elections : e.leader = r.node /\ e.term = currentTerm[r.node]
  BY <1>1, <1>2 DEF LeaderInv, LeadInv
<1>6. leaderID[r.node] = r.node /\ currentTerm[r.node] \in Nat
  BY <1>1, <1>2 DEF LeaderInv, LeadInv, TypeInv, TypeOK
<1> HIDE DEF cl, r, q
<1>7. ASSUME NEW d \in Client, request'[d].stage = "accepted"
      PROVE  /\ request'[d].term <= currentTerm'[request'[d].node]
             /\ \E f \in elections' : /\ f.leader = leaderID'[request'[d].node]
                                      /\ f.term >= request'[d].term
  <2>1. CASE d = cl
    BY <2>1, <1>2, <1>3, <1>4, <1>5, <1>6
  <2>2. CASE d # cl
    BY <2>2, <1>7, <1>2, <1>4 DEF LeaderInv, NamedInv
  <2> QED
    BY <2>1, <2>2
<1> QED
  BY <1>7 DEF NamedInv

LEMMA NamedAsked ==
    ASSUME LeaderInv, NEW c \in Command, Asked(c), UNCHANGED vars
    PROVE  NamedInv'
<1> DEFINE cl == c.client
<1>0. cl \in Client /\ \E q : q.stage # "accepted" /\ request' = [request EXCEPT ![cl] = q]
  <2> DEFINE r == request[cl]
  <2>1. cl \in Client /\ r.stage \in {"none", "routed", "accepted", "refused", "done"}
        /\ r = [stage |-> r.stage, node |-> r.node, index |-> r.index, term |-> r.term]
    BY ClientOf DEF LeaderInv, RequestType
  <2>2. CASE r.stage = "none"
    <3>1. PICK i \in Node : request' = [request EXCEPT ![cl] =
             [stage |-> "routed", node |-> i, index |-> 0, term |-> 0]]
      BY <2>2 DEF Asked
    <3> DEFINE q == [stage |-> "routed", node |-> i, index |-> 0, term |-> 0]
    <3>2. q.stage # "accepted" /\ request' = [request EXCEPT ![cl] = q]
      BY <3>1
    <3> HIDE DEF q, cl
    <3> QED
      BY <2>1, <3>2
  <2>3. CASE r.stage = "refused"
    <3>1. NoRequest.stage # "accepted" /\ request' = [request EXCEPT ![cl] = NoRequest]
      BY <2>3 DEF Asked, NoRequest
    <3> HIDE DEF cl
    <3> QED
      BY <2>1, <3>1
  <2>4. ASSUME NEW st \in {"refused", "done"}, request' = [request EXCEPT ![cl] = [r EXCEPT !.stage = st]]
        PROVE  \E q : q.stage # "accepted" /\ request' = [request EXCEPT ![cl] = q]
    <3> DEFINE q == [r EXCEPT !.stage = st]
    <3>1. q.stage # "accepted"
      BY <2>1
    <3> HIDE DEF cl, q, r
    <3> QED
      BY <2>4, <3>1 DEF q
  <2>5. CASE r.stage = "routed"
    BY <2>1, <2>4, <2>5 DEF Asked, LeaderInv, RequestType
  <2>6. CASE r.stage = "accepted"
    BY <2>1, <2>4, <2>6 DEF Asked
  <2>7. CASE r.stage = "done"
    BY <2>7 DEF Asked
  <2>8. \/ r.stage = "none" \/ r.stage = "routed" \/ r.stage = "accepted"
        \/ r.stage = "refused" \/ r.stage = "done"
    BY <2>1
  <2> QED
    BY <2>1, <2>2, <2>3, <2>5, <2>6, <2>7, <2>8, Zenon
<1>1. \A d \in Client : request'[d].stage = "accepted" => request'[d] = request[d]
  BY <1>0 DEF LeaderInv, RequestType
<1>2. UNCHANGED <<currentTerm, leaderID, elections>>
  BY DEF vars, termVars
<1> QED
  BY <1>1, <1>2 DEF LeaderInv, NamedInv

\* With no request and no leader there is nothing to name.
LEMMA LeaderInvInit ==
    Init /\ request = [cl \in Client |-> NoRequest] => LeaderInv
<1> SUFFICES ASSUME Init, request = [cl \in Client |-> NoRequest]
             PROVE  LeaderInv
  OBVIOUS
<1>1. TypeInv
  BY TypeInit
<1>2. LeadInv
  BY DEF Init, LeadInv, Follower, Leader
<1>3. \A cl \in Client : request[cl] = NoRequest
  OBVIOUS
<1>4. RequestType /\ NamedInv
  BY <1>3 DEF RequestType, NamedInv, NoRequest
<1> QED
  BY <1>1, <1>2, <1>4 DEF LeaderInv

LEMMA LeaderInvInitNext ==
    (Init /\ request = [cl \in Client |-> NoRequest])' => LeaderInv'
BY LeaderInvInit, PTL

LEMMA LeaderInvStep ==
    ASSUME LeaderInv, [KVNext]_kvVars
    PROVE  LeaderInv'
<1>1. CASE NodeStep /\ UNCHANGED <<request, base>>
  <2>1. TypeInv' /\ LeadInv' /\ Names
    BY <1>1, TypeNodeStep, LeadNodeStep DEF LeaderInv
  <2>2. RequestType'
    BY <1>1 DEF LeaderInv, RequestType
  <2> QED
    BY <1>1, <2>1, <2>2, NamedNodeStep DEF LeaderInv
<1>2. ASSUME NEW c \in Command, Accepted(c)
      PROVE  LeaderInv'
  <2>1. PICK i \in Node : Start(i, c)
    BY <1>2, ClientOf DEF Accepted, LeaderInv, RequestType
  <2>2. TypeInv' /\ LeadInv'
    BY <2>1, TypeStep, LeadStart DEF Next, LeaderInv
  <2> QED
    BY <1>2, <2>2, AcceptedType, NamedAccepted DEF LeaderInv
<1>3. ASSUME NEW c \in Command, Asked(c), UNCHANGED <<vars, storeVars, base>>
      PROVE  LeaderInv'
  <2>1. TypeInv'
    BY <1>3, TypeStep DEF LeaderInv
  <2>2. LeadInv'
    BY <1>3 DEF LeaderInv, LeadInv, vars, termVars, netVars
  <2> QED
    BY <1>3, <2>1, <2>2, AskedType, NamedAsked DEF LeaderInv
<1>4. CASE UNCHANGED <<vars, storeVars, request, base>>
  <2>1. TypeInv'
    BY <1>4, TypeStep DEF LeaderInv
  <2> QED
    BY <1>4, <2>1 DEF LeaderInv, LeadInv, NamedInv, RequestType, vars, termVars, netVars
<1>5. CASE CrashAndStart
  BY <1>5, CrashIsInit, LeaderInvInitNext DEF CrashAndStart
<1> QED
  BY <1>1, <1>2, <1>3, <1>4, <1>5, KVCases

LEMMA LeaderInvAlways == KVSpec => []LeaderInv
<1>1. KVInit => LeaderInv
  BY LeaderInvInit DEF KVInit
<1> QED
  BY <1>1, LeaderInvStep, PTL DEF KVSpec

\* The leader named with an accepted command has won an election in the
\* command's term or a later one, although KVNode.Set reads it after r.mu was
\* released and other leaders may have come up in between.
THEOREM NamedCorrect == KVSpec => []LeaderNamed
<1>1. LeaderInv => LeaderNamed
  BY DEF LeaderInv, NamedInv, LeaderNamed, NamedLeader
<1> QED
  BY <1>1, LeaderInvAlways, PTL

-----------------------------------------------------------------------------
(* What is applied.                                                        *)

\* Node i is given commands of its log, after those it has been given.
Grows(i) ==
    /\ Len(applied[i]) <= Len(applied'[i])
    /\ \A j \in Node \ {i} : applied'[j] = applied[j]
    /\ \A k \in 1 .. Len(applied'[i]) :
          IF k <= Len(applied[i]) THEN applied'[i][k] = applied[i][k]
          ELSE k \in 1 .. Len(log'[i]) /\ applied'[i][k] = log'[i][k].command

LEMMA GrowsAppendEntries ==
    ASSUME TypeInv, NEW m \in appendReqs, AppendEntries(m)
    PROVE  applied' = applied \/ Grows(m.dst)
<1> DEFINE i      == m.dst
           merged == MergeEntries(log[i], m.entries)
           commit == IF m.leaderCommit <= commitIndex[i] THEN commitIndex[i]
                     ELSE IF m.leaderCommit > LastIndex(merged) THEN LastIndex(merged)
                     ELSE m.leaderCommit
<1>1. /\ i \in Node /\ m.entries \in Seq(Entry) /\ m.prevLogIndex \in Nat
      /\ m.leaderCommit \in Nat /\ commitIndex[i] \in Nat /\ lastApplied[i] \in Nat
      /\ Len(applied[i]) = lastApplied[i] /\ commitIndex[i] <= lastApplied[i]
      /\ lastApplied \in [Node -> Nat] /\ applied \in [Node -> Seq(Command)]
  BY DEF TypeInv, TypeOK, AppendReq, AppliedExactly
<1>2. IsLog(log[i]) /\ \A k \in 1 .. Len(m.entries) : m.entries[k].index = m.prevLogIndex + k
  BY <1>1, LogsAreLogs DEF TypeInv, IndexIsPosition
<1>3. CASE UNCHANGED logVars
  BY <1>3 DEF logVars
<1>4. CASE /\ PrevMatches(log[i], m.prevLogIndex, m.prevLogTerm)
           /\ log' = [log EXCEPT ![i] = merged]
           /\ ApplyCommitted(i, merged, commit)
  <2>1. m.prevLogIndex <= Len(log[i])
    <3>1. LastIndex(log[i]) = Len(log[i]) /\ Len(log[i]) \in Nat
      BY <1>2, LastIndexIsLength
    <3> HIDE DEF i
    <3> QED
      BY <1>1, <1>4, <3>1 DEF PrevMatches
  <2>2. IsLog(merged)
    BY <1>1, <1>2, <2>1, MergeIsLog
  <2>3. LastIndex(merged) = Len(merged) /\ Len(merged) \in Nat
    BY <2>2, LastIndexIsLength
  <2>4. /\ commit \in Nat
        /\ commit <= Len(merged) \/ commit <= lastApplied[i]
    <3> HIDE DEF merged
    <3> QED
      BY <1>1, <2>3
  <2>5. log'[i] = merged
    BY <1>1, <1>4 DEF TypeInv, TypeOK
  <2> HIDE DEF merged, commit, i
  <2>6. /\ lastApplied' \in [Node -> Nat]
        /\ Len(applied'[i]) = lastApplied'[i]
        /\ lastApplied[i] <= lastApplied'[i]
        /\ \A j \in Node \ {i} : applied'[j] = applied[j]
        /\ \A k \in 1 .. Len(applied'[i]) :
              IF k <= Len(applied[i]) THEN applied'[i][k] = applied[i][k]
              ELSE k \in 1 .. Len(merged) /\ applied'[i][k] = merged[k].command
    BY <1>1, <1>4, <2>2, <2>4, ApplyCommittedStep
  <2> QED
    BY <1>1, <2>5, <2>6 DEF Grows, i
<1> QED
  BY <1>3, <1>4 DEF AppendEntries

LEMMA GrowsAppendReply ==
    ASSUME TypeInv, NEW m \in appendReps, AppendReply(m)
    PROVE  applied' = applied \/ Grows(m.dst)
<1> DEFINE i      == m.dst
           match  == [matchIndex[i] EXCEPT ![m.src] = m.matched]
           commit == UpdateCommitIndex(i, match)
<1>1. /\ i \in Node /\ commitIndex[i] \in Nat /\ lastApplied[i] \in Nat
      /\ Len(applied[i]) = lastApplied[i] /\ commitIndex[i] <= lastApplied[i]
      /\ lastApplied \in [Node -> Nat] /\ applied \in [Node -> Seq(Command)]
  BY DEF TypeInv, TypeOK, AppendRep, AppliedExactly
<1>0. IsLog(log[i]) /\ Len(log[i]) \in Nat
  BY <1>1, LogsAreLogs DEF IsLog
<1>2. CASE UNCHANGED logVars
  BY <1>2 DEF logVars
<1>3. CASE ApplyCommitted(i, log[i], commit) /\ UNCHANGED log
  <2>1. commit \in Nat /\ (commit <= Len(log[i]) \/ commit <= lastApplied[i])
    BY <1>0, <1>1, UpdateCommitType
  <2> HIDE DEF commit, i
  <2>2. /\ lastApplied' \in [Node -> Nat]
        /\ Len(applied'[i]) = lastApplied'[i]
        /\ lastApplied[i] <= lastApplied'[i]
        /\ \A j \in Node \ {i} : applied'[j] = applied[j]
        /\ \A k \in 1 .. Len(applied'[i]) :
              IF k <= Len(applied[i]) THEN applied'[i][k] = applied[i][k]
              ELSE k \in 1 .. Len(log[i]) /\ applied'[i][k] = log[i][k].command
    BY <1>0, <1>1, <1>3, <2>1, ApplyCommittedStep
  <2> QED
    BY <1>0, <1>1, <1>3, <2>2 DEF Grows, i
<1> QED
  BY <1>2, <1>3 DEF AppendReply

LEMMA AppliedNodeStep ==
    ASSUME TypeInv, NodeStep
    PROVE  applied' = applied \/ \E i \in Node : Grows(i)
<1>1. ASSUME NEW m \in appendReqs, AppendEntries(m)
      PROVE  applied' = applied \/ \E i \in Node : Grows(i)
  BY <1>1, GrowsAppendEntries DEF TypeInv, TypeOK, AppendReq
<1>2. ASSUME NEW m \in appendReps, AppendReply(m)
      PROVE  applied' = applied \/ \E i \in Node : Grows(i)
  BY <1>2, GrowsAppendReply DEF TypeInv, TypeOK, AppendRep
<1>3. CASE \E i \in Node : TimerFires(i) \/ Stop(i)
  BY <1>3 DEF TimerFires, Stop, logVars
<1>4. ASSUME NEW i \in Node, NEW S \in SUBSET Peers(i),
             StartElection(i, S) \/ SendHeartbeats(i, S)
      PROVE  applied' = applied
  BY <1>4 DEF StartElection, SendHeartbeats, logVars
<1>5. ASSUME NEW m, RequestVote(m) \/ VoteReply(m)
      PROVE  applied' = applied
  BY <1>5 DEF RequestVote, VoteReply, logVars
<1>6. CASE RPCFails
  BY <1>6 DEF RPCFails, logVars
<1> QED
  BY <1>1, <1>2, <1>3, <1>4, <1>5, <1>6 DEF NodeStep

LEMMA LinksNodeStep ==
    ASSUME TypeInv, NodeStep
    PROVE  Links' \subseteq Links
<1>1. ASSUME NEW m \in appendReqs, AppendEntries(m)
      PROVE  Links' \subseteq Links
  BY <1>1, LinksAppendEntries
<1>2. ASSUME NEW m \in appendReps, AppendReply(m)
      PROVE  Links' \subseteq Links
  <2>1. log' = log /\ appendReqs' = appendReqs
    BY <1>2 DEF AppendReply, logVars
  <2> QED
    BY <2>1, SameLinks
<1>3. CASE \E i \in Node : TimerFires(i) \/ Stop(i)
  <2>1. log' = log /\ appendReqs' = appendReqs
    BY <1>3 DEF TimerFires, Stop, logVars, netVars
  <2> QED
    BY <2>1, SameLinks
<1>4. ASSUME NEW i \in Node, NEW S \in SUBSET Peers(i), SendHeartbeats(i, S)
      PROVE  Links' \subseteq Links
  BY <1>4, LinksSendHeartbeats
<1>5. ASSUME NEW i \in Node, NEW S \in SUBSET Peers(i), StartElection(i, S)
      PROVE  Links' \subseteq Links
  <2>1. log' = log /\ appendReqs' = appendReqs
    BY <1>5 DEF StartElection, logVars
  <2> QED
    BY <2>1, SameLinks
<1>6. ASSUME NEW m, RequestVote(m) \/ VoteReply(m)
      PROVE  Links' \subseteq Links
  <2>1. log' = log /\ appendReqs' = appendReqs
    BY <1>6 DEF RequestVote, VoteReply, logVars
  <2> QED
    BY <2>1, SameLinks
<1>7. CASE RPCFails
  <2>1. log' = log /\ appendReqs' \subseteq appendReqs
    BY <1>7 DEF RPCFails, logVars
  <2> QED
    BY <2>1, SameLinks
<1> QED
  BY <1>1, <1>2, <1>3, <1>4, <1>5, <1>6, <1>7 DEF NodeStep

\* In the requests req, the client of command c was told its position k.
Told(req, c, k) ==
    req[c.client].stage \in {"accepted", "done"} /\ req[c.client].index = k

\* So for every entry in a log or a call, and for what has been applied.
ToldInv ==
    /\ \A x \in Links : Told(request, x.entry.command, x.entry.index)
    /\ \A i \in Node : \A k \in 1 .. Len(applied[i]) : Told(request, applied[i][k], k)

AcceptInv == TypeInv /\ RequestType /\ ToldInv

\* Steps of the Raft nodes bring no entry that was not accepted.
LEMMA ToldNodeStep ==
    ASSUME TypeInv, TypeInv', ToldInv, NodeStep, UNCHANGED request
    PROVE  ToldInv'
<1>1. Links' \subseteq Links
  BY LinksNodeStep
<1>2. \A c, k : Told(request', c, k) <=> Told(request, c, k)
  BY DEF Told
<1>3. \A x \in Links' : Told(request', x.entry.command, x.entry.index)
  BY <1>1, <1>2 DEF ToldInv
<1>4. ASSUME NEW i \in Node, NEW k \in 1 .. Len(applied'[i])
      PROVE  Told(request', applied'[i][k], k)
  <2>1. CASE applied'[i] = applied[i]
    BY <1>2, <1>4, <2>1 DEF ToldInv
  <2>2. CASE Grows(i)
    <3>1. CASE k <= Len(applied[i])
      <4>1. k \in 1 .. Len(applied[i])
        BY <3>1 DEF TypeInv, TypeOK
      <4> QED
        BY <1>2, <2>2, <3>1, <4>1 DEF ToldInv, Grows
    <3>2. CASE ~(k <= Len(applied[i]))
      <4>1. k \in 1 .. Len(log'[i]) /\ applied'[i][k] = log'[i][k].command
        BY <2>2, <3>2 DEF Grows
      <4>2. LogLink(i, k)' \in Links'
        BY <4>1 DEF Links, LogLinks
      <4>3. LogLink(i, k)'.entry = log'[i][k] /\ log'[i][k].index = k
        BY <4>1 DEF LogLink, TypeInv, IndexIsPosition
      <4> QED
        BY <1>3, <4>1, <4>2, <4>3
    <3> QED
      BY <3>1, <3>2
  <2> QED
    BY <2>1, <2>2, AppliedNodeStep DEF Grows
<1> QED
  BY <1>3, <1>4 DEF ToldInv

\* The one new entry is the client's own, at the index it is told.
LEMMA ToldAccepted ==
    ASSUME AcceptInv, NEW c \in Command, Accepted(c)
    PROVE  ToldInv'
<1> DEFINE cl == c.client
           i  == request[cl].node
           n  == Len(log[i]) + 1
           e  == NextEntry(log[i], currentTerm[i], c)
           q  == [request[cl] EXCEPT !.stage = "accepted", !.index = Len(log'[i]),
                                     !.term = currentTerm[i]]
<1>1. /\ cl \in Client /\ i \in Node /\ Start(i, c) /\ request[cl].stage = "routed"
      /\ request' = [request EXCEPT ![cl] = q]
  BY ClientOf DEF AcceptInv, RequestType, Accepted
<1>2. q.stage = "accepted" /\ q.index = Len(log'[i])
  BY <1>1 DEF AcceptInv, RequestType
<1>3. /\ e.index = n /\ e.command = c /\ Len(log'[i]) = n
      /\ \A x \in Links' : x \in Links \/ x.entry = e
  <2>1. TypeInv
    BY DEF AcceptInv
  <2> HIDE DEF i
  <2>2. /\ e.index = n /\ e.command = c /\ Len(log'[i]) = n
        /\ \A x \in Links' : \/ x \in Links
                             \/ x = [entry |-> e, before |-> TermAt(log[i], n - 1)]
    BY <1>1, <2>1, LinksStart
  <2> HIDE DEF e, n
  <2> QED
    BY <2>2
<1>4. /\ \A d \in Client : request'[d] = IF d = cl THEN q ELSE request[d]
      /\ applied' = applied
  BY <1>1 DEF AcceptInv, RequestType, Start
<1> HIDE DEF i, e, n, q
\* What was told before was not told to this client.
<1>5. ASSUME NEW d \in Command, NEW k, Told(request, d, k)
      PROVE  Told(request', d, k)
  <2>1. d.client \in Client /\ d.client # cl
    BY <1>1, <1>5, ClientOf DEF Told
  <2> QED
    BY <1>4, <1>5, <2>1 DEF Told
<1>6. Told(request', c, n)
  BY <1>1, <1>2, <1>3, <1>4 DEF Told
<1>7. ASSUME NEW x \in Links'
      PROVE  Told(request', x.entry.command, x.entry.index)
  <2>1. CASE x \in Links
    <3>1. x.entry.command \in Command
      BY <2>1, LinkType DEF AcceptInv, Entry
    <3> QED
      BY <1>5, <2>1, <3>1 DEF AcceptInv, ToldInv
  <2>2. CASE x.entry = e
    BY <1>3, <1>6, <2>2
  <2> QED
    BY <1>3, <2>1, <2>2
<1>8. ASSUME NEW j \in Node, NEW k \in 1 .. Len(applied'[j])
      PROVE  Told(request', applied'[j][k], k)
  <2>1. applied'[j][k] \in Command /\ k \in 1 .. Len(applied[j])
    BY <1>4 DEF AcceptInv, TypeInv, TypeOK
  <2> QED
    BY <1>4, <1>5, <2>1 DEF AcceptInv, ToldInv
<1> QED
  BY <1>7, <1>8 DEF ToldInv

\* A client that was told of an acceptance gets no other answer.
LEMMA ToldAsked ==
    ASSUME AcceptInv, NEW c \in Command, Asked(c), UNCHANGED vars
    PROVE  ToldInv'
<1> DEFINE cl == c.client
           r  == request[cl]
<1>1. cl \in Client /\ r \in [stage : {"none", "routed", "accepted", "refused", "done"},
                              node : Node \cup {None}, index : Nat, term : Nat]
  BY ClientOf DEF AcceptInv, RequestType
<1>2. \A d \in Client : request[d].stage \in {"accepted", "done"} =>
         /\ request'[d].stage \in {"accepted", "done"}
         /\ request'[d].index = request[d].index
  <2>1. ASSUME NEW q, request' = [request EXCEPT ![cl] = q]
        PROVE  \A d \in Client : request'[d] = IF d = cl THEN q ELSE request[d]
    BY <2>1 DEF AcceptInv, RequestType
  <2>2. CASE r.stage = "accepted"
    <3> DEFINE q == [r EXCEPT !.stage = "done"]
    <3>1. request' = [request EXCEPT ![cl] = q]
      BY <1>1, <2>2 DEF Asked
    <3>2. q.stage = "done" /\ q.index = r.index
      <4> HIDE DEF r
      <4> QED
        BY <1>1
    <3> HIDE DEF q, cl
    <3> QED
      BY <2>1, <3>1, <3>2
  <2>3. CASE r.stage # "accepted"
    <3>1. PICK q : request' = [request EXCEPT ![cl] = q] /\ r.stage \notin {"accepted", "done"}
      <4>1. CASE r.stage = "none"
        BY <4>1 DEF Asked
      <4>2. CASE r.stage = "routed"
        <5>1. request' = [request EXCEPT ![cl] = [r EXCEPT !.stage = "refused"]]
          BY <1>1, <4>2 DEF Asked, AcceptInv, RequestType
        <5> QED
          BY <4>2, <5>1
      <4>3. CASE r.stage = "refused"
        BY <4>3 DEF Asked
      <4> QED
        BY <2>3, <4>1, <4>2, <4>3 DEF Asked
    <3> HIDE DEF cl
    <3> QED
      BY <2>1, <3>1
  <2> QED
    BY <2>2, <2>3
<1>3. UNCHANGED <<log, appendReqs, applied>>
  BY DEF vars, logVars, netVars
<1>4. Links' = Links
  BY <1>3 DEF Links, LogLinks, LogLink, CallLinks, CallLink
<1>5. ASSUME NEW d \in Command, NEW k, Told(request, d, k)
      PROVE  Told(request', d, k)
  BY <1>2, <1>5, ClientOf DEF Told
<1>6. \A x \in Links : x.entry.command \in Command
  BY LinkType DEF AcceptInv, Entry
<1>7. \A j \in Node : \A k \in 1 .. Len(applied[j]) : applied[j][k] \in Command
  BY DEF AcceptInv, TypeInv, TypeOK
<1> QED
  BY <1>3, <1>4, <1>5, <1>6, <1>7 DEF AcceptInv, ToldInv

LEMMA AcceptInvInit ==
    Init /\ request = [cl \in Client |-> NoRequest] => AcceptInv
<1> SUFFICES ASSUME Init, request = [cl \in Client |-> NoRequest]
             PROVE  AcceptInv
  OBVIOUS
<1>1. TypeInv /\ RequestType
  BY LeaderInvInit DEF LeaderInv
<1>2. Links = {}
  <2>1. \A i \in Node : 1 .. Len(log[i]) = {}
    BY DEF Init
  <2>2. appendReqs = {}
    BY DEF Init
  <2> QED
    BY <2>1, <2>2 DEF Links, LogLinks, CallLinks
<1>3. ToldInv
  BY <1>2 DEF ToldInv, Init
<1> QED
  BY <1>1, <1>3 DEF AcceptInv

LEMMA AcceptInvInitNext ==
    (Init /\ request = [cl \in Client |-> NoRequest])' => AcceptInv'
BY AcceptInvInit, PTL

LEMMA AcceptInvStep ==
    ASSUME AcceptInv, [KVNext]_kvVars
    PROVE  AcceptInv'
<1>1. CASE NodeStep /\ UNCHANGED <<request, base>>
  <2>1. TypeInv'
    BY <1>1, TypeNodeStep DEF AcceptInv
  <2>2. RequestType'
    BY <1>1 DEF AcceptInv, RequestType
  <2> QED
    BY <1>1, <2>1, <2>2, ToldNodeStep DEF AcceptInv
<1>2. ASSUME NEW c \in Command, Accepted(c)
      PROVE  AcceptInv'
  <2>1. PICK i \in Node : Start(i, c)
    BY <1>2, ClientOf DEF Accepted, AcceptInv, RequestType
  <2>2. TypeInv'
    BY <2>1, TypeStep DEF Next, AcceptInv
  <2> QED
    BY <1>2, <2>2, AcceptedType, ToldAccepted DEF AcceptInv
<1>3. ASSUME NEW c \in Command, Asked(c), UNCHANGED <<vars, storeVars, base>>
      PROVE  AcceptInv'
  <2>1. TypeInv'
    BY <1>3, TypeStep DEF AcceptInv
  <2> QED
    BY <1>3, <2>1, AskedType, ToldAsked DEF AcceptInv
<1>4. CASE UNCHANGED <<vars, storeVars, request, base>>
  <2>1. TypeInv'
    BY <1>4, TypeStep DEF AcceptInv
  <2>2. UNCHANGED <<log, appendReqs, applied>>
    BY <1>4 DEF vars, logVars, netVars
  <2>3. Links' = Links
    BY <2>2 DEF Links, LogLinks, LogLink, CallLinks, CallLink
  <2> QED
    BY <1>4, <2>1, <2>2, <2>3 DEF AcceptInv, ToldInv, Told, RequestType
<1>5. CASE CrashAndStart
  BY <1>5, CrashIsInit, AcceptInvInitNext DEF CrashAndStart
<1> QED
  BY <1>1, <1>2, <1>3, <1>4, <1>5, KVCases

LEMMA AcceptInvAlways == KVSpec => []AcceptInv
<1>1. KVInit => AcceptInv
  BY AcceptInvInit DEF KVInit
<1> QED
  BY <1>1, AcceptInvStep, PTL DEF KVSpec

\* A store is given accepted commands only, each at the index that its client
\* was told by Start, and none twice, whatever becomes of terms and leaders.
THEOREM AcceptedCorrect == KVSpec => []AppliedWhereAccepted
<1>1. AcceptInv => AppliedWhereAccepted
  BY DEF AcceptInv, ToldInv, Told, AppliedWhereAccepted
<1> QED
  BY <1>1, AcceptInvAlways, PTL

-----------------------------------------------------------------------------
(* What a store shows and what its WAL holds.                              *)

\* The map of a sequence of writes, as it and StoreFollows choose the last
\* write of a key.
LEMMA MapIs ==
    ASSUME NEW i \in Node, NEW s
    PROVE  Map(i)!MapOf(s) = [k \in Key |-> IF Writes(s, k) = {} THEN None
                                            ELSE LastWrite(s, k)]
BY DEF Map!MapOf, Writes, LastWrite

\* StoreFollows overwrites what the map of s holds by the later writes.
LEMMA MapAppend ==
    ASSUME NEW i \in Node, NEW s \in Seq(Command), NEW t \in Seq(Command)
    PROVE  Map(i)!MapOf(s \o t) = [k \in Key |->
              IF Writes(t, k) = {} THEN Map(i)!MapOf(s)[k] ELSE LastWrite(t, k)]
<1>1. ASSUME NEW k \in Key
      PROVE  (IF Writes(s \o t, k) = {} THEN None ELSE LastWrite(s \o t, k))
             = IF Writes(t, k) = {}
               THEN IF Writes(s, k) = {} THEN None ELSE LastWrite(s, k)
               ELSE LastWrite(t, k)
  BY LastWriteAppend
<1> QED
  BY <1>1, MapIs

\* A sequence is what it extends another one by, after that one.
LEMMA ExtendsIs ==
    ASSUME NEW i \in Node, NEW s \in Seq(Command), NEW t \in Seq(Command)
    PROVE  Map(i)!Extends(t, s) <=>
              Len(s) <= Len(t) /\ \A k \in 1 .. Len(s) : t[k] = s[k]
<1>1. /\ Len(s) \in Nat /\ Len(t) \in Nat
      /\ \A k \in 1 .. Len(t) : t[k] \in Command
  OBVIOUS
<1>2. CASE Len(s) <= Len(t)
  <2> DEFINE u == SubSeq(t, 1, Len(s))
  <2>0. \A k \in 1 .. Len(s) : t[k] \in Command /\ 1 + k - 1 = k
    BY <1>1, <1>2
  <2>1. u \in Seq(Command) /\ Len(u) = Len(s) /\ \A k \in 1 .. Len(s) : u[k] = t[k]
    BY <1>1, <1>2, <2>0, SubSeqProperties
  <2> HIDE DEF u
  <2>2. u = s <=> \A k \in 1 .. Len(s) : u[k] = s[k]
    BY <2>1, SeqEqual
  <2> QED
    BY <1>2, <2>1, <2>2 DEF Map!Extends, u
<1> QED
  BY <1>2 DEF Map!Extends

\* The first n commands that node i has applied, after those it started with.
Shows(i, n) == base[i] \o SubSeq(applied[i], 1, n)

\* A store without a gap has everything in the map and in the WAL.
StoreInv ==
    /\ base \in [Node -> Seq(Command)]
    /\ journal \in [Node -> Seq(Command)]
    /\ gap \in [Node -> BOOLEAN]
    /\ data = [i \in Node |-> data[i]]
    /\ \A i \in Node : \E n \in 0 .. Len(applied[i]) :
          /\ data[i] = Map(i)!MapOf(Shows(i, n))
          /\ Map(i)!Extends(journal[i], Shows(i, n))
          /\ ~gap[i] => n = Len(applied[i]) /\ journal[i] = Shows(i, n)

\* What StoreFollows shows of the new commands is a beginning of them, and a
\* beginning of what is put into the WAL.
LEMMA ShownIsPrefix ==
    ASSUME StoreInv, NEW i \in Node, NEW len \in Nat, NEW fate \in [1 .. len -> Fates(i)]
    PROVE  \E p \in 0 .. len :
              /\ Shown(i, fate) = 1 .. p
              /\ gap[i] => p = 0
              /\ ~gap[i] /\ (\A k \in 1 .. len : fate[k] = "ok") => p = len
              /\ \A k \in 1 .. p : fate[k] = "ok"
<1> DEFINE S == Shown(i, fate)
<1>1. /\ DOMAIN fate = 1 .. len
      /\ \A k : k \in S <=> k \in 1 .. len /\ ~gap[i] /\ \A q \in 1 .. k : fate[q] = "ok"
  BY DEF Shown
<1> HIDE DEF S
<1>2. CASE S = {}
  <2>1. S = 1 .. 0
    BY <1>2
  <2>2. ~gap[i] /\ (\A k \in 1 .. len : fate[k] = "ok") => len = 0
    <3> SUFFICES ASSUME ~gap[i], \A k \in 1 .. len : fate[k] = "ok", len # 0
                 PROVE  FALSE
      OBVIOUS
    <3>1. 1 \in 1 .. len /\ \A q \in 1 .. 1 : q \in 1 .. len
      OBVIOUS
    <3> QED
      BY <1>1, <1>2, <3>1
  <2> QED
    BY <2>1, <2>2 DEF S
<1>3. CASE S # {}
  <2>0. S \subseteq 0 .. len
    BY <1>1
  <2>1. PICK p \in S : \A q \in S : q <= p
    BY <1>3, <2>0, LastOfPositions
  <2>2. p \in 1 .. len /\ ~gap[i] /\ \A q \in 1 .. p : fate[q] = "ok"
    BY <1>1
  <2>3. S = 1 .. p
    <3>1. ASSUME NEW k \in 1 .. p
          PROVE  k \in S
      <4>1. k \in 1 .. len /\ \A q \in 1 .. k : q \in 1 .. p
        BY <2>2
      <4> QED
        BY <1>1, <2>2, <4>1
    <3>2. \A q \in S : q \in 1 .. p
      BY <1>1, <2>1, <2>2
    <3> QED
      BY <3>1, <3>2
  <2>4. (\A k \in 1 .. len : fate[k] = "ok") => p = len
    <3> SUFFICES ASSUME \A k \in 1 .. len : fate[k] = "ok"
                 PROVE  p = len
      OBVIOUS
    <3>1. len \in S
      BY <1>1, <2>2
    <3> QED
      BY <2>1, <2>2, <3>1
  <2> QED
    BY <2>2, <2>3, <2>4 DEF S
<1> QED
  BY <1>2, <1>3

LEMMA ConcatCommands ==
    \A s, t, u \in Seq(Command) : (s \o t) \o u = s \o (t \o u)
<1> SUFFICES ASSUME NEW s \in Seq(Command), NEW t \in Seq(Command), NEW u \in Seq(Command)
             PROVE  (s \o t) \o u = s \o (t \o u)
  OBVIOUS
<1> QED
  BY ConcatAssociative

\* The step of the store of node i, when its node has been given new commands.
LEMMA StoreStep ==
    ASSUME StoreInv, NEW i \in Node, NEW new \in Seq(Command), StoreFollows(i, new),
           applied \in [Node -> Seq(Command)], applied' \in [Node -> Seq(Command)],
           applied'[i] = applied[i] \o new,
           \A j \in Node \ {i} : applied'[j] = applied[j],
           UNCHANGED base
    PROVE  StoreInv'
<1> DEFINE A == applied[i]
           B == base[i]
           J == journal[i]
<1>1. PICK fate \in [1 .. Len(new) -> Fates(i)] :
        LET shown == Only(new, Shown(i, fate))
            on(k) == {q \in DOMAIN shown : shown[q].key = k}
        IN  /\ journal' = [journal EXCEPT ![i] = @ \o
                             Only(new, {k \in DOMAIN new : fate[k] # "lost"})]
            /\ gap' = [gap EXCEPT ![i] =
                         @ \/ \E k \in DOMAIN fate : fate[k] # "ok"]
            /\ data' = [data EXCEPT ![i] = [k \in Key |->
                         IF on(k) = {} THEN @[k]
                         ELSE LET last == CHOOSE q \in on(k) :
                                            \A p \in on(k) : p <= q
                              IN  shown[last].value]]
  BY DEF StoreFollows
<1> DEFINE K     == {k \in DOMAIN new : fate[k] # "lost"}
           kept  == Only(new, K)
           shown == Only(new, Shown(i, fate))
<1>2. PICK p \in 0 .. Len(new) :
         /\ Shown(i, fate) = 1 .. p
         /\ gap[i] => p = 0
         /\ ~gap[i] /\ (\A k \in 1 .. Len(new) : fate[k] = "ok") => p = Len(new)
         /\ \A k \in 1 .. p : fate[k] = "ok"
  <2>1. Len(new) \in Nat
    OBVIOUS
  <2> QED
    BY <2>1, ShownIsPrefix
<1>3. /\ A \in Seq(Command) /\ B \in Seq(Command) /\ J \in Seq(Command)
      /\ DOMAIN new = 1 .. Len(new) /\ Len(new) \in Nat
      /\ DOMAIN fate = 1 .. Len(new)
  BY DEF StoreInv
<1>4. /\ shown \in Seq(Command) /\ Len(shown) = p
      /\ \A k \in 1 .. p : shown[k] = new[k]
  BY <1>2, OnlyPrefix
<1>5. /\ kept \in Seq(Command) /\ p <= Len(kept) /\ Len(kept) \in Nat
      /\ \A k \in 1 .. p : kept[k] = new[k]
  <2>1. K \subseteq 1 .. Len(new) /\ 1 .. p \subseteq K
    <3>1. p \in 0 .. Len(new) /\ \A k \in 1 .. p : fate[k] = "ok"
      BY <1>2
    <3>2. K = {k \in 1 .. Len(new) : fate[k] # "lost"}
      BY <1>3
    <3>3. \A k \in 1 .. p : k \in 1 .. Len(new)
      BY <1>3, <3>1
    <3>4. \A k \in 1 .. p : fate[k] # "lost"
      BY <3>1
    <3> HIDE DEF K
    <3> QED
      BY <3>2, <3>3, <3>4
  <2>2. p \in 0 .. Len(new)
    BY <1>2
  <2> HIDE DEF K
  <2>3. /\ Only(new, K) \in Seq(Command) /\ Len(Only(new, K)) = Cardinality(K)
        /\ Cardinality(K) \in Nat /\ p <= Cardinality(K)
        /\ \A k \in 1 .. p : Only(new, K)[k] = new[k]
    BY <2>1, <2>2, OnlyIs
  <2> QED
    BY <2>3
<1>6. (\A k \in 1 .. Len(new) : fate[k] = "ok") => kept = new
  <2> SUFFICES ASSUME \A k \in 1 .. Len(new) : fate[k] = "ok"
               PROVE  kept = new
    OBVIOUS
  <2>1. K = 1 .. Len(new)
    BY <1>3
  <2>2. /\ Only(new, 1 .. Len(new)) \in Seq(Command)
        /\ Len(Only(new, 1 .. Len(new))) = Len(new)
        /\ \A k \in 1 .. Len(new) : Only(new, 1 .. Len(new))[k] = new[k]
    <3>1. Len(new) \in 0 .. Len(new)
      BY <1>3
    <3> QED
      BY <3>1, OnlyPrefix
  <2> QED
    BY <2>1, <2>2, SeqEqual
<1> HIDE DEF kept, shown, A, B, J
<1>7. /\ journal' = [journal EXCEPT ![i] = J \o kept]
      /\ gap' = [gap EXCEPT ![i] = gap[i] \/ \E k \in 1 .. Len(new) : fate[k] # "ok"]
      /\ data' = [data EXCEPT ![i] =
            [k \in Key |-> IF Writes(shown, k) = {} THEN data[i][k]
                           ELSE LastWrite(shown, k)]]
  BY <1>1, <1>3 DEF StoreInv, J, kept, shown, Writes, LastWrite
<1>8. /\ journal'[i] = J \o kept
      /\ gap'[i] <=> gap[i] \/ \E k \in 1 .. Len(new) : fate[k] # "ok"
      /\ data'[i] = [k \in Key |-> IF Writes(shown, k) = {} THEN data[i][k]
                                   ELSE LastWrite(shown, k)]
      /\ \A j \in Node \ {i} : /\ journal'[j] = journal[j] /\ gap'[j] = gap[j]
                               /\ data'[j] = data[j]
      /\ data' = [j \in Node |-> data'[j]]
  BY <1>7 DEF StoreInv
<1>9. J \o kept \in Seq(Command)
  BY <1>3, <1>5, ConcatProperties
<1>10. journal' \in [Node -> Seq(Command)] /\ gap' \in [Node -> BOOLEAN]
  BY <1>7, <1>9 DEF StoreInv
<1>11. PICK n \in 0 .. Len(A) :
          /\ data[i] = Map(i)!MapOf(Shows(i, n))
          /\ Map(i)!Extends(J, Shows(i, n))
          /\ ~gap[i] => n = Len(A) /\ J = Shows(i, n)
  BY DEF StoreInv, A, J
\* What the store shows after the step.
<1>12. n + p \in 0 .. Len(applied'[i]) /\ Shows(i, n + p)' = Shows(i, n) \o shown
  <2>1. applied'[i] = A \o new
    BY DEF A
  <2>2. /\ A \o new \in Seq(Command) /\ Len(A \o new) = Len(A) + Len(new)
        /\ \A k \in 1 .. Len(A) + Len(new) :
              (A \o new)[k] = IF k <= Len(A) THEN A[k] ELSE new[k - Len(A)]
    BY <1>3, ConcatProperties
  <2>3. Len(A) \in Nat /\ n \in Nat /\ p \in Nat /\ n <= Len(A) /\ p <= Len(new)
    <3>1. n \in 0 .. Len(A) /\ p \in 0 .. Len(new)
      OBVIOUS
    <3>2. Len(A) \in Nat /\ Len(new) \in Nat
      BY <1>3
    <3> QED
      BY <3>1, <3>2
  <2>4. p = 0 \/ n = Len(A)
    BY <1>2, <1>11 DEF StoreInv
  <2> DEFINE a == SubSeq(A, 1, n)
             b == SubSeq(A \o new, 1, n + p)
  <2>5. a \in Seq(Command) /\ Len(a) = n /\ \A k \in 1 .. n : a[k] = A[k]
    <3>1. \A k \in 1 .. n : A[k] \in Command /\ 1 + k - 1 = k
      BY <1>3, <2>3
    <3> QED
      BY <2>3, <3>1, SubSeqProperties
  <2>6. /\ b \in Seq(Command) /\ Len(b) = n + p
        /\ \A k \in 1 .. n + p : b[k] = (A \o new)[k]
    <3> DEFINE C == A \o new
    <3>1. \A k \in 1 .. n + p : C[k] \in Command /\ 1 + k - 1 = k
      BY <1>3, <2>2, <2>3
    <3> HIDE DEF C
    <3>2. n + p - 1 + 1 = n + p /\ n + p \in Nat
      BY <2>3
    <3> QED
      BY <2>3, <3>1, <3>2, SubSeqProperties DEF C
  <2> HIDE DEF a, b
  <2>7. /\ a \o shown \in Seq(Command) /\ Len(a \o shown) = n + p
        /\ \A k \in 1 .. n + p : (a \o shown)[k] = IF k <= n THEN a[k] ELSE shown[k - n]
    BY <1>4, <2>5, ConcatProperties
  <2>8. ASSUME NEW k \in 1 .. n + p
        PROVE  b[k] = (a \o shown)[k]
    <3>1. k \in 1 .. Len(A) + Len(new)
      BY <1>3, <2>3
    <3>2. CASE k <= n
      <4>1. k \in 1 .. n /\ k <= Len(A)
        BY <2>3, <3>2
      <4> QED
        BY <2>2, <2>5, <2>6, <2>7, <3>1, <3>2, <4>1
    <3>3. CASE ~(k <= n)
      <4>1. k - n \in 1 .. p /\ n = Len(A) /\ ~(k <= Len(A))
        BY <2>3, <2>4, <3>3
      <4> QED
        BY <1>4, <2>2, <2>6, <2>7, <3>1, <3>3, <4>1
    <3> QED
      BY <3>2, <3>3
  <2>9. b = a \o shown
    BY <2>6, <2>7, <2>8, SeqEqual
  <2>10. Shows(i, n + p)' = B \o b /\ Shows(i, n) = B \o a
    BY <2>1 DEF Shows, A, B, a, b
  <2>11. (B \o a) \o shown = B \o (a \o shown)
    <3>1. B \in Seq(Command) /\ a \in Seq(Command) /\ shown \in Seq(Command)
      BY <1>3, <1>4, <2>5
    <3> HIDE DEF B, a, shown
    <3> QED
      BY <3>1, ConcatCommands
  <2>12. n + p \in 0 .. Len(applied'[i])
    BY <1>3, <2>1, <2>2, <2>3
  <2> QED
    BY <2>9, <2>10, <2>11, <2>12
<1>13. Shows(i, n) \in Seq(Command)
  <2>1. SubSeq(A, 1, n) \in Seq(Command)
    <3>1. n \in Nat /\ \A k \in 1 .. n : A[k] \in Command
      BY <1>3, <1>11
    <3> QED
      BY <3>1, SubSeqProperties
  <2> QED
    BY <1>3, <2>1, ConcatProperties DEF Shows, A, B
<1> DEFINE S == Shows(i, n)
           T == S \o shown
<1>14. Map(i)!MapOf(T) = data'[i]
  BY <1>4, <1>8, <1>11, <1>13, MapAppend
<1>15. T \in Seq(Command) /\ Map(i)!Extends(J \o kept, T)
  <2> HIDE DEF S
  <2>0. S \in Seq(Command) /\ Len(S) \in Nat /\ Len(J) \in Nat
    BY <1>3, <1>13 DEF S
  <2>1. Len(S) <= Len(J) /\ \A k \in 1 .. Len(S) : J[k] = S[k]
    BY <1>3, <1>11, <1>13, ExtendsIs DEF S
  <2>2. /\ T \in Seq(Command) /\ Len(T) = Len(S) + p
        /\ \A k \in 1 .. Len(S) + p :
              T[k] = IF k <= Len(S) THEN S[k] ELSE shown[k - Len(S)]
    BY <1>4, <2>0, ConcatProperties
  <2>3. /\ Len(J \o kept) = Len(J) + Len(kept)
        /\ \A k \in 1 .. Len(J) + Len(kept) :
              (J \o kept)[k] = IF k <= Len(J) THEN J[k] ELSE kept[k - Len(J)]
    BY <1>3, <1>5, ConcatProperties
  <2>4. p = 0 \/ Len(S) = Len(J)
    BY <1>2, <1>11 DEF StoreInv, S
  <2> HIDE DEF T
  <2>5. ASSUME NEW k \in 1 .. Len(T)
        PROVE  (J \o kept)[k] = T[k]
    <3>1. k \in 1 .. Len(J) + Len(kept) /\ k \in 1 .. Len(S) + p /\ p \in Nat
      BY <1>2, <1>5, <2>0, <2>1, <2>2
    <3>2. CASE k <= Len(S)
      <4>1. k \in 1 .. Len(S) /\ k <= Len(J)
        BY <2>0, <2>1, <3>1, <3>2
      <4> QED
        BY <2>1, <2>2, <2>3, <3>1, <3>2, <4>1
    <3>3. CASE ~(k <= Len(S))
      <4>1. k - Len(S) \in 1 .. p /\ Len(S) = Len(J)
        BY <2>0, <2>4, <3>1, <3>3
      <4>2. kept[k - Len(S)] = shown[k - Len(S)]
        BY <1>4, <1>5, <4>1
      <4> QED
        BY <2>2, <2>3, <3>1, <3>3, <4>1, <4>2
    <3> QED
      BY <3>2, <3>3
  <2>6. Len(T) <= Len(J \o kept)
    BY <1>5, <2>0, <2>1, <2>2, <2>3
  <2> QED
    BY <1>9, <2>2, <2>5, <2>6, ExtendsIs
<1>16. ~gap'[i] => n + p = Len(applied'[i]) /\ J \o kept = T
  <2> SUFFICES ASSUME ~gap'[i]
               PROVE  n + p = Len(applied'[i]) /\ J \o kept = T
    OBVIOUS
  <2>1. ~gap[i] /\ \A k \in 1 .. Len(new) : fate[k] = "ok"
    BY <1>8
  <2>2. p = Len(new) /\ kept = new /\ n = Len(A) /\ J = S
    BY <1>2, <1>6, <1>11, <2>1
  <2>3. shown = new
    BY <1>4, <2>2, SeqEqual
  <2>4. Len(applied'[i]) = Len(A) + Len(new)
    BY <1>3, ConcatProperties DEF A
  <2> QED
    BY <2>2, <2>3, <2>4
<1> HIDE DEF T, S
<1>17. \E q \in 0 .. Len(applied'[i]) :
          /\ data'[i] = Map(i)!MapOf(Shows(i, q)')
          /\ Map(i)!Extends(journal'[i], Shows(i, q)')
          /\ ~gap'[i] => q = Len(applied'[i]) /\ journal'[i] = Shows(i, q)'
  <2>1. Shows(i, n + p)' = T /\ n + p \in 0 .. Len(applied'[i])
    BY <1>12 DEF T, S
  <2>2. /\ data'[i] = Map(i)!MapOf(Shows(i, n + p)')
        /\ Map(i)!Extends(journal'[i], Shows(i, n + p)')
        /\ ~gap'[i] => n + p = Len(applied'[i]) /\ journal'[i] = Shows(i, n + p)'
    BY <1>8, <1>14, <1>15, <1>16, <2>1
  <2> QED
    BY <2>1, <2>2
<1>18. ASSUME NEW j \in Node, j # i
       PROVE  \E q \in 0 .. Len(applied'[j]) :
                /\ data'[j] = Map(j)!MapOf(Shows(j, q)')
                /\ Map(j)!Extends(journal'[j], Shows(j, q)')
                /\ ~gap'[j] => q = Len(applied'[j]) /\ journal'[j] = Shows(j, q)'
  <2>1. /\ applied'[j] = applied[j] /\ journal'[j] = journal[j]
        /\ gap'[j] = gap[j] /\ data'[j] = data[j] /\ base'[j] = base[j]
    BY <1>8, <1>18
  <2>2. \A q : Shows(j, q)' = Shows(j, q)
    BY <2>1 DEF Shows
  <2> QED
    BY <2>1, <2>2 DEF StoreInv
<1> QED
  BY <1>8, <1>10, <1>17, <1>18 DEF StoreInv

\* The new commands are what applied has beyond what it had.
LEMMA GrowsBy ==
    ASSUME TypeInv, TypeInv', NEW i \in Node, Grows(i)
    PROVE  LET new == SubSeq(applied'[i], Len(applied[i]) + 1, Len(applied'[i]))
           IN  new \in Seq(Command) /\ applied'[i] = applied[i] \o new
<1> DEFINE A   == applied[i]
           C   == applied'[i]
           new == SubSeq(C, Len(A) + 1, Len(C))
<1>1. /\ A \in Seq(Command) /\ C \in Seq(Command) /\ Len(A) \in Nat /\ Len(C) \in Nat
      /\ Len(A) <= Len(C) /\ \A k \in 1 .. Len(A) : C[k] = A[k]
  <2>1. A \in Seq(Command) /\ C \in Seq(Command)
    BY DEF TypeInv, TypeOK
  <2>2. Len(A) <= Len(C) /\ \A k \in 1 .. Len(C) : k <= Len(A) => C[k] = A[k]
    BY DEF Grows
  <2> HIDE DEF A, C
  <2> QED
    BY <2>1, <2>2
<1> HIDE DEF A, C
<1>2. /\ new \in Seq(Command) /\ Len(new) = Len(C) - Len(A)
      /\ \A k \in 1 .. Len(C) - Len(A) : new[k] = C[Len(A) + k]
  <2>1. \A k \in Len(A) + 1 .. Len(C) : C[k] \in Command
    BY <1>1
  <2>2. \A k \in 1 .. Len(C) - Len(A) : /\ k \in 1 .. Len(C) - (Len(A) + 1) + 1
                                        /\ Len(A) + 1 + k - 1 = Len(A) + k
    BY <1>1
  <2>3. /\ new \in Seq(Command)
        /\ Len(new) = IF Len(A) + 1 <= Len(C) THEN Len(C) - (Len(A) + 1) + 1 ELSE 0
        /\ \A k \in 1 .. Len(C) - (Len(A) + 1) + 1 : new[k] = C[Len(A) + 1 + k - 1]
    BY <1>1, <2>1, SubSeqProperties
  <2> HIDE DEF new
  <2>4. Len(new) = Len(C) - Len(A)
    BY <1>1, <2>3
  <2> QED
    BY <2>2, <2>3, <2>4
<1> HIDE DEF new
<1>3. /\ A \o new \in Seq(Command) /\ Len(A \o new) = Len(C)
      /\ \A k \in 1 .. Len(C) : (A \o new)[k] = IF k <= Len(A) THEN A[k] ELSE new[k - Len(A)]
  <2>1. /\ A \o new \in Seq(Command) /\ Len(A \o new) = Len(A) + Len(new)
        /\ \A k \in 1 .. Len(A) + Len(new) :
              (A \o new)[k] = IF k <= Len(A) THEN A[k] ELSE new[k - Len(A)]
    BY <1>1, <1>2, ConcatProperties
  <2>2. Len(A) + Len(new) = Len(C)
    BY <1>1, <1>2
  <2> QED
    BY <2>1, <2>2
<1>4. ASSUME NEW k \in 1 .. Len(C)
      PROVE  (A \o new)[k] = C[k]
  <2>1. CASE k <= Len(A)
    BY <1>1, <1>3, <2>1
  <2>2. CASE ~(k <= Len(A))
    <3>1. k - Len(A) \in 1 .. Len(C) - Len(A) /\ Len(A) + (k - Len(A)) = k
      BY <1>1, <2>2
    <3>2. new[k - Len(A)] = C[k]
      BY <1>2, <3>1
    <3> QED
      BY <1>3, <2>2, <3>2
  <2> QED
    BY <2>1, <2>2
<1>5. A \o new = C
  BY <1>1, <1>3, <1>4, SeqEqual
<1> QED
  BY <1>2, <1>5 DEF A, C, new

LEMMA StoresStep ==
    ASSUME TypeInv, TypeInv', StoreInv, NodeStep, Stores, UNCHANGED base
    PROVE  StoreInv'
<1>1. CASE applied' = applied
  <2>1. UNCHANGED storeVars
    BY <1>1 DEF Stores
  <2>2. \A i, n : Shows(i, n)' = Shows(i, n)
    BY <1>1 DEF Shows
  <2> QED
    BY <1>1, <2>1, <2>2 DEF StoreInv, storeVars
<1>2. CASE applied' # applied
  <2>1. PICK i \in Node :
          /\ applied'[i] # applied[i]
          /\ StoreFollows(i, SubSeq(applied'[i], Len(applied[i]) + 1, Len(applied'[i])))
    BY <1>2 DEF Stores
  <2>2. PICK j \in Node : Grows(j)
    BY <1>2, AppliedNodeStep
  <2>3. j = i
    BY <2>1, <2>2 DEF Grows
  <2> DEFINE new == SubSeq(applied'[i], Len(applied[i]) + 1, Len(applied'[i]))
  <2>4. new \in Seq(Command) /\ applied'[i] = applied[i] \o new
    BY <2>2, <2>3, GrowsBy
  <2>5. StoreFollows(i, new)
    BY <2>1
  <2>6. /\ \A k \in Node \ {i} : applied'[k] = applied[k]
        /\ applied \in [Node -> Seq(Command)] /\ applied' \in [Node -> Seq(Command)]
    BY <2>2, <2>3 DEF Grows, TypeInv, TypeOK
  <2> HIDE DEF new
  <2> QED
    BY <2>4, <2>5, <2>6, StoreStep
<1> QED
  BY <1>1, <1>2

\* New replays the WAL: a store starts with all that is in it.
LEMMA StoreReplays ==
    ASSUME NEW i \in Node, NEW j \in Seq(Command)
    PROVE  /\ j \o SubSeq(<<>>, 1, 0) = j
           /\ Map(i)!Extends(j, j)
<1>1. SubSeq(<<>>, 1, 0) = <<>>
  BY SubSeqEmpty
<1>2. j \o <<>> = j
  BY ConcatEmptySeq
<1>3. Map(i)!Extends(j, j)
  BY ExtendsIs
<1> QED
  BY <1>1, <1>2, <1>3

LEMMA StoreCrash ==
    ASSUME StoreInv, CrashAndStart
    PROVE  StoreInv'
<1>1. /\ base' = journal /\ journal' = journal
      /\ data' = [i \in Node |-> Map(i)!MapOf(journal[i])]
      /\ gap' = [i \in Node |-> FALSE] /\ applied' = [i \in Node |-> <<>>]
  BY DEF CrashAndStart
<1>2. /\ base' \in [Node -> Seq(Command)] /\ journal' \in [Node -> Seq(Command)]
      /\ gap' \in [Node -> BOOLEAN]
  BY <1>1 DEF StoreInv
<1>3. data' = [i \in Node |-> data'[i]]
  BY <1>1
<1>4. ASSUME NEW i \in Node
      PROVE  \E n \in 0 .. Len(applied'[i]) :
                /\ data'[i] = Map(i)!MapOf(Shows(i, n)')
                /\ Map(i)!Extends(journal'[i], Shows(i, n)')
                /\ ~gap'[i] => n = Len(applied'[i]) /\ journal'[i] = Shows(i, n)'
  <2>1. journal[i] \in Seq(Command) /\ applied'[i] = <<>> /\ Len(applied'[i]) = 0
    BY <1>1 DEF StoreInv
  <2>2. Shows(i, 0)' = journal[i]
    BY <1>1, <2>1, StoreReplays DEF Shows
  <2>3. data'[i] = Map(i)!MapOf(journal[i])
    BY <1>1
  <2>4. Map(i)!Extends(journal[i], journal[i])
    BY <2>1, StoreReplays
  <2>5. 0 \in 0 .. Len(applied'[i])
    BY <2>1
  <2> QED
    BY <1>1, <2>1, <2>2, <2>3, <2>4, <2>5
<1> QED
  BY <1>2, <1>3, <1>4 DEF StoreInv

LEMMA StoreInit == KVInit => StoreInv
<1> SUFFICES ASSUME KVInit PROVE StoreInv
  OBVIOUS
<1>1. /\ journal = [i \in Node |-> <<>>] /\ base = [i \in Node |-> <<>>]
      /\ data = [i \in Node |-> [k \in Key |-> None]]
      /\ gap = [i \in Node |-> FALSE] /\ applied = [i \in Node |-> <<>>]
  BY DEF KVInit, Init
<1>2. <<>> \in Seq(Command) /\ Len(<<>>) = 0
  BY EmptySeq
<1>3. ASSUME NEW i \in Node
      PROVE  /\ data[i] = Map(i)!MapOf(Shows(i, 0))
             /\ Map(i)!Extends(journal[i], Shows(i, 0))
             /\ 0 = Len(applied[i]) /\ journal[i] = Shows(i, 0)
             /\ 0 \in 0 .. Len(applied[i])
  <2>1. Shows(i, 0) = <<>> /\ journal[i] = <<>>
    BY <1>1, <1>2, StoreReplays DEF Shows
  <2>2. Map(i)!MapOf(<<>>) = [k \in Key |-> None]
    BY MapIs DEF Writes
  <2> QED
    <3>1. Map(i)!Extends(<<>>, <<>>)
      BY <1>2, StoreReplays
    <3>2. data[i] = [k \in Key |-> None] /\ Len(applied[i]) = 0 /\ 0 \in 0 .. 0
      BY <1>1, <1>2
    <3> QED
      BY <2>1, <2>2, <3>1, <3>2
<1>4. data = [i \in Node |-> data[i]]
  BY <1>1
<1>5. /\ base \in [Node -> Seq(Command)] /\ journal \in [Node -> Seq(Command)]
      /\ gap \in [Node -> BOOLEAN]
  BY <1>1, <1>2
<1> QED
  BY <1>3, <1>4, <1>5 DEF StoreInv

LEMMA StoreInvStep ==
    ASSUME TypeInv, RequestType, StoreInv, [KVNext]_kvVars
    PROVE  StoreInv'
<1>1. CASE NodeStep /\ Stores /\ UNCHANGED <<request, base>>
  BY <1>1, TypeNodeStep, StoresStep
<1>2. ASSUME UNCHANGED <<storeVars, base, applied>>
      PROVE  StoreInv'
  <2>1. \A i, n : Shows(i, n)' = Shows(i, n)
    BY <1>2 DEF Shows
  <2> QED
    BY <1>2, <2>1 DEF StoreInv, storeVars
<1>3. ASSUME NEW c \in Command, Accepted(c), UNCHANGED <<storeVars, base>>
      PROVE  StoreInv'
  BY <1>2, <1>3 DEF Accepted, Start
<1>4. CASE UNCHANGED <<vars, storeVars, base>>
  BY <1>2, <1>4 DEF vars, logVars
<1>5. CASE CrashAndStart
  BY <1>5, StoreCrash
<1> QED
  BY <1>1, <1>3, <1>4, <1>5, KVCases

\* Whatever the WALs fail to write, a store shows what its node has applied up
\* to some point and no more, and everything it shows is in its WAL.
THEOREM StoresCorrect == KVSpec => []NoHoles
<1>1. KVInit => StoreInv /\ LeaderInv
  BY StoreInit, LeaderInvInit DEF KVInit
<1>2. StoreInv /\ LeaderInv /\ [KVNext]_kvVars => StoreInv'
  BY StoreInvStep DEF LeaderInv
<1>3. StoreInv => NoHoles
  BY DEF StoreInv, NoHoles, Shows
<1> QED
  BY <1>1, <1>2, <1>3, LeaderInvAlways, PTL DEF KVSpec

-----------------------------------------------------------------------------
(* Two stores.  What is proved about Spec of the nodes holds of them in    *)
(* the server too: between two crashes its steps are theirs, but that a    *)
(* Stop may hit any node.                                                  *)

NodesInv == RaftInv /\ BoundInv /\ CommitState

NodesSame == UNCHANGED <<termVars, leaderID, logVars, leaderVars, votes, netVars, elections>>

\* What is known of the nodes says nothing of their timers, nor of which of
\* them run.
LEMMA SameRaftInv ==
    ASSUME RaftInv, TypeInv', NodesSame
    PROVE  RaftInv'
<1>1. VoteInv'
  BY DEF RaftInv, VoteInv, VoteIsFor, NodesSame, termVars, netVars
<1>2. MatchInv'
  <2>1. Links' = Links
    BY DEF Links, LogLinks, CallLinks, LogLink, CallLink, NodesSame, logVars, netVars
  <2> QED
    BY <2>1 DEF RaftInv, MatchInv, OneLink, ElectedInv, FreshInv, NodesSame, termVars, logVars
<1>3. HoldInv'
  BY DEF RaftInv, HoldInv, Held, Slice, Won, NodesSame, termVars, logVars, leaderVars, netVars
<1>4. VoteCallInv'
  BY DEF RaftInv, VoteCallInv, NodesSame, termVars, logVars, netVars
<1> QED
  BY <1>1, <1>2, <1>3, <1>4 DEF RaftInv

LEMMA SameCommitState ==
    ASSUME CommitState, NodesSame
    PROVE  CommitState'
<1>1. PICK L \in Histories : /\ History(L) /\ KeptInv(L)
                             /\ \E D \in Marks : CommitInv(L, D)
  BY DEF CommitState
<1>2. PICK D \in Marks : CommitInv(L, D)
  BY <1>1
<1>3. History(L)'
  BY <1>1 DEF History, FromLeaders, WonTerm, SliceOf, NodesSame, termVars, logVars, netVars
<1>4. /\ \A v, c : VotedNow(v, c)' <=> VotedNow(v, c)
      /\ \A i, k, p : Acked(i, k, p)' <=> Acked(i, k, p)
      /\ \A t : WonTerm(t)' <=> WonTerm(t)
      /\ \A T, Q : Backed(T, Q)' <=> Backed(T, Q)
  BY DEF VotedNow, Acked, WonTerm, Backed, NodesSame, termVars, leaderVars, netVars
<1>5. \A T, k, Q : KeptFor(L, T, k, Q)' <=> KeptFor(L, T, k, Q)
  BY <1>4 DEF KeptFor, NodesSame, termVars, logVars
<1>6. \A i, k, T, Q : Chosen(i, k, T, Q)' <=> Chosen(i, k, T, Q)
  BY <1>4 DEF Chosen, NodesSame, termVars, logVars
<1>7. KeptInv(L)'
  BY <1>1, <1>5, <1>6 DEF KeptInv
<1>8. CommitInv(L, D)'
  BY <1>2, <1>5 DEF CommitInv, Durable, NodesSame, termVars, logVars, netVars
<1> QED
  BY <1>3, <1>7, <1>8 DEF CommitState

LEMMA NodesSameStep ==
    ASSUME NodesInv, TypeInv', NodesSame
    PROVE  NodesInv'
<1>1. BoundInv'
  BY DEF NodesInv, BoundInv, NodesSame, termVars, netVars
<1> QED
  BY <1>1, SameRaftInv, SameCommitState DEF NodesInv

LEMMA NodesInit == Init => NodesInv
BY RaftInvInit, BoundInit, CommitInit DEF NodesInv

LEMMA NodesInitNext == Init' => NodesInv'
BY NodesInit, PTL

\* The server takes a step of Next, or leaves the nodes as they are but for
\* what Stop does, or begins anew.
LEMMA NodesCases ==
    ASSUME RequestType, [KVNext]_kvVars
    PROVE  \/ Next
           \/ NodesSame /\ (NodeStep \/ UNCHANGED vars)
           \/ Init'
<1>1. ASSUME NodeStep
      PROVE  Next \/ NodesSame
  BY <1>1 DEF NodeStep, Next, Stop, NodesSame
<1>2. ASSUME NEW c \in Command, Accepted(c)
      PROVE  Next
  BY <1>2, ClientOf DEF Accepted, RequestType, Next
<1>3. UNCHANGED vars => NodesSame
  BY DEF vars, NodesSame
<1> QED
  BY <1>1, <1>2, <1>3, KVCases, CrashIsInit

LEMMA NodesStep ==
    ASSUME NoRestart, RequestType, NodesInv, [KVNext]_kvVars,
           MaxTerm <= 3
    PROVE  NodesInv'
<1>0. TypeInv
  BY DEF NodesInv, RaftInv
<1>1. CASE Next
  <2>1. CountsSafe
    BY <1>1, FewAreSafe DEF NodesInv
  <2> QED
    BY <1>1, <2>1, CommitStateStep DEF NodesInv
<1>2. CASE NodesSame /\ (NodeStep \/ UNCHANGED vars)
  BY <1>0, <1>2, TypeNodeStep, TypeStep, NodesSameStep
<1>3. CASE Init'
  BY <1>3, NodesInitNext
<1> QED
  BY <1>1, <1>2, <1>3, NodesCases

\* Nodes that have applied the same commands after the same start: their
\* stores, if they have them all, hold the same.
LEMMA StoresThatAgree ==
    ASSUME NodesInv, StoreInv
    PROVE  StoresAgree
<1> SUFFICES ASSUME NEW i \in Node, NEW j \in Node, base[i] = base[j],
                    lastApplied[i] = lastApplied[j], ~gap[i], ~gap[j]
             PROVE  data[i] = data[j] /\ journal[i] = journal[j]
  BY DEF StoresAgree
<1>1. applied[i] = applied[j]
  <2>1. applied[i] \in Seq(Command) /\ applied[j] \in Seq(Command)
    BY DEF NodesInv, RaftInv, TypeInv, TypeOK
  <2>2. Len(applied[i]) = Len(applied[j])
    BY DEF NodesInv, RaftInv, TypeInv, AppliedExactly
  <2>3. \A k \in 1 .. Len(applied[i]) : applied[i][k] = applied[j][k]
    BY <2>1, <2>2, CommitStateSafe DEF NodesInv, StateMachineSafety
  <2> QED
    BY <2>1, <2>2, <2>3, SeqEqual
<1>2. ASSUME NEW k \in Node, ~gap[k]
      PROVE  /\ data[k] = Map(k)!MapOf(Shows(k, Len(applied[k])))
             /\ journal[k] = Shows(k, Len(applied[k]))
  BY <1>2 DEF StoreInv
<1>3. Shows(i, Len(applied[i])) = Shows(j, Len(applied[j]))
  BY <1>1 DEF Shows
<1>4. journal[i] = journal[j]
  BY <1>2, <1>3
<1>5. \A s : Map(i)!MapOf(s) = Map(j)!MapOf(s)
  BY MapIs
<1> QED
  BY <1>2, <1>3, <1>4, <1>5

\* As long as no run of the process gets beyond its third term, any two stores
\* of the server that started alike, have been given as much since and have
\* written it hold the same map and the same records, however often the
\* process is stopped and started again.
THEOREM StoresAgreeThreeTerms ==
    ASSUME NoRestart, MaxTerm <= 3 PROVE KVSpec => []StoresAgree
<1> DEFINE IInv == NodesInv /\ StoreInv
<1>1. KVInit => IInv
  BY StoreInit, NodesInit DEF KVInit
<1>2. IInv /\ LeaderInv /\ [KVNext]_kvVars => IInv'
  BY NodesStep, StoreInvStep DEF LeaderInv
<1>3. IInv => StoresAgree
  BY StoresThatAgree
<1> QED
  BY <1>1, <1>2, <1>3, LeaderInvAlways, PTL DEF KVSpec

-----------------------------------------------------------------------------
(* The nodes of one process implement AgreedLog.                           *)

\* Of finitely many numbers one is the greatest.
LEMMA GreatestOf ==
    ASSUME NEW S, IsFiniteSet(S), S # {}, NEW f \in [S -> Nat]
    PROVE  \E x \in S : \A y \in S : f[y] <= f[x]
<1> DEFINE Above(x) == {y \in S : f[y] > f[x]}
           D == {Cardinality(Above(x)) : x \in S}
<1>1. ASSUME NEW x \in S
      PROVE  IsFiniteSet(Above(x)) /\ Cardinality(Above(x)) \in Nat
  <2>1. IsFiniteSet(Above(x))
    BY FS_Subset
  <2> QED
    BY <2>1, FS_CardinalityType
<1>2. D \subseteq Nat /\ D # {}
  BY <1>1
<1>3. PICK d \in D : \A e \in D : ~(<<e, d>> \in OpToRel(<, Nat))
  BY <1>2, WFMin, NatLessThanWellFounded
<1>4. \A e \in D : ~(e < d)
  BY <1>2, <1>3 DEF OpToRel
<1>5. PICK x \in S : d = Cardinality(Above(x))
  OBVIOUS
<1>6. ASSUME NEW y \in S, f[y] > f[x]
      PROVE  FALSE
  <2>1. Above(y) \in SUBSET Above(x) /\ y \in Above(x) /\ y \notin Above(y)
    BY <1>6
  <2>2. /\ Cardinality(Above(y)) <= Cardinality(Above(x))
        /\ Cardinality(Above(y)) # Cardinality(Above(x))
    BY <1>1, <2>1, FS_Subset
  <2>3. ~(Cardinality(Above(y)) < Cardinality(Above(x)))
    BY <1>4, <1>5
  <2>4. Cardinality(Above(y)) \in Nat /\ Cardinality(Above(x)) \in Nat
    BY <1>1
  <2> HIDE DEF Above
  <2> QED
    BY <2>2, <2>3, <2>4
<1> QED
  BY <1>6

\* Some node has been given most, and Furthest is that.
SomeFurthest ==
    \E i \in Node : /\ Furthest = applied[i]
                    /\ \A j \in Node : Len(applied[j]) <= Len(applied[i])

LEMMA FurthestIs == TypeInv => SomeFurthest
<1> SUFFICES ASSUME TypeInv PROVE SomeFurthest
  OBVIOUS
<1> DEFINE f == [i \in Node |-> Len(applied[i])]
<1>1. f \in [Node -> Nat]
  BY DEF TypeInv, TypeOK
<1>2. PICK i \in Node : \A j \in Node : f[j] <= f[i]
  BY <1>1, GreatestOf, RaftAssumption, KVClusterAssumption
<1>3. \E s \in {applied[k] : k \in Node} : \A j \in Node : Len(applied[j]) <= Len(s)
  BY <1>2
<1> QED
  BY <1>3 DEF Furthest, SomeFurthest

LEMMA FurthestNext == TypeInv' => SomeFurthest'
BY FurthestIs, PTL

LEMMA NodesSafe == NodesInv => StateMachineSafety
BY CommitStateSafe DEF NodesInv

LEMMA NodesSafeNext == NodesInv' => StateMachineSafety'
BY NodesSafe, PTL

LEMMA AgreedInit == Init => Agreed!Init
<1> SUFFICES ASSUME Init PROVE Agreed!Init
  OBVIOUS
<1>1. applied = [i \in Node |-> <<>>]
  BY DEF Init
<1> QED
  BY <1>1, FurthestIs, TypeInit DEF SomeFurthest, Agreed!Init, Agreed!Nothing

LEMMA AgreedInitNext == Init' => Agreed!Init'
BY AgreedInit, PTL

\* A node that is given commands gets the next part of what is agreed.
LEMMA AgreedGrows ==
    ASSUME NodesInv, NodesInv', NEW i \in Node, Grows(i)
    PROVE  Agreed!Give(i)
<1>1. applied \in [Node -> Seq(Command)] /\ applied' \in [Node -> Seq(Command)]
  BY DEF NodesInv, RaftInv, TypeInv, TypeOK
<1>2. PICK a \in Node : /\ Furthest = applied[a]
                        /\ \A j \in Node : Len(applied[j]) <= Len(applied[a])
  BY FurthestIs DEF NodesInv, RaftInv, SomeFurthest
<1>3. PICK b \in Node : /\ Furthest' = applied'[b]
                        /\ \A j \in Node : Len(applied'[j]) <= Len(applied'[b])
  BY FurthestNext DEF NodesInv, RaftInv, SomeFurthest
<1>4. ASSUME NEW j \in Node
      PROVE  Agreed!Begins(applied'[j], applied'[b])
  <2>1. Len(applied'[j]) \in Nat /\ Len(applied'[b]) \in Nat
    BY <1>1
  <2> QED
    BY <1>3, <2>1, NodesSafeNext DEF StateMachineSafety, Agreed!Begins
<1>5. ASSUME NEW j \in Node
      PROVE  Agreed!Begins(applied[j], applied'[j])
  <2>1. Len(applied[j]) \in Nat /\ Len(applied'[j]) \in Nat
    BY <1>1
  <2>2. CASE j = i
    BY <2>1, <2>2 DEF Grows, Agreed!Begins
  <2>3. CASE j # i
    BY <2>1, <2>3 DEF Grows, Agreed!Begins
  <2> QED
    BY <2>2, <2>3
<1>6. Agreed!Begins(applied[a], applied'[b])
  <2>1. Agreed!Begins(applied[a], applied'[a]) /\ Agreed!Begins(applied'[a], applied'[b])
    BY <1>4, <1>5
  <2> QED
    BY <1>1, <2>1 DEF Agreed!Begins
<1>7. \A j \in Node \ {i} : applied'[j] = applied[j]
  BY DEF Grows
<1> QED
  BY <1>2, <1>3, <1>4, <1>5, <1>6, <1>7 DEF Agreed!Give

LEMMA AgreedStep ==
    ASSUME NodesInv, NodesInv', [KVNext]_kvVars
    PROVE  [Agreed!Next]_(Agreed!vars)
<1>1. CASE applied' = applied
  <2>1. Furthest' = Furthest
    BY <1>1 DEF Furthest
  <2> QED
    BY <1>1, <2>1 DEF Agreed!vars
<1>2. ASSUME NodeStep
      PROVE  applied' = applied \/ \E i \in Node : Grows(i)
  BY <1>2, AppliedNodeStep DEF NodesInv, RaftInv
<1>3. ASSUME NEW i \in Node, Grows(i)
      PROVE  Agreed!Next
  BY <1>3, AgreedGrows DEF Agreed!Next
<1>4. ASSUME NEW c \in Command, Accepted(c)
      PROVE  applied' = applied
  BY <1>4 DEF Accepted, Start
<1>5. ASSUME UNCHANGED vars
      PROVE  applied' = applied
  BY <1>5 DEF vars, logVars
<1>6. CASE CrashAndStart
  BY <1>6, CrashIsInit, AgreedInitNext DEF Agreed!Next, Agreed!Forget, Agreed!Init
<1> QED
  BY <1>1, <1>2, <1>3, <1>4, <1>5, <1>6, KVCases

\* In the first three terms of each run of the process its nodes implement the
\* agreed log: what some node has been given is never changed for another, as
\* long as the process lasts.
THEOREM AgreedLogThreeTerms ==
    ASSUME NoRestart, MaxTerm <= 3 PROVE KVSpec => ImplementsAgreedLog
<1>1. KVInit => NodesInv /\ Agreed!Init
  BY NodesInit, AgreedInit DEF KVInit
<1>2. NodesInv /\ LeaderInv /\ [KVNext]_kvVars => NodesInv'
  BY NodesStep DEF LeaderInv
<1>3. NodesInv /\ NodesInv' /\ [KVNext]_kvVars => [Agreed!Next]_(Agreed!vars)
  BY AgreedStep
<1> QED
  BY <1>1, <1>2, <1>3, LeaderInvAlways, PTL DEF KVSpec, ImplementsAgreedLog, Agreed!Spec
=============================================================================
