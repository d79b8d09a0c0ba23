----------------------------- MODULE RaftProofs -----------------------------
(***************************************************************************)
(* Proofs about Raft, for every cluster, every set of commands and every   *)
(* value of the bounds.                                                    *)
(***************************************************************************)
EXTENDS Raft, PositionsProofs

-----------------------------------------------------------------------------
(* Logs.                                                                   *)

\* A log as it is kept: every entry at the position its Index names.
IsLog(l) == l \in Seq(Entry) /\ \A k \in 1 .. Len(l) : l[k].index = k

\* A function on 1 .. n is a sequence of length n.
LEMMA FunctionIsSeq ==
    ASSUME NEW S, NEW n \in Nat, NEW f \in [1 .. n -> S]
    PROVE  f \in Seq(S) /\ Len(f) = n /\ DOMAIN f = 1 .. n
OBVIOUS

\* LastIndex, which reads the Index of the last entry, is the log's length.
LEMMA LastIndexIsLength ==
    ASSUME NEW l, IsLog(l)
    PROVE  LastIndex(l) = Len(l) /\ LastIndex(l) \in Nat
BY DEF IsLog, LastIndex, Entry

\* The terms the code reads of a log are natural numbers.
LEMMA TermType ==
    ASSUME NEW l, IsLog(l), NEW k \in Nat
    PROVE  TermAt(l, k) \in Nat /\ LastTerm(l) \in Nat
<1>1. ASSUME NEW n \in Nat
      PROVE  TermAt(l, n) \in Nat
  <2>1. CASE Has(l, n)
    <3>1. n \in 1 .. Len(l)
      BY <2>1 DEF Has, IsLog
    <3>2. l[n] \in Entry
      BY <3>1 DEF IsLog
    <3> QED
      BY <2>1, <3>2 DEF TermAt, Entry
  <2>2. CASE ~Has(l, n)
    BY <2>2 DEF TermAt
  <2> QED
    BY <2>1, <2>2
<1> QED
  BY <1>1, LastIndexIsLength DEF LastTerm

\* Append leaves a log.
LEMMA AppendIsLog ==
    ASSUME NEW l, IsLog(l), NEW t \in Nat, NEW c \in Command
    PROVE  IsLog(Append(l, NextEntry(l, t, c)))
<1>1. NextEntry(l, t, c) \in Entry /\ NextEntry(l, t, c).index = Len(l) + 1
  <2>1. LastIndex(l) = Len(l) /\ Len(l) \in Nat
    BY LastIndexIsLength DEF IsLog
  <2> QED
    BY <2>1 DEF NextEntry, Entry
<1> QED
  BY <1>1 DEF IsLog

\* EntriesFrom leaves entries that continue the position before.
LEMMA EntriesFromType ==
    ASSUME NEW l, IsLog(l), NEW n \in Nat
    PROVE  /\ EntriesFrom(l, n) \in Seq(Entry)
           /\ \A k \in 1 .. Len(EntriesFrom(l, n)) :
                n >= 1 /\ EntriesFrom(l, n)[k].index = n - 1 + k
<1>1. CASE Has(l, n)
  <2>1. n \in 1 .. Len(l) /\ Len(l) \in Nat
    BY <1>1 DEF Has, IsLog
  <2>2. \A k \in n .. Len(l) : l[k] \in Entry
    BY <2>1 DEF IsLog
  <2>3. /\ SubSeq(l, n, Len(l)) \in Seq(Entry)
        /\ Len(SubSeq(l, n, Len(l))) = Len(l) - n + 1
        /\ \A k \in 1 .. Len(l) - n + 1 : SubSeq(l, n, Len(l))[k] = l[n + k - 1]
    BY <2>1, <2>2, SubSeqProperties
  <2>4. EntriesFrom(l, n) = SubSeq(l, n, Len(l))
    BY <1>1 DEF EntriesFrom
  <2>5. ASSUME NEW k \in 1 .. Len(SubSeq(l, n, Len(l)))
        PROVE  SubSeq(l, n, Len(l))[k].index = n - 1 + k
    <3>1. k \in 1 .. Len(l) - n + 1
      BY <2>3
    <3>2. n + k - 1 \in 1 .. Len(l) /\ n + k - 1 = n - 1 + k
      BY <2>1, <3>1
    <3>3. l[n + k - 1].index = n + k - 1
      BY <3>2 DEF IsLog
    <3>4. SubSeq(l, n, Len(l))[k] = l[n + k - 1]
      BY <2>3, <3>1
    <3> QED
      BY <3>2, <3>3, <3>4
  <2>6. n >= 1
    BY <2>1
  <2> QED
    BY <2>3, <2>4, <2>5, <2>6
<1>2. CASE ~Has(l, n)
  BY <1>2 DEF EntriesFrom
<1> QED
  BY <1>1, <1>2

\* Merging entries that continue a position the log holds leaves a log.
LEMMA MergeIsLog ==
    ASSUME NEW l, IsLog(l), NEW entries \in Seq(Entry),
           NEW prev \in Nat, prev <= Len(l),
           \A k \in 1 .. Len(entries) : entries[k].index = prev + k
    PROVE  IsLog(MergeEntries(l, entries))
<1>1. CASE entries = <<>>
  BY <1>1 DEF MergeEntries
<1>2. CASE entries # <<>>
  <2> DEFINE first == entries[1].index
             last  == first + Len(entries) - 1
             f     == [p \in 1 .. last |-> IF Agrees(l, entries, p)
                                           THEN l[p] ELSE entries[p - first + 1]]
  <2>1. Len(entries) \in Nat \ {0} /\ first = prev + 1 /\ Len(l) \in Nat
    BY <1>2 DEF IsLog
  <2>2. last \in Nat /\ last = prev + Len(entries)
    BY <2>1
  <2>3. CASE Agrees(l, entries, last)
    BY <1>2, <2>3 DEF MergeEntries
  <2>4. CASE ~Agrees(l, entries, last)
    <3>1. ASSUME NEW p \in 1 .. last
          PROVE  f[p] \in Entry /\ f[p].index = p
      <4>1. CASE Agrees(l, entries, p)
        <5>1. p <= Len(l)
          <6>1. CASE p < first
            BY <6>1, <2>1
          <6>2. CASE p >= first
            <7>1. Has(l, p)
              BY <4>1, <6>2, <2>1, <2>2 DEF Agrees
            <7> QED
              BY <7>1 DEF Has
          <6> QED
            BY <6>1, <6>2, <2>1, <2>2
        <5> QED
          BY <4>1, <5>1, <2>1, <2>2 DEF IsLog
      <4>2. CASE ~Agrees(l, entries, p)
        <5>1. p >= first
          BY <4>2, <2>1, <2>2 DEF Agrees
        <5>2. p - first + 1 \in 1 .. Len(entries)
          BY <5>1, <2>1, <2>2
        <5>3. entries[p - first + 1] \in Entry /\ entries[p - first + 1].index = p
          BY <5>2, <2>1
        <5> QED
          BY <4>2, <5>3
      <4> QED
        BY <4>1, <4>2
    <3>2. f \in [1 .. last -> Entry]
      BY <3>1
    <3> HIDE DEF f
    <3>3. f \in Seq(Entry) /\ Len(f) = last
      BY <3>2, <2>2, FunctionIsSeq
    <3>4. IsLog(f)
      BY <3>1, <3>3 DEF IsLog
    <3>5. MergeEntries(l, entries) = f
      BY <1>2, <2>4 DEF MergeEntries, f
    <3> QED
      BY <3>4, <3>5
  <2> QED
    BY <2>3, <2>4
<1> QED
  BY <1>1, <1>2

\* updateCommitIndex leaves the commit index or moves it forward within the
\* log.
LEMMA UpdateCommitType ==
    ASSUME NEW i \in Node, commitIndex[i] \in Nat, IsLog(log[i]), NEW match
    PROVE  /\ UpdateCommitIndex(i, match) \in Nat
           /\ \/ UpdateCommitIndex(i, match) = commitIndex[i]
              \/ /\ UpdateCommitIndex(i, match) > commitIndex[i]
                 /\ UpdateCommitIndex(i, match) <= Len(log[i])
<1> DEFINE T == Committable(i, match)
<1>1. CASE T = {}
  BY <1>1 DEF UpdateCommitIndex
<1>2. CASE T # {}
  <2>1. T \subseteq (commitIndex[i] + 1) .. Len(log[i]) /\ Len(log[i]) \in Nat
    BY LastIndexIsLength DEF Committable, IsLog
  <2>2. \E x \in T : \A y \in T : y <= x
    <3> HIDE DEF T
    <3>1. T \subseteq 0 .. Len(log[i])
      BY <2>1
    <3> QED
      BY <1>2, <2>1, <3>1, LastOfPositions
  <2>3. UpdateCommitIndex(i, match) \in T
    BY <1>2, <2>2 DEF UpdateCommitIndex
  <2> QED
    BY <2>1, <2>3
<1> QED
  BY <1>1, <1>2

\* applyCommitted, asked to go no further than the log, hands over the
\* commands up to the commit index and counts exactly those.
LEMMA ApplyCommittedStep ==
    ASSUME NEW i \in Node, NEW l, IsLog(l), NEW commit \in Nat,
           lastApplied \in [Node -> Nat], applied \in [Node -> Seq(Command)],
           Len(applied[i]) = lastApplied[i],
           commit <= Len(l) \/ commit <= lastApplied[i],
           ApplyCommitted(i, l, commit)
    PROVE  /\ lastApplied' \in [Node -> Nat]
           /\ applied' \in [Node -> Seq(Command)]
           /\ Len(applied'[i]) = lastApplied'[i] /\ commit <= lastApplied'[i]
           /\ lastApplied[i] <= lastApplied'[i]
           /\ \A j \in Node \ {i} : applied'[j] = applied[j] /\ lastApplied'[j] = lastApplied[j]
           /\ \A k \in 1 .. Len(applied'[i]) :
                 IF k <= Len(applied[i]) THEN applied'[i][k] = applied[i][k]
                 ELSE k \in 1 .. Len(l) /\ applied'[i][k] = l[k].command
<1>0. lastApplied[i] \in Nat /\ applied[i] \in Seq(Command) /\ Len(l) \in Nat
  BY DEF IsLog
<1>1. CASE lastApplied[i] >= commit
  BY <1>0, <1>1 DEF ApplyCommitted
<1>2. CASE ~(lastApplied[i] >= commit)
  <2> DEFINE from == lastApplied[i] + 1
             new  == Commands(l, from, commit)
  <2>1. commit <= Len(l) /\ from \in Nat /\ from <= commit
    BY <1>0, <1>2
  <2>2. new \in [1 .. commit - from + 1 -> Command]
    <3>1. ASSUME NEW k \in 1 .. commit - from + 1
          PROVE  l[from + k - 1].command \in Command
      <4>1. from + k - 1 \in 1 .. Len(l)
        BY <2>1, <1>0
      <4>2. l[from + k - 1] \in Entry
        BY <4>1 DEF IsLog
      <4> QED
        BY <4>2 DEF Entry
    <3> QED
      BY <3>1 DEF Commands
  <2>3. new \in Seq(Command) /\ Len(new) = commit - from + 1
    <3>1. commit - from + 1 \in Nat
      BY <2>1
    <3> HIDE DEF new, from
    <3> QED
      BY <2>2, <3>1, FunctionIsSeq
  <2>4. /\ lastApplied' = [lastApplied EXCEPT ![i] = commit]
        /\ applied' = [applied EXCEPT ![i] = @ \o new]
    BY <1>2, <2>1 DEF ApplyCommitted
  <2> HIDE DEF new
  <2>5. applied[i] \o new \in Seq(Command) /\ Len(applied[i] \o new) = commit
    <3>1. /\ applied[i] \o new \in Seq(Command)
          /\ Len(applied[i] \o new) = Len(applied[i]) + Len(new)
      BY <1>0, <2>3, ConcatProperties
    <3>2. Len(applied[i]) + Len(new) = commit
      BY <1>0, <2>3
    <3> QED
      BY <3>1, <3>2
  <2>6. ASSUME NEW k \in 1 .. Len(applied[i] \o new)
        PROVE  IF k <= Len(applied[i]) THEN (applied[i] \o new)[k] = applied[i][k]
               ELSE k \in 1 .. Len(l) /\ (applied[i] \o new)[k] = l[k].command
    <3>1. k \in 1 .. Len(applied[i]) + Len(new) /\ k \in Nat /\ k <= Len(l)
      BY <1>0, <2>1, <2>3, <2>5
    <3>2. (applied[i] \o new)[k] =
             IF k <= Len(applied[i]) THEN applied[i][k] ELSE new[k - Len(applied[i])]
      BY <1>0, <2>3, <3>1, ConcatProperties
    <3>3. CASE k > Len(applied[i])
      <4> DEFINE q == k - Len(applied[i])
      <4>1. q \in 1 .. commit - from + 1 /\ from + q - 1 = k
        BY <1>0, <2>3, <3>1, <3>3
      <4> HIDE DEF q, from
      <4>2. new[q] = l[from + q - 1].command
        BY <4>1 DEF new, Commands
      <4> QED
        BY <1>0, <3>1, <3>2, <3>3, <4>1, <4>2 DEF q
    <3>4. k > Len(applied[i]) \/ k <= Len(applied[i])
      BY <1>0, <3>1
    <3> QED
      BY <3>2, <3>3, <3>4
  <2>7. applied'[i] = applied[i] \o new
    BY <2>4
  <2> QED
    BY <1>0, <2>1, <2>4, <2>5, <2>6, <2>7
<1> QED
  BY <1>1, <1>2

-----------------------------------------------------------------------------
(* Types, positions and the application of committed commands.             *)

\* The three are one induction: the merge of a call's entries keeps positions
\* because the call's entries continue its prevLogIndex, and applyCommitted
\* finds every entry it looks for because positions are indexes.
TypeInv == TypeOK /\ IndexIsPosition /\ AppliedExactly

LEMMA TypeInit == Init => TypeInv
<1> SUFFICES ASSUME Init PROVE TypeInv
  OBVIOUS
<1>1. TypeOK
  <2>1. applied \in [Node -> Seq(Command)] /\ log \in [Node -> Seq(Entry)]
    BY EmptySeq DEF Init
  <2> QED
    BY <2>1 DEF Init, NoVote, TypeOK, Follower, Candidate, Leader
<1>2. IndexIsPosition
  BY DEF Init, IndexIsPosition, Follower, Leader
<1>3. AppliedExactly
  BY DEF Init, AppliedExactly
<1> QED
  BY <1>1, <1>2, <1>3 DEF TypeInv

\* What TypeInv says of one node's log.
LEMMA LogsAreLogs ==
    ASSUME TypeInv, NEW i \in Node
    PROVE  IsLog(log[i]) /\ LastIndex(log[i]) \in Nat /\ LastTerm(log[i]) \in Nat
<1>1. IsLog(log[i])
  BY DEF TypeInv, TypeOK, IndexIsPosition, IsLog
<1> QED
  BY <1>1, LastIndexIsLength, TermType

\* Elections, and what the operator and the network do, touch no log.
LEMMA TypeTimerFires ==
    ASSUME TypeInv, NEW i \in Node, TimerFires(i)
    PROVE  TypeInv'
<1>1. TypeOK'
  BY DEF TypeInv, TypeOK, TimerFires, termVars, logVars, leaderVars, netVars
<1> QED
  BY <1>1 DEF TypeInv, IndexIsPosition, AppliedExactly, TimerFires, termVars,
              logVars, leaderVars, netVars

LEMMA TypeStartElection ==
    ASSUME TypeInv, NEW i \in Node, NEW S \in SUBSET Peers(i), StartElection(i, S)
    PROVE  TypeInv'
<1>1. voteReqs' \subseteq VoteReq
  <2>1. LastIndex(log[i]) \in Nat /\ LastTerm(log[i]) \in Nat
    BY LogsAreLogs
  <2> DEFINE call(j) == [src |-> i, dst |-> j, term |-> currentTerm[i] + 1,
                         lastLogIndex |-> LastIndex(log[i]),
                         lastLogTerm  |-> LastTerm(log[i])]
  <2>2. currentTerm[i] + 1 \in Nat
    BY DEF TypeInv, TypeOK
  <2>3. S \subseteq Node
    BY DEF Peers
  <2>4. \A j \in S : call(j) \in VoteReq
    BY <2>1, <2>2, <2>3 DEF VoteReq
  <2>5. voteReqs' = voteReqs \cup {call(j) : j \in S}
    BY DEF StartElection
  <2>6. voteReqs \subseteq VoteReq
    BY DEF TypeInv, TypeOK
  <2> HIDE DEF call
  <2> QED
    BY <2>4, <2>5, <2>6
<1>2. TypeOK'
  BY <1>1 DEF TypeInv, TypeOK, StartElection, ResetElectionTimer, logVars, leaderVars, Candidate
<1> QED
  BY <1>2 DEF TypeInv, TypeOK, IndexIsPosition, AppliedExactly, StartElection,
              logVars, leaderVars, Candidate, Leader

LEMMA TypeRequestVote ==
    ASSUME TypeInv, NEW m \in voteReqs, RequestVote(m)
    PROVE  TypeInv'
<1>1. m \in VoteReq
  BY DEF TypeInv, TypeOK
<1>2. /\ currentTerm' \in [Node -> Nat]
      /\ state' \in [Node -> {Follower, Candidate, Leader}]
      /\ votedFor' \in [Node -> Node \cup {None}]
      /\ timer' \in [Node -> BOOLEAN]
      /\ voteReqs' \subseteq VoteReq
  BY <1>1 DEF TypeInv, TypeOK, RequestVote, ResetElectionTimer, VoteReq
<1>3. voteReps' \subseteq VoteRep
  <2> DEFINE i     == m.dst
             grant == /\ m.term >= currentTerm[i]
                      /\ MayVoteFor(i, m)
                      /\ UpToDate(log[i], m.lastLogIndex, m.lastLogTerm)
             reply == [src |-> i, dst |-> m.src, reqTerm |-> m.term,
                       term |-> currentTerm'[i], granted |-> grant]
  <2>1. grant \in BOOLEAN
    OBVIOUS
  <2>2. voteReps' = voteReps \cup {reply}
    BY DEF RequestVote
  <2>3. m.src \in Node /\ m.dst \in Node /\ m.term \in Nat /\ currentTerm'[i] \in Nat
    BY <1>1, <1>2 DEF VoteReq
  <2>4. reply \in VoteRep
    <3> HIDE DEF grant
    <3> QED
      BY <2>1, <2>3 DEF VoteRep
  <2> QED
    BY <2>2, <2>4 DEF TypeInv, TypeOK
<1>4. TypeOK'
  BY <1>2, <1>3 DEF TypeInv, TypeOK, RequestVote, ResetElectionTimer, logVars, leaderVars
<1> QED
  BY <1>1, <1>4 DEF TypeInv, TypeOK, IndexIsPosition, AppliedExactly, RequestVote,
                    VoteReq, logVars, leaderVars, Follower, Leader

LEMMA TypeVoteReply ==
    ASSUME TypeInv, NEW m \in voteReps, VoteReply(m)
    PROVE  TypeInv'
<1> DEFINE i      == m.dst
           voters == votes[i] \cup {m.src}
<1>1. m \in VoteRep /\ i \in Node /\ m.src \in Node /\ m.term \in Nat
  BY DEF TypeInv, TypeOK, VoteRep
<1>2. LastIndex(log[i]) \in Nat
  BY <1>1, LogsAreLogs
<1>3. CASE StepDown(i, m.term) /\ UNCHANGED <<leaderID, leaderVars, votes, elections>>
  <2>1. TypeOK'
    BY <1>1, <1>3 DEF TypeInv, TypeOK, VoteReply, StepDown, logVars, leaderVars, timerVars
  <2> QED
    BY <1>1, <1>3, <2>1 DEF TypeInv, TypeOK, IndexIsPosition, AppliedExactly, VoteReply,
                            StepDown, logVars, leaderVars, Follower, Leader
<1>4. CASE /\ votes' = [votes EXCEPT ![i] = voters]
           /\ BecomeLeader(i, voters) /\ UNCHANGED <<currentTerm, votedFor>>
  <2>1. voters \in SUBSET Node
    BY <1>1 DEF TypeInv, TypeOK
  <2>2. TypeOK'
    <3> HIDE DEF voters
    <3>1. [term |-> currentTerm[i], leader |-> i, voters |-> voters]
            \in [term : Nat, leader : Node, voters : SUBSET Node]
      BY <1>1, <2>1 DEF TypeInv, TypeOK
    <3>2. elections' \subseteq [term : Nat, leader : Node, voters : SUBSET Node]
      BY <1>4, <3>1 DEF TypeInv, TypeOK, BecomeLeader
    <3>3. nextIndex' \in [Node -> [Node -> Nat]] /\ matchIndex' \in [Node -> [Node -> Nat]]
      <4> DEFINE next  == [j \in Node |-> LastIndex(log[i]) + 1]
                 match == [j \in Node |-> 0]
      <4>1. next \in [Node -> Nat] /\ match \in [Node -> Nat]
        BY <1>2
      <4>2. /\ nextIndex' = [nextIndex EXCEPT ![i] = next]
            /\ matchIndex' = [matchIndex EXCEPT ![i] = match]
        BY <1>4 DEF BecomeLeader
      <4> HIDE DEF next, match
      <4> QED
        BY <1>1, <4>1, <4>2 DEF TypeInv, TypeOK
    <3>4. /\ state' \in [Node -> {Follower, Candidate, Leader}]
          /\ leaderID' \in [Node -> Node \cup {None}]
          /\ votes' \in [Node -> SUBSET Node]
      BY <1>1, <1>4, <2>1 DEF TypeInv, TypeOK, BecomeLeader
    <3> QED
      BY <1>4, <3>2, <3>3, <3>4 DEF TypeInv, TypeOK, VoteReply, logVars, timerVars
  <2>3. ASSUME NEW j \in Node, NEW k \in Node, state'[j] = Leader
        PROVE  nextIndex'[j][k] >= 1
    <3> DEFINE next == [h \in Node |-> LastIndex(log[i]) + 1]
    <3>1. nextIndex' = [nextIndex EXCEPT ![i] = next]
      BY <1>4 DEF BecomeLeader
    <3>2. CASE j = i
      <4>1. nextIndex'[j] = next
        <5> HIDE DEF next
        <5> QED
          BY <1>1, <3>1, <3>2 DEF TypeInv, TypeOK
      <4> QED
        BY <1>2, <4>1
    <3>3. CASE j # i
      <4>1. nextIndex'[j] = nextIndex[j]
        <5> HIDE DEF next
        <5> QED
          BY <3>1, <3>3 DEF TypeInv, TypeOK
      <4>2. state[j] = Leader
        <5>1. state' = [state EXCEPT ![i] = Leader]
          BY <1>4 DEF BecomeLeader
        <5> QED
          BY <2>3, <3>3, <5>1 DEF TypeInv, TypeOK
      <4> QED
        BY <4>1, <4>2 DEF TypeInv, IndexIsPosition
    <3> QED
      BY <3>2, <3>3
  <2> QED
    BY <2>2, <2>3 DEF TypeInv, IndexIsPosition, AppliedExactly, VoteReply, logVars
<1>5. CASE /\ votes' = votes \/ votes' = [votes EXCEPT ![i] = voters]
           /\ UNCHANGED <<termVars, leaderID, leaderVars, elections>>
  <2>1. votes' \in [Node -> SUBSET Node]
    <3>1. voters \in SUBSET Node
      BY <1>1 DEF TypeInv, TypeOK
    <3> HIDE DEF voters
    <3> QED
      BY <1>1, <1>5, <3>1 DEF TypeInv, TypeOK
  <2>2. TypeOK'
    BY <1>5, <2>1 DEF TypeInv, TypeOK, VoteReply, termVars, logVars, leaderVars, timerVars
  <2> QED
    BY <1>5, <2>2 DEF TypeInv, IndexIsPosition, AppliedExactly, VoteReply,
                      termVars, logVars, leaderVars
<1> QED
  BY <1>3, <1>4, <1>5 DEF VoteReply

LEMMA TypeSendHeartbeats ==
    ASSUME TypeInv, NEW i \in Node, NEW S \in SUBSET Peers(i), SendHeartbeats(i, S)
    PROVE  TypeInv'
<1> DEFINE call(j) ==
      [src |-> i, dst |-> j, term |-> currentTerm[i],
       prevLogIndex |-> IF nextIndex[i][j] > 1 THEN nextIndex[i][j] - 1 ELSE 0,
       prevLogTerm  |-> IF nextIndex[i][j] > 1
                        THEN TermAt(log[i], nextIndex[i][j] - 1) ELSE 0,
       entries      |-> EntriesFrom(log[i], nextIndex[i][j]),
       leaderCommit |-> commitIndex[i]]
<1>1. ASSUME NEW j \in S
      PROVE  /\ call(j) \in AppendReq
             /\ \A k \in 1 .. Len(call(j).entries) :
                  call(j).entries[k].index = call(j).prevLogIndex + k
  <2> DEFINE next == nextIndex[i][j]
  <2>1. j \in Node /\ next \in Nat /\ next >= 1
    BY DEF TypeInv, TypeOK, IndexIsPosition, SendHeartbeats, Peers
  <2>2. IsLog(log[i])
    BY LogsAreLogs
  <2>3. /\ EntriesFrom(log[i], next) \in Seq(Entry)
        /\ \A k \in 1 .. Len(EntriesFrom(log[i], next)) :
             EntriesFrom(log[i], next)[k].index = next - 1 + k
    BY <2>1, <2>2, EntriesFromType
  <2>4. next > 1 => TermAt(log[i], next - 1) \in Nat
    BY <2>1, <2>2, TermType
  <2>5. currentTerm[i] \in Nat /\ commitIndex[i] \in Nat
    BY DEF TypeInv, TypeOK
  <2>6. call(j) \in AppendReq
    BY <2>1, <2>3, <2>4, <2>5 DEF AppendReq
  <2>7. call(j).prevLogIndex = next - 1
    BY <2>1
  <2> QED
    BY <2>3, <2>6, <2>7
<1>2. appendReqs' = appendReqs \cup {call(j) : j \in S}
  BY DEF SendHeartbeats
<1> HIDE DEF call
<1>3. TypeOK'
  BY <1>1, <1>2 DEF TypeInv, TypeOK, SendHeartbeats, termVars, logVars, leaderVars, timerVars
<1>4. IndexIsPosition'
  BY <1>1, <1>2 DEF TypeInv, IndexIsPosition, SendHeartbeats, termVars, logVars, leaderVars
<1> QED
  BY <1>3, <1>4 DEF TypeInv, AppliedExactly, SendHeartbeats, logVars

\* The prefix check of AppendEntries is what lets the merge keep positions.
LEMMA TypeAppendEntries ==
    ASSUME TypeInv, NEW m \in appendReqs, AppendEntries(m)
    PROVE  TypeInv'
<1> DEFINE i      == m.dst
           merged == MergeEntries(log[i], m.entries)
           commit == IF m.leaderCommit <= commitIndex[i] THEN commitIndex[i]
                     ELSE IF m.leaderCommit > LastIndex(merged) THEN LastIndex(merged)
                     ELSE m.leaderCommit
           success == PrevMatches(log[i], m.prevLogIndex, m.prevLogTerm)
           reply(term, ok) == [src |-> i, dst |-> m.src, reqTerm |-> m.term,
               matched |-> m.prevLogIndex + Len(m.entries),
               term |-> term, success |-> ok]
<1>1. /\ m \in AppendReq /\ i \in Node /\ m.src \in Node /\ m.term \in Nat
      /\ m.entries \in Seq(Entry) /\ m.prevLogIndex \in Nat /\ m.leaderCommit \in Nat
      /\ currentTerm[i] \in Nat /\ commitIndex[i] \in Nat
  BY DEF TypeInv, TypeOK, AppendReq
<1>2. IsLog(log[i])
  BY <1>1, LogsAreLogs
<1>3. ASSUME NEW term \in Nat, NEW ok \in BOOLEAN
      PROVE  reply(term, ok) \in AppendRep
  BY <1>1 DEF AppendRep
<1>4. success \in BOOLEAN
  BY DEF PrevMatches
<1>5. /\ appendReqs' = appendReqs \ {m}
      /\ UNCHANGED <<leaderVars, votes, electing, stopped, voteReqs, voteReps, elections>>
  BY DEF AppendEntries
<1>6. CASE /\ appendReps' = appendReps \cup {reply(currentTerm[i], FALSE)}
           /\ UNCHANGED <<termVars, leaderID, logVars, timer>>
  <2>1. appendReps' \subseteq AppendRep
    <3> HIDE DEF reply
    <3> QED
      BY <1>1, <1>3, <1>6 DEF TypeInv, TypeOK
  <2>2. TypeOK'
    BY <1>5, <1>6, <2>1 DEF TypeInv, TypeOK, termVars, logVars, leaderVars
  <2> QED
    BY <1>5, <1>6, <2>2 DEF TypeInv, IndexIsPosition, AppliedExactly, termVars,
                            logVars, leaderVars
<1>7. CASE /\ Follow(i, m.src, m.term)
           /\ appendReps' = appendReps \cup {reply(m.term, success)}
           /\ IF success
              THEN /\ log'         = [log EXCEPT ![i] = merged]
                   /\ commitIndex' = [commitIndex EXCEPT ![i] = commit]
                   /\ ApplyCommitted(i, merged, commit)
              ELSE UNCHANGED logVars
  <2>1. appendReps' \subseteq AppendRep
    <3> HIDE DEF reply, success
    <3> QED
      BY <1>1, <1>3, <1>4, <1>7 DEF TypeInv, TypeOK
  <2>2. /\ currentTerm' \in [Node -> Nat]
        /\ state' \in [Node -> {Follower, Candidate, Leader}]
        /\ votedFor' \in [Node -> Node \cup {None}]
        /\ leaderID' \in [Node -> Node \cup {None}]
        /\ timer' \in [Node -> BOOLEAN]
    BY <1>1, <1>7 DEF TypeInv, TypeOK, Follow, ResetElectionTimer
  <2>3. /\ log' \in [Node -> Seq(Entry)]
        /\ commitIndex' \in [Node -> Nat]
        /\ lastApplied' \in [Node -> Nat]
        /\ applied' \in [Node -> Seq(Command)]
        /\ \A j \in Node : \A k \in 1 .. Len(log'[j]) : log'[j][k].index = k
        /\ AppliedExactly'
    <3>1. CASE ~success
      BY <1>7, <3>1 DEF TypeInv, TypeOK, IndexIsPosition, AppliedExactly, logVars
    <3>2. CASE success
      <4>1. m.prevLogIndex <= Len(log[i])
        BY <1>1, <1>2, <3>2, LastIndexIsLength DEF PrevMatches, IsLog
      <4>2. IsLog(merged)
        <5>1. \A k \in 1 .. Len(m.entries) : m.entries[k].index = m.prevLogIndex + k
          BY DEF TypeInv, IndexIsPosition
        <5> QED
          BY <1>1, <1>2, <4>1, <5>1, MergeIsLog
      <4>3. LastIndex(merged) = Len(merged) /\ Len(merged) \in Nat
        BY <4>2, LastIndexIsLength
      <4>4. /\ commit \in Nat
            /\ commit <= Len(merged) \/ commit <= lastApplied[i]
        <5>1. commitIndex[i] <= lastApplied[i]
          BY <1>1 DEF TypeInv, AppliedExactly
        <5> HIDE DEF merged
        <5> QED
          BY <1>1, <4>3, <5>1
      <4> HIDE DEF merged, commit
      <4>5. /\ log' = [log EXCEPT ![i] = merged]
            /\ commitIndex' = [commitIndex EXCEPT ![i] = commit]
            /\ ApplyCommitted(i, merged, commit)
        BY <1>7, <3>2
      <4>6. /\ lastApplied' \in [Node -> Nat]
            /\ applied' \in [Node -> Seq(Command)]
            /\ Len(applied'[i]) = lastApplied'[i] /\ commit <= lastApplied'[i]
            /\ \A j \in Node \ {i} : applied'[j] = applied[j] /\ lastApplied'[j] = lastApplied[j]
        BY <1>1, <4>2, <4>4, <4>5, ApplyCommittedStep DEF TypeInv, TypeOK, AppliedExactly
      <4>7. /\ log' \in [Node -> Seq(Entry)]
            /\ \A j \in Node : \A k \in 1 .. Len(log'[j]) : log'[j][k].index = k
        BY <1>1, <4>2, <4>5 DEF TypeInv, TypeOK, IndexIsPosition, IsLog
      <4>8. commitIndex' \in [Node -> Nat] /\ AppliedExactly'
        BY <1>1, <4>4, <4>5, <4>6 DEF TypeInv, TypeOK, AppliedExactly
      <4> QED
        BY <4>6, <4>7, <4>8
    <3> QED
      BY <3>1, <3>2
  <2>4. TypeOK'
    BY <1>5, <2>1, <2>2, <2>3 DEF TypeInv, TypeOK, leaderVars
  <2>5. \A j, k \in Node : state'[j] = Leader => nextIndex'[j][k] >= 1
    BY <1>1, <1>5, <1>7 DEF TypeInv, TypeOK, IndexIsPosition, Follow, leaderVars,
                            Follower, Leader
  <2> QED
    BY <1>5, <2>3, <2>4, <2>5 DEF TypeInv, IndexIsPosition
<1> QED
  BY <1>6, <1>7 DEF AppendEntries

\* An update of one peer's index on one node.
LEMMA PeerIndexUpdate ==
    ASSUME NEW f \in [Node -> [Node -> Nat]], NEW i \in Node, NEW j \in Node, NEW v \in Nat
    PROVE  /\ [f EXCEPT ![i][j] = v] \in [Node -> [Node -> Nat]]
           /\ \A k, l \in Node : [f EXCEPT ![i][j] = v][k][l]
                                  = IF k = i /\ l = j THEN v ELSE f[k][l]
<1> DEFINE row == [f[i] EXCEPT ![j] = v]
<1>1. /\ row \in [Node -> Nat]
      /\ \A l \in Node : row[l] = IF l = j THEN v ELSE f[i][l]
  <2>1. f[i] \in [Node -> Nat]
    OBVIOUS
  <2> QED
    BY <2>1
<1>2. [f EXCEPT ![i][j] = v] = [f EXCEPT ![i] = row]
  OBVIOUS
<1> HIDE DEF row
<1> QED
  BY <1>1, <1>2

LEMMA TypeAppendReply ==
    ASSUME TypeInv, NEW m \in appendReps, AppendReply(m)
    PROVE  TypeInv'
<1> DEFINE i      == m.dst
           j      == m.src
           match  == [matchIndex[i] EXCEPT ![j] = m.matched]
           commit == UpdateCommitIndex(i, match)
<1>1. /\ m \in AppendRep /\ i \in Node /\ j \in Node
      /\ m.term \in Nat /\ m.matched \in Nat
  BY DEF TypeInv, TypeOK, AppendRep
<1>2. IsLog(log[i]) /\ commitIndex[i] \in Nat /\ commitIndex[i] <= lastApplied[i]
  BY <1>1, LogsAreLogs DEF TypeInv, TypeOK, AppliedExactly
<1>3. /\ appendReps' = appendReps \ {m}
      /\ UNCHANGED <<leaderID, votes, timerVars, stopped, voteReqs, voteReps,
                     appendReqs, elections>>
  BY DEF AppendReply
<1>4. CASE UNCHANGED <<termVars, logVars, leaderVars>>
  <2>1. TypeOK'
    BY <1>3, <1>4 DEF TypeInv, TypeOK, termVars, logVars, leaderVars, timerVars
  <2> QED
    BY <1>3, <1>4, <2>1 DEF TypeInv, IndexIsPosition, AppliedExactly, termVars,
                            logVars, leaderVars
<1>5. CASE StepDown(i, m.term) /\ UNCHANGED <<logVars, leaderVars>>
  <2>1. TypeOK'
    BY <1>1, <1>3, <1>5 DEF TypeInv, TypeOK, StepDown, logVars, leaderVars, timerVars
  <2> QED
    BY <1>1, <1>3, <1>5, <2>1 DEF TypeInv, TypeOK, IndexIsPosition, AppliedExactly,
                                  StepDown, logVars, leaderVars, Follower, Leader
<1>6. CASE /\ nextIndex' = [nextIndex EXCEPT ![i][j] = IF @ > 1 THEN @ - 1 ELSE @]
           /\ UNCHANGED <<termVars, logVars, matchIndex>>
  <2>1. /\ nextIndex' \in [Node -> [Node -> Nat]]
        /\ \A k, l \in Node : nextIndex[k][l] >= 1 => nextIndex'[k][l] >= 1
    <3> DEFINE v == IF nextIndex[i][j] > 1 THEN nextIndex[i][j] - 1 ELSE nextIndex[i][j]
    <3>1. nextIndex \in [Node -> [Node -> Nat]] /\ nextIndex[i][j] \in Nat
      BY <1>1 DEF TypeInv, TypeOK
    <3>2. v \in Nat /\ (nextIndex[i][j] >= 1 => v >= 1)
      BY <3>1
    <3>3. nextIndex' = [nextIndex EXCEPT ![i][j] = v]
      BY <1>6, <3>1
    <3> HIDE DEF v
    <3> QED
      BY <1>1, <3>1, <3>2, <3>3, PeerIndexUpdate
  <2>2. TypeOK'
    BY <1>3, <1>6, <2>1 DEF TypeInv, TypeOK, termVars, logVars, timerVars
  <2> QED
    BY <1>3, <1>6, <2>1, <2>2 DEF TypeInv, IndexIsPosition, AppliedExactly,
                                  termVars, logVars
<1>7. CASE /\ matchIndex'  = [matchIndex EXCEPT ![i] = match]
           /\ nextIndex'   = [nextIndex EXCEPT ![i][j] = m.matched + 1]
           /\ commitIndex' = [commitIndex EXCEPT ![i] = commit]
           /\ ApplyCommitted(i, log[i], commit)
           /\ UNCHANGED <<termVars, log>>
  <2>1. /\ commit \in Nat
        /\ commit <= Len(log[i]) \/ commit <= lastApplied[i]
    BY <1>1, <1>2, UpdateCommitType
  <2>2. match \in [Node -> Nat]
    BY <1>1 DEF TypeInv, TypeOK
  <2> HIDE DEF match, commit
  <2>3. /\ matchIndex' \in [Node -> [Node -> Nat]]
        /\ nextIndex' \in [Node -> [Node -> Nat]]
        /\ commitIndex' \in [Node -> Nat]
        /\ \A k, l \in Node : nextIndex[k][l] >= 1 => nextIndex'[k][l] >= 1
    <3>0. nextIndex \in [Node -> [Node -> Nat]]
      BY DEF TypeInv, TypeOK
    <3>1. m.matched + 1 \in Nat /\ m.matched + 1 >= 1
      BY <1>1
    <3>2. /\ nextIndex' \in [Node -> [Node -> Nat]]
          /\ \A k, l \in Node : nextIndex[k][l] >= 1 => nextIndex'[k][l] >= 1
      BY <1>1, <1>7, <3>0, <3>1, PeerIndexUpdate
    <3> QED
      BY <1>1, <1>7, <2>1, <2>2, <3>2 DEF TypeInv, TypeOK
  <2>4. /\ lastApplied' \in [Node -> Nat]
        /\ applied' \in [Node -> Seq(Command)]
        /\ Len(applied'[i]) = lastApplied'[i] /\ commit <= lastApplied'[i]
        /\ \A k \in Node \ {i} : applied'[k] = applied[k] /\ lastApplied'[k] = lastApplied[k]
    BY <1>1, <1>2, <1>7, <2>1, ApplyCommittedStep DEF TypeInv, TypeOK, AppliedExactly
  <2>5. AppliedExactly'
    BY <1>1, <1>7, <2>1, <2>4 DEF TypeInv, TypeOK, AppliedExactly
  <2>6. TypeOK'
    BY <1>3, <1>7, <2>3, <2>4 DEF TypeInv, TypeOK, termVars, timerVars
  <2> QED
    BY <1>3, <1>7, <2>3, <2>5, <2>6 DEF TypeInv, IndexIsPosition, termVars
<1> QED
  BY <1>4, <1>5, <1>6, <1>7 DEF AppendReply

LEMMA TypeStart ==
    ASSUME TypeInv, NEW i \in Node, NEW c \in Command, Start(i, c)
    PROVE  TypeInv'
<1> DEFINE new == Append(log[i], NextEntry(log[i], currentTerm[i], c))
<1>1. IsLog(new)
  BY LogsAreLogs, AppendIsLog DEF TypeInv, TypeOK
<1>2. log' = [log EXCEPT ![i] = new]
  BY DEF Start
<1> HIDE DEF new
<1>3. /\ log' \in [Node -> Seq(Entry)]
      /\ \A j \in Node : \A k \in 1 .. Len(log'[j]) : log'[j][k].index = k
  BY <1>1, <1>2 DEF TypeInv, TypeOK, IndexIsPosition, IsLog
<1>4. TypeOK'
  BY <1>3 DEF TypeInv, TypeOK, Start, termVars, leaderVars, timerVars, netVars
<1> QED
  BY <1>3, <1>4 DEF TypeInv, IndexIsPosition, AppliedExactly, Start, termVars,
                    leaderVars, netVars

LEMMA TypeOperator ==
    ASSUME TypeInv, NEW i \in Node, Stop(i) \/ Restart(i)
    PROVE  TypeInv'
<1>1. CASE Stop(i)
  <2>1. TypeOK'
    BY <1>1 DEF TypeInv, TypeOK, Stop, termVars, logVars, leaderVars, netVars
  <2> QED
    BY <1>1, <2>1 DEF TypeInv, IndexIsPosition, AppliedExactly, Stop, termVars,
                      logVars, leaderVars, netVars
<1>2. CASE Restart(i)
  <2>1. TypeOK'
    BY <1>2 DEF TypeInv, TypeOK, Restart, logVars, leaderVars, netVars
  <2> QED
    BY <1>2, <2>1 DEF TypeInv, TypeOK, IndexIsPosition, AppliedExactly, Restart,
                      logVars, leaderVars, netVars, Follower, Leader
<1> QED
  BY <1>1, <1>2

LEMMA TypeRPCFails ==
    ASSUME TypeInv, RPCFails
    PROVE  TypeInv'
<1>1. /\ voteReqs' \subseteq voteReqs /\ voteReps' \subseteq voteReps
      /\ appendReqs' \subseteq appendReqs /\ appendReps' \subseteq appendReps
  BY DEF RPCFails
<1>2. TypeOK'
  BY <1>1 DEF TypeInv, TypeOK, RPCFails, termVars, logVars, leaderVars, timerVars
<1> QED
  BY <1>1, <1>2 DEF TypeInv, IndexIsPosition, AppliedExactly, RPCFails, termVars,
                    logVars, leaderVars

LEMMA TypeStep == TypeInv /\ [Next]_vars => TypeInv'
<1> SUFFICES ASSUME TypeInv, [Next]_vars PROVE TypeInv'
  OBVIOUS
<1>1. CASE UNCHANGED vars
  BY <1>1 DEF TypeInv, TypeOK, IndexIsPosition, AppliedExactly, vars, termVars,
              logVars, leaderVars, timerVars, netVars
<1>2. CASE Next
  BY <1>2, TypeTimerFires, TypeStartElection, TypeRequestVote, TypeVoteReply,
     TypeSendHeartbeats, TypeAppendEntries, TypeAppendReply, TypeStart,
     TypeOperator, TypeRPCFails, RaftAssumption DEF Next
<1> QED
  BY <1>1, <1>2

\* The fields, the calls and the histories keep their types, whatever happens to
\* calls and nodes.
THEOREM TypeCorrect == Spec => []TypeOK
<1>1. TypeInv => TypeOK
  BY DEF TypeInv
<1> QED
  BY <1>1, TypeInit, TypeStep, PTL DEF Spec

\* An entry's Index is its position in the log and in every call, and nextIndex
\* is never counted down to 0 (append_entries.go:207).
THEOREM PositionsCorrect == Spec => []IndexIsPosition
<1>1. TypeInv => IndexIsPosition
  BY DEF TypeInv
<1> QED
  BY <1>1, TypeInit, TypeStep, PTL DEF Spec

\* Every committed command is handed to the state machine exactly once, in the
\* order of the log (node.go:235-249).
THEOREM ApplicationCorrect == Spec => []AppliedExactly
<1>1. TypeInv => AppliedExactly
  BY DEF TypeInv
<1> QED
  BY <1>1, TypeInit, TypeStep, PTL DEF Spec

-----------------------------------------------------------------------------
(* Elections.  Restart forgets the vote (node.go), so what follows is      *)
(* about clusters whose nodes may be stopped but are never restarted.      *)

NoRestart == Restartable = {}

\* VotesAreKept of every term, and the majority behind every election.
VoteInv ==
    /\ \A j, c \in Node : \A t \in Nat : VoteIsFor(j, t, c) =>
          /\ currentTerm[j] >= t
          /\ currentTerm[j] = t => votedFor[j] = c
    /\ \A j, c, d \in Node : \A t \in Nat :
          VoteIsFor(j, t, c) /\ VoteIsFor(j, t, d) => c = d
    /\ \A e \in elections : IsMajority(e.voters)

\* Two majorities of the cluster share a node.
LEMMA MajoritiesMeet ==
    ASSUME NEW S \in SUBSET Node, NEW T \in SUBSET Node, IsMajority(S), IsMajority(T)
    PROVE  \E j \in Node : j \in S /\ j \in T
<1>1. IsFiniteSet(Node)
  BY RaftAssumption
<1>2. /\ Cardinality(Node) \in Nat /\ Cardinality(S) \in Nat /\ Cardinality(T) \in Nat
  BY <1>1, FS_CardinalityType, FS_Subset
<1>3. Cardinality(S) + Cardinality(T) > Cardinality(Node)
  BY <1>2 DEF IsMajority
<1>4. S \cap T # {}
  BY <1>1, <1>3, FS_MajoritiesIntersect
<1> QED
  BY <1>4

\* A vote once given is never changed within its term.
LEMMA KeepsVoteStep ==
    ASSUME NoRestart, TypeInv, [Next]_vars, NEW j \in Node
    PROVE  KeepsVote(j)
<1>0. currentTerm \in [Node -> Nat] /\ votedFor \in [Node -> Node \cup {None}]
  BY DEF TypeInv, TypeOK
<1>1. CASE UNCHANGED <<currentTerm, votedFor>>
  BY <1>0, <1>1 DEF KeepsVote
<1>2. ASSUME NEW i \in Node, NEW S \in SUBSET Peers(i), StartElection(i, S)
      PROVE  KeepsVote(j)
  BY <1>0, <1>2 DEF StartElection, KeepsVote
<1>3. ASSUME NEW m \in voteReqs, RequestVote(m)
      PROVE  KeepsVote(j)
  <2>1. m.term \in Nat /\ m.dst \in Node
    BY DEF TypeInv, TypeOK, VoteReq
  <2> QED
    BY <1>0, <1>3, <2>1 DEF RequestVote, MayVoteFor, KeepsVote
<1>4. ASSUME NEW i \in Node, NEW t \in Nat, t > currentTerm[i], StepDown(i, t)
      PROVE  KeepsVote(j)
  BY <1>0, <1>4 DEF StepDown, KeepsVote
<1>5. ASSUME NEW m \in voteReps, VoteReply(m)
      PROVE  KeepsVote(j)
  <2>1. m.term \in Nat /\ m.dst \in Node
    BY DEF TypeInv, TypeOK, VoteRep
  <2> QED
    BY <1>1, <1>4, <1>5, <2>1 DEF VoteReply, termVars
<1>6. ASSUME NEW m \in appendReqs, AppendEntries(m)
      PROVE  KeepsVote(j)
  <2>1. m.term \in Nat /\ m.dst \in Node
    BY DEF TypeInv, TypeOK, AppendReq
  <2>2. CASE m.term >= currentTerm[m.dst] /\ Follow(m.dst, m.src, m.term)
    BY <1>0, <2>1, <2>2 DEF Follow, KeepsVote
  <2> QED
    BY <1>1, <1>6, <2>2 DEF AppendEntries, termVars
<1>7. ASSUME NEW m \in appendReps, AppendReply(m)
      PROVE  KeepsVote(j)
  <2>1. m.term \in Nat /\ m.dst \in Node
    BY DEF TypeInv, TypeOK, AppendRep
  <2> QED
    BY <1>1, <1>4, <1>7, <2>1 DEF AppendReply, termVars
<1>8. ASSUME NEW i \in Node, TimerFires(i) \/ Stop(i)
                \/ (\E S \in SUBSET Peers(i) : SendHeartbeats(i, S))
                \/ (\E c \in Command : Start(i, c))
      PROVE  KeepsVote(j)
  BY <1>1, <1>8 DEF TimerFires, Stop, SendHeartbeats, Start, termVars
<1>9. ASSUME RPCFails
      PROVE  KeepsVote(j)
  BY <1>1, <1>9 DEF RPCFails, termVars
<1>10. ASSUME NEW i \in Node, Restart(i)
       PROVE  KeepsVote(j)
  BY <1>10 DEF Restart, NoRestart
<1>11. CASE UNCHANGED vars
  BY <1>1, <1>11 DEF vars, termVars
<1> QED
  BY <1>2, <1>3, <1>5, <1>6, <1>7, <1>8, <1>9, <1>10, <1>11,
     RaftAssumption DEF Next

\* Steps that give no vote leave VoteInv as it was.
LEMMA NoNewVote ==
    ASSUME VoteInv, \A j \in Node : KeepsVote(j),
           currentTerm \in [Node -> Nat], currentTerm' \in [Node -> Nat],
           \A j, c \in Node : \A t \in Nat :
              VoteIsFor(j, t, c)' => VoteIsFor(j, t, c),
           \A e \in elections' : IsMajority(e.voters)
    PROVE  VoteInv'
<1>1. ASSUME NEW j \in Node, NEW c \in Node, NEW t \in Nat, VoteIsFor(j, t, c)'
      PROVE  /\ currentTerm'[j] >= t
             /\ currentTerm'[j] = t => votedFor'[j] = c
  <2>1. VoteIsFor(j, t, c)
    BY <1>1
  <2>2. /\ currentTerm[j] >= t
        /\ currentTerm[j] = t => votedFor[j] = c
    BY <2>1 DEF VoteInv
  <2>3. c # None
    BY RaftAssumption
  <2> QED
    BY <2>2, <2>3 DEF KeepsVote
<1>2. ASSUME NEW j \in Node, NEW c \in Node, NEW d \in Node, NEW t \in Nat,
             VoteIsFor(j, t, c)', VoteIsFor(j, t, d)'
      PROVE  c = d
  BY <1>2 DEF VoteInv
<1> QED
  BY <1>1, <1>2 DEF VoteInv, IsMajority

\* A step that gives j's vote of term t to c, when it was not given before.
LEMMA NewVote ==
    ASSUME VoteInv, \A j \in Node : KeepsVote(j),
           currentTerm \in [Node -> Nat], currentTerm' \in [Node -> Nat],
           NEW v \in Node, NEW u \in Nat, NEW w \in Node,
           \A j, c \in Node : \A t \in Nat :
              VoteIsFor(j, t, c)' => VoteIsFor(j, t, c) \/ (j = v /\ t = u /\ c = w),
           currentTerm'[v] = u, votedFor'[v] = w,
           \A c \in Node : VoteIsFor(v, u, c) => c = w,
           elections' = elections
    PROVE  VoteInv'
<1>1. ASSUME NEW j \in Node, NEW c \in Node, NEW t \in Nat, VoteIsFor(j, t, c)'
      PROVE  /\ currentTerm'[j] >= t
             /\ currentTerm'[j] = t => votedFor'[j] = c
  <2>1. CASE j = v /\ t = u /\ c = w
    BY <2>1
  <2>2. CASE VoteIsFor(j, t, c)
    <3>1. /\ currentTerm[j] >= t
          /\ currentTerm[j] = t => votedFor[j] = c
      BY <2>2 DEF VoteInv
    <3>2. c # None
      BY RaftAssumption
    <3> QED
      BY <3>1, <3>2 DEF KeepsVote
  <2> QED
    BY <1>1, <2>1, <2>2
<1>2. ASSUME NEW j \in Node, NEW c \in Node, NEW d \in Node, NEW t \in Nat,
             VoteIsFor(j, t, c)', VoteIsFor(j, t, d)'
      PROVE  c = d
  BY <1>2 DEF VoteInv
<1> QED
  BY <1>1, <1>2 DEF VoteInv, IsMajority

\* Most steps take votes away at most: replies are lost, candidates step down.
LEMMA FewerVotes ==
    ASSUME VoteInv, \A j \in Node : KeepsVote(j),
           currentTerm \in [Node -> Nat], currentTerm' \in [Node -> Nat],
           voteReps' \subseteq voteReps, elections' = elections, votes' = votes,
           \A c \in Node : state'[c] # Follower
              => state[c] # Follower /\ currentTerm'[c] = currentTerm[c]
    PROVE  VoteInv'
<1>1. \A j, c \in Node : \A t \in Nat : VoteIsFor(j, t, c)' => VoteIsFor(j, t, c)
  BY DEF VoteIsFor
<1>2. \A e \in elections' : IsMajority(e.voters)
  BY DEF VoteInv
<1> QED
  BY <1>1, <1>2, NoNewVote

LEMMA VoteStartElection ==
    ASSUME TypeInv, TypeInv', VoteInv, \A j \in Node : KeepsVote(j),
           NEW i \in Node, NEW S \in SUBSET Peers(i), StartElection(i, S)
    PROVE  VoteInv'
<1> DEFINE u == currentTerm[i] + 1
<1>1. /\ u \in Nat
      /\ currentTerm \in [Node -> Nat] /\ currentTerm' \in [Node -> Nat]
      /\ currentTerm'[i] = u /\ votedFor'[i] = i /\ votes'[i] = {i}
      /\ \A c \in Node \ {i} : /\ state'[c] = state[c] /\ votes'[c] = votes[c]
                               /\ currentTerm'[c] = currentTerm[c]
      /\ voteReps' = voteReps /\ elections' = elections
  BY DEF TypeInv, TypeOK, StartElection
<1>2. ASSUME NEW j \in Node, NEW c \in Node, NEW t \in Nat, VoteIsFor(j, t, c)'
      PROVE  VoteIsFor(j, t, c) \/ (j = i /\ t = u /\ c = i)
  BY <1>1, <1>2 DEF VoteIsFor
<1>3. ASSUME NEW c \in Node, VoteIsFor(i, u, c)
      PROVE  c = i
  <2>1. currentTerm[i] >= u
    BY <1>1, <1>3 DEF VoteInv
  <2> QED
    BY <1>1, <2>1
<1> HIDE DEF u
<1> QED
  BY <1>1, <1>2, <1>3, NewVote

LEMMA VoteRequestVote ==
    ASSUME TypeInv, TypeInv', VoteInv, \A j \in Node : KeepsVote(j),
           NEW m \in voteReqs, RequestVote(m)
    PROVE  VoteInv'
<1> DEFINE i     == m.dst
           grant == /\ m.term >= currentTerm[i]
                    /\ MayVoteFor(i, m)
                    /\ UpToDate(log[i], m.lastLogIndex, m.lastLogTerm)
           reply == [src |-> i, dst |-> m.src, reqTerm |-> m.term,
                     term |-> currentTerm'[i], granted |-> grant]
<1>1. m.src \in Node /\ i \in Node /\ m.term \in Nat
  BY DEF TypeInv, TypeOK, VoteReq
<1>2. /\ currentTerm \in [Node -> Nat] /\ currentTerm' \in [Node -> Nat]
      /\ \A c \in Node : state'[c] # Follower
           => state[c] # Follower /\ currentTerm'[c] = currentTerm[c]
      /\ votes' = votes /\ elections' = elections
      /\ voteReps' = voteReps \cup {reply}
  BY <1>1 DEF TypeInv, TypeOK, RequestVote
<1>3. CASE grant
  <2>1. currentTerm'[i] = m.term /\ votedFor'[i] = m.src
    <3>1. /\ currentTerm' = [currentTerm EXCEPT ![i] =
                               IF m.term > currentTerm[i] THEN m.term ELSE @]
          /\ votedFor'[i] = m.src
      BY <1>1, <1>3 DEF TypeInv, TypeOK, RequestVote
    <3>2. m.term >= currentTerm[i] /\ currentTerm[i] \in Nat
      BY <1>1, <1>2, <1>3
    <3> QED
      BY <1>1, <1>2, <3>1, <3>2
  <2>2. ASSUME NEW j \in Node, NEW c \in Node, NEW t \in Nat, VoteIsFor(j, t, c)'
        PROVE  VoteIsFor(j, t, c) \/ (j = i /\ t = m.term /\ c = m.src)
    <3> HIDE DEF grant
    <3> QED
      BY <1>2, <2>2 DEF VoteIsFor
  <2>3. ASSUME NEW c \in Node, VoteIsFor(i, m.term, c)
        PROVE  c = m.src
    <3>1. /\ currentTerm[i] >= m.term
          /\ currentTerm[i] = m.term => votedFor[i] = c
      BY <1>1, <2>3 DEF VoteInv
    <3>2. currentTerm[i] = m.term /\ currentTerm[i] \in Nat
      BY <1>1, <1>2, <1>3, <3>1
    <3>3. votedFor[i] \in {None, m.src}
      BY <1>1, <1>3, <3>2 DEF MayVoteFor
    <3> QED
      BY <3>1, <3>2, <3>3, RaftAssumption
  <2> HIDE DEF grant, reply
  <2> QED
    BY <1>1, <1>2, <2>1, <2>2, <2>3, NewVote
<1>4. CASE ~grant
  <2>1. ~reply.granted
    BY <1>4
  <2>2. \A j, c \in Node : \A t \in Nat : VoteIsFor(j, t, c)' => VoteIsFor(j, t, c)
    <3> HIDE DEF reply
    <3> QED
      BY <1>2, <2>1 DEF VoteIsFor
  <2>3. \A e \in elections' : IsMajority(e.voters)
    BY <1>2 DEF VoteInv
  <2> HIDE DEF grant, reply
  <2> QED
    BY <1>2, <2>2, <2>3, NoNewVote
<1> QED
  BY <1>3, <1>4

LEMMA VoteVoteReply ==
    ASSUME TypeInv, TypeInv', VoteInv, \A j \in Node : KeepsVote(j),
           NEW m \in voteReps, VoteReply(m)
    PROVE  VoteInv'
<1> DEFINE i       == m.dst
           voters  == votes[i] \cup {m.src}
           waiting == Awaits(i, Candidate, m.reqTerm)
           counted == waiting /\ m.term <= currentTerm[i] /\ m.granted
           won     == [term |-> currentTerm[i], leader |-> i, voters |-> voters]
<1>1. m.src \in Node /\ i \in Node /\ m.reqTerm \in Nat
  BY DEF TypeInv, TypeOK, VoteRep
<1>2. /\ currentTerm \in [Node -> Nat] /\ currentTerm' \in [Node -> Nat]
      /\ state \in [Node -> {Follower, Candidate, Leader}]
      /\ votes \in [Node -> SUBSET Node]
      /\ voteReps' \subseteq voteReps
  BY DEF TypeInv, TypeOK, VoteReply
<1>3. CASE StepDown(i, m.term) /\ UNCHANGED <<leaderID, leaderVars, votes, elections>>
  <2>1. \A c \in Node : state'[c] # Follower
           => state[c] # Follower /\ currentTerm'[c] = currentTerm[c]
    BY <1>1, <1>2, <1>3 DEF StepDown
  <2> QED
    BY <1>2, <1>3, <2>1, FewerVotes
<1>4. CASE UNCHANGED <<termVars, leaderID, leaderVars, votes, elections>>
  <2>1. \A c \in Node : state'[c] # Follower
           => state[c] # Follower /\ currentTerm'[c] = currentTerm[c]
    BY <1>4 DEF termVars
  <2> QED
    BY <1>2, <1>4, <2>1, FewerVotes
<1>5. CASE counted /\ votes' = [votes EXCEPT ![i] = voters] /\ currentTerm' = currentTerm
  <2>1. \A v \in voters : VoteIsFor(v, currentTerm[i], i)
    BY <1>1, <1>2, <1>5 DEF VoteIsFor, Awaits, Candidate, Follower
  <2>2. CASE UNCHANGED <<termVars, leaderID, leaderVars, elections>>
    <3>1. \A j, c \in Node : \A t \in Nat : VoteIsFor(j, t, c)' => VoteIsFor(j, t, c)
      <4> HIDE DEF voters
      <4> QED
        BY <1>1, <1>2, <1>5, <2>1, <2>2 DEF VoteIsFor, termVars
    <3>2. \A e \in elections' : IsMajority(e.voters)
      BY <2>2 DEF VoteInv
    <3> QED
      BY <1>2, <3>1, <3>2, NoNewVote
  <2>3. CASE IsMajority(voters) /\ BecomeLeader(i, voters)
    <3>1. elections' = elections \cup {won}
      BY <2>3 DEF BecomeLeader
    <3>2. ASSUME NEW j \in Node, NEW c \in Node, NEW t \in Nat, VoteIsFor(j, t, c)'
          PROVE  VoteIsFor(j, t, c)
      <4>1. CASE \E r \in voteReps' :
                   r.granted /\ r.src = j /\ r.reqTerm = t /\ r.dst = c
        BY <1>2, <4>1 DEF VoteIsFor
      <4>2. CASE state'[c] # Follower /\ currentTerm'[c] = t /\ j \in votes'[c]
        <5>1. CASE c = i
          BY <1>1, <1>2, <1>5, <2>1, <4>2, <5>1
        <5>2. CASE c # i
          BY <1>1, <1>2, <1>5, <2>3, <4>2, <5>2 DEF VoteIsFor, BecomeLeader
        <5> QED
          BY <5>1, <5>2
      <4>3. CASE \E e \in elections' : e.term = t /\ e.leader = c /\ j \in e.voters
        <5>1. PICK e \in elections' : e.term = t /\ e.leader = c /\ j \in e.voters
          BY <4>3
        <5>2. CASE e = won
          BY <2>1, <5>1, <5>2
        <5>3. CASE e \in elections
          BY <5>1, <5>3 DEF VoteIsFor
        <5> QED
          BY <3>1, <5>2, <5>3
      <4> QED
        BY <3>2, <4>1, <4>2, <4>3 DEF VoteIsFor
    <3>3. \A e \in elections' : IsMajority(e.voters)
      BY <2>3, <3>1 DEF VoteInv
    <3> QED
      BY <1>2, <3>2, <3>3, NoNewVote
  <2> QED
    BY <1>3, <1>4, <1>5, <2>2, <2>3 DEF VoteReply
<1> QED
  BY <1>3, <1>4, <1>5 DEF VoteReply, termVars

LEMMA VoteStep ==
    ASSUME NoRestart, TypeInv, VoteInv, [Next]_vars
    PROVE  VoteInv'
<1>0. /\ TypeInv'
      /\ \A j \in Node : KeepsVote(j)
      /\ currentTerm \in [Node -> Nat] /\ currentTerm' \in [Node -> Nat]
  <2>1. TypeInv'
    BY TypeStep
  <2> QED
    BY <2>1, KeepsVoteStep DEF TypeInv, TypeOK
<1>1. CASE /\ voteReps' \subseteq voteReps /\ elections' = elections /\ votes' = votes
           /\ state' = state /\ currentTerm' = currentTerm
  BY <1>0, <1>1, FewerVotes
<1>2. ASSUME NEW i \in Node,
             \/ TimerFires(i) \/ Stop(i)
             \/ \E S \in SUBSET Peers(i) : SendHeartbeats(i, S)
             \/ \E c \in Command : Start(i, c)
      PROVE  VoteInv'
  BY <1>1, <1>2 DEF TimerFires, Stop, SendHeartbeats, Start, termVars, netVars
<1>3. ASSUME NEW m \in appendReqs, AppendEntries(m)
      PROVE  VoteInv'
  <2>1. m.dst \in Node
    BY DEF TypeInv, TypeOK, AppendReq
  <2>2. \A c \in Node : state'[c] # Follower
           => state[c] # Follower /\ currentTerm'[c] = currentTerm[c]
    BY <1>3, <2>1 DEF TypeInv, TypeOK, AppendEntries, Follow, termVars
  <2>3. voteReps' \subseteq voteReps /\ elections' = elections /\ votes' = votes
    BY <1>3 DEF AppendEntries
  <2> QED
    BY <1>0, <2>2, <2>3, FewerVotes
<1>4. ASSUME NEW m \in appendReps, AppendReply(m)
      PROVE  VoteInv'
  <2>1. m.dst \in Node
    BY DEF TypeInv, TypeOK, AppendRep
  <2>2. \A c \in Node : state'[c] # Follower
           => state[c] # Follower /\ currentTerm'[c] = currentTerm[c]
    BY <1>4, <2>1 DEF TypeInv, TypeOK, AppendReply, StepDown, termVars
  <2>3. voteReps' \subseteq voteReps /\ elections' = elections /\ votes' = votes
    BY <1>4 DEF AppendReply
  <2> QED
    BY <1>0, <2>2, <2>3, FewerVotes
<1>5. ASSUME RPCFails
      PROVE  VoteInv'
  <2>1. voteReps' \subseteq voteReps
    BY <1>5 DEF RPCFails
  <2> QED
    BY <1>1, <1>5, <2>1 DEF RPCFails, termVars
<1>6. ASSUME NEW i \in Node, Restart(i)
      PROVE  VoteInv'
  BY <1>6 DEF Restart, NoRestart
<1>7. CASE UNCHANGED vars
  BY <1>1, <1>7 DEF vars, termVars, netVars
<1> QED
  BY <1>0, <1>2, <1>3, <1>4, <1>5, <1>6, <1>7, VoteStartElection, VoteRequestVote,
     VoteVoteReply, RaftAssumption DEF Next

LEMMA VoteInit == Init => VoteInv
BY DEF Init, NoVote, VoteInv, VoteIsFor

\* Two winners of a term would have been voted for by a node of both
\* majorities, which votes once.
LEMMA OneWinner == TypeInv /\ VoteInv => ElectionSafety
<1> SUFFICES ASSUME TypeInv, VoteInv,
                    NEW e \in elections, NEW f \in elections, e.term = f.term
             PROVE  e.leader = f.leader
  BY DEF ElectionSafety
<1>1. /\ e.term \in Nat /\ e.leader \in Node /\ f.leader \in Node
      /\ e.voters \in SUBSET Node /\ f.voters \in SUBSET Node
  BY DEF TypeInv, TypeOK
<1>2. PICK j \in Node : j \in e.voters /\ j \in f.voters
  BY <1>1, MajoritiesMeet DEF VoteInv
<1>3. VoteIsFor(j, e.term, e.leader) /\ VoteIsFor(j, e.term, f.leader)
  BY <1>2 DEF VoteIsFor
<1> QED
  BY <1>1, <1>3 DEF VoteInv

LEMMA ElectionInvariant == ASSUME NoRestart PROVE Spec => [](TypeInv /\ VoteInv)
<1>1. TypeInv /\ VoteInv /\ [Next]_vars => TypeInv' /\ VoteInv'
  BY TypeStep, VoteStep
<1> QED
  BY <1>1, TypeInit, VoteInit, PTL DEF Spec

\* Without restarts a vote, once given, is for one candidate and stays with
\* it, wherever the replies are.
THEOREM VotesCorrect == ASSUME NoRestart PROVE Spec => []VotesAreKept
<1>1. VoteInv => VotesAreKept
  BY RaftAssumption DEF VoteInv, VotesAreKept
<1> QED
  BY <1>1, ElectionInvariant, PTL

\* Without restarts no step changes a vote within its term.
THEOREM VoteKeptCorrect == ASSUME NoRestart PROVE Spec => VoteKept
<1>1. TypeInv /\ [Next]_vars => [\A i \in Node : KeepsVote(i)]_vars
  BY KeepsVoteStep
<1> QED
  BY <1>1, TypeInit, TypeStep, PTL DEF Spec, VoteKept

\* Without restarts a term has one leader at most, for every cluster, every
\* number of terms and calls, and whatever calls are lost or late.
THEOREM ElectionsCorrect == ASSUME NoRestart PROVE Spec => []ElectionSafety
BY ElectionInvariant, OneWinner, PTL

-----------------------------------------------------------------------------
(* Election timers.                                                        *)

\* A leader is in the history of elections, which never shrinks: this is what
\* makes ElectionAhead inductive, since only a leader's timer is spent.
TimerInv ==
    /\ \A i \in Node : state[i] = Leader => \E e \in elections : e.leader = i
    /\ ElectionAhead

\* A step that takes no timer, no election and no stop away and makes no new
\* leader keeps TimerInv.
LEMMA TimerKept ==
    ASSUME TimerInv,
           elections \subseteq elections',
           \A i \in Node : state'[i] = Leader => state[i] = Leader,
           \A i \in Node : stopped[i] => stopped'[i],
           \A i \in Node : timer[i] => timer'[i],
           \A i \in Node : electing[i] => electing'[i]
    PROVE  TimerInv'
  BY DEF TimerInv, ElectionAhead

LEMMA TimerTimerFires ==
    ASSUME TypeInv, TimerInv, NEW i \in Node, TimerFires(i)
    PROVE  TimerInv'
<1>1. state' = state /\ elections' = elections /\ stopped' = stopped
  BY DEF TimerFires, termVars
<1>2. \A j \in Node : j # i => timer'[j] = timer[j] /\ electing'[j] = electing[j]
  BY DEF TypeInv, TypeOK, TimerFires
<1>3. electing'[i] = (state[i] # Leader)
  BY DEF TypeInv, TypeOK, TimerFires
<1> QED
  BY <1>1, <1>2, <1>3 DEF TimerInv, ElectionAhead

LEMMA TimerStartElection ==
    ASSUME TypeInv, TimerInv, NEW i \in Node, NEW S \in SUBSET Peers(i),
           StartElection(i, S)
    PROVE  TimerInv'
<1>1. elections' = elections /\ stopped' = stopped
  BY DEF StartElection, ResetElectionTimer
<1>2. \A j \in Node : j # i => /\ timer'[j] = timer[j] /\ electing'[j] = electing[j]
                               /\ state'[j] = state[j]
  BY DEF TypeInv, TypeOK, StartElection, ResetElectionTimer
<1>3. timer'[i] /\ state'[i] # Leader
  BY DEF TypeInv, TypeOK, StartElection, ResetElectionTimer, Candidate, Leader
<1> QED
  BY <1>1, <1>2, <1>3 DEF TimerInv, ElectionAhead

LEMMA TimerVoteReply ==
    ASSUME TypeInv, TimerInv, NEW m \in voteReps, VoteReply(m)
    PROVE  TimerInv'
<1> DEFINE i      == m.dst
           voters == votes[i] \cup {m.src}
<1>1. i \in Node
  BY DEF TypeInv, TypeOK, VoteRep
<1>2. timer' = timer /\ electing' = electing /\ stopped' = stopped
  BY DEF VoteReply, timerVars
<1>3. CASE BecomeLeader(i, voters)
  <2>1. \A j \in Node : j # i => state'[j] = state[j]
    BY <1>1, <1>3 DEF TypeInv, TypeOK, BecomeLeader
  <2>2. elections \subseteq elections' /\ \E e \in elections' : e.leader = i
    <3> DEFINE won == [term |-> currentTerm[i], leader |-> i, voters |-> voters]
    <3>1. elections' = elections \cup {won}
      BY <1>3 DEF BecomeLeader
    <3>2. won.leader = i
      OBVIOUS
    <3> HIDE DEF won
    <3> QED
      BY <3>1, <3>2
  <2> HIDE DEF i
  <2> QED
    BY <1>2, <2>1, <2>2 DEF TimerInv, ElectionAhead
<1>4. CASE StepDown(i, m.term) /\ elections' = elections
  <2>1. \A j \in Node : state'[j] = Leader => state[j] = Leader
    BY <1>1, <1>4 DEF TypeInv, TypeOK, StepDown, Follower, Leader
  <2> QED
    BY <1>2, <1>4, <2>1, TimerKept
<1>5. CASE state' = state /\ elections' = elections
  BY <1>2, <1>5, TimerKept
<1> QED
  BY <1>3, <1>4, <1>5 DEF VoteReply, termVars

LEMMA TimerRequestVote ==
    ASSUME TypeInv, TimerInv, NEW m \in voteReqs, RequestVote(m)
    PROVE  TimerInv'
<1>1. m.dst \in Node
  BY DEF TypeInv, TypeOK, VoteReq
<1>2. elections' = elections /\ stopped' = stopped /\ electing' = electing
  BY DEF RequestVote, ResetElectionTimer
<1>3. \A j \in Node : timer[j] => timer'[j]
  BY <1>1 DEF TypeInv, TypeOK, RequestVote, ResetElectionTimer
<1>4. \A j \in Node : state'[j] = Leader => state[j] = Leader
  BY <1>1 DEF TypeInv, TypeOK, RequestVote, ResetElectionTimer, Follower, Leader
<1> QED
  BY <1>2, <1>3, <1>4, TimerKept

LEMMA TimerAppendEntries ==
    ASSUME TypeInv, TimerInv, NEW m \in appendReqs, AppendEntries(m)
    PROVE  TimerInv'
<1>1. m.dst \in Node
  BY DEF TypeInv, TypeOK, AppendReq
<1>2. elections' = elections /\ stopped' = stopped /\ electing' = electing
  BY DEF AppendEntries
<1>3. \/ timer' = timer /\ state' = state
      \/ Follow(m.dst, m.src, m.term)
  BY DEF AppendEntries, termVars
<1>4. \A j \in Node : timer[j] => timer'[j]
  BY <1>1, <1>3 DEF TypeInv, TypeOK, Follow, ResetElectionTimer
<1>5. \A j \in Node : state'[j] = Leader => state[j] = Leader
  BY <1>1, <1>3 DEF TypeInv, TypeOK, Follow, ResetElectionTimer, Follower, Leader
<1> QED
  BY <1>2, <1>4, <1>5, TimerKept

LEMMA TimerAppendReply ==
    ASSUME TypeInv, TimerInv, NEW m \in appendReps, AppendReply(m)
    PROVE  TimerInv'
<1>1. m.dst \in Node
  BY DEF TypeInv, TypeOK, AppendRep
<1>2. elections' = elections /\ stopped' = stopped
      /\ timer' = timer /\ electing' = electing
  BY DEF AppendReply, timerVars
<1>3. state' = state \/ StepDown(m.dst, m.term)
  BY DEF AppendReply, termVars
<1>4. \A j \in Node : state'[j] = Leader => state[j] = Leader
  BY <1>1, <1>3 DEF TypeInv, TypeOK, StepDown, Follower, Leader
<1> QED
  BY <1>2, <1>4, TimerKept

LEMMA TimerOperator ==
    ASSUME TypeInv, TimerInv, NEW i \in Node, Stop(i) \/ Restart(i)
    PROVE  TimerInv'
<1>1. CASE Stop(i)
  <2>1. /\ state' = state /\ elections' = elections /\ electing' = electing
        /\ stopped'[i]
        /\ \A j \in Node : j # i => timer'[j] = timer[j] /\ stopped'[j] = stopped[j]
    BY <1>1 DEF TypeInv, TypeOK, Stop, termVars
  <2> QED
    BY <2>1 DEF TimerInv, ElectionAhead
<1>2. CASE Restart(i)
  <2>1. /\ elections' = elections /\ electing' = electing
        /\ timer'[i] /\ state'[i] # Leader
        /\ \A j \in Node : j # i => /\ timer'[j] = timer[j] /\ stopped'[j] = stopped[j]
                                     /\ state'[j] = state[j]
    BY <1>2 DEF TypeInv, TypeOK, Restart, Follower, Leader
  <2> QED
    BY <2>1 DEF TimerInv, ElectionAhead
<1> QED
  BY <1>1, <1>2

LEMMA TimerStep == TypeInv /\ TimerInv /\ [Next]_vars => TimerInv'
<1> SUFFICES ASSUME TypeInv, TimerInv, [Next]_vars PROVE TimerInv'
  OBVIOUS
<1>1. ASSUME /\ state' = state /\ elections' = elections /\ stopped' = stopped
             /\ timer' = timer /\ electing' = electing
      PROVE  TimerInv'
  BY <1>1, TimerKept
<1>2. ASSUME NEW i \in Node, NEW S \in SUBSET Peers(i), SendHeartbeats(i, S)
      PROVE  TimerInv'
  BY <1>1, <1>2 DEF SendHeartbeats, termVars, timerVars
<1>3. ASSUME NEW i \in Node, NEW c \in Command, Start(i, c)
      PROVE  TimerInv'
  BY <1>1, <1>3 DEF Start, termVars, timerVars
<1>4. CASE RPCFails
  BY <1>1, <1>4 DEF RPCFails, termVars, timerVars
<1>5. CASE UNCHANGED vars
  BY <1>1, <1>5 DEF vars, termVars, timerVars
<1> QED
  BY <1>2, <1>3, <1>4, <1>5, TimerTimerFires, TimerStartElection, TimerVoteReply,
     TimerRequestVote, TimerAppendEntries, TimerAppendReply, TimerOperator,
     RaftAssumption
  DEF Next

\* A running node that has never led has an election ahead of it: TimerFires
\* leads to startElection, which resets the timer, and only a leader's timer
\* is spent for nothing; with crashes and restarts.
THEOREM ElectionAheadCorrect == Spec => []ElectionAhead
<1>1. Init => TimerInv
  BY DEF Init, TimerInv, ElectionAhead, Follower, Leader
<1>2. TimerInv => ElectionAhead
  BY DEF TimerInv
<1> QED
  BY <1>1, <1>2, TypeInit, TypeStep, TimerStep, PTL DEF Spec
=============================================================================
