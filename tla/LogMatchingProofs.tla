-------------------------- MODULE LogMatchingProofs --------------------------
(***************************************************************************)
(* The proof that logs match, for every cluster whose nodes may be stopped *)
(* but are never restarted (Restart forgets the vote, and with two leaders *)
(* of one term logs do not match).                                         *)
(*                                                                         *)
(* LogMatching is not inductive: it says nothing of calls, and it compares *)
(* whole prefixes.  What is, is a local fact about links: an entry with    *)
(* the term of the one before it, in a log or in a call.  Index and term   *)
(* of an entry determine its link.  LogMatching follows by going down the  *)
(* two logs from an entry they have in common.                             *)
(*                                                                         *)
(* The second part proves from it what a leader believes of its peers.     *)
(*                                                                         *)
(* The third is about what is committed.  There is, at every moment, a     *)
(* history: for each term the log of its leader, as far as it got in that  *)
(* term; every log is made of prefixes of those.  What a majority holds,   *)
(* and a leader may rely on, every later leader holds; what is committed   *)
(* rests on such an entry.  A leader may rely on an entry if no term lies  *)
(* between the entry's and its own, which is less than what Raft asks for  *)
(* and more than what updateCommitIndex does.                              *)
(***************************************************************************)
EXTENDS RaftProofs

LogLink(i, k) == [entry |-> log[i][k], before |-> TermAt(log[i], k - 1)]

CallLink(m, k) ==
    [entry  |-> m.entries[k],
     before |-> IF k > 1 THEN m.entries[k - 1].term
                ELSE IF m.prevLogIndex = 0 THEN 0 ELSE m.prevLogTerm]

LogLinks  == UNION {{LogLink(i, k) : k \in 1 .. Len(log[i])} : i \in Node}
CallLinks == UNION {{CallLink(m, k) : k \in 1 .. Len(m.entries)} : m \in appendReqs}
Links     == LogLinks \cup CallLinks

\* Index and term of an entry determine its link.
OneLink ==
    \A x, y \in Links :
        x.entry.index = y.entry.index /\ x.entry.term = y.entry.term => x = y

\* A leader has been elected in its term, a candidate has not.
ElectedInv ==
    /\ \A i \in Node : state[i] = Leader =>
          \E e \in elections : e.leader = i /\ e.term = currentTerm[i]
    /\ \A e \in elections : /\ e.term <= currentTerm[e.leader]
                            /\ e.term = currentTerm[e.leader]
                               => state[e.leader] # Candidate

\* Entries are of terms with a leader, and the leader of a term has all of
\* that term: the next one it appends is new.
FreshInv ==
    /\ \A x \in Links : \E e \in elections : e.term = x.entry.term
    /\ \A i \in Node : \A x \in Links :
          state[i] = Leader /\ x.entry.term = currentTerm[i]
          => x.entry.index <= Len(log[i])

MatchInv == OneLink /\ ElectedInv /\ FreshInv

-----------------------------------------------------------------------------
(* Links and logs.                                                         *)

LEMMA LogLinkIn ==
    ASSUME NEW i \in Node, NEW k \in 1 .. Len(log[i])
    PROVE  LogLink(i, k) \in Links
BY DEF Links, LogLinks

LEMMA CallLinkIn ==
    ASSUME NEW m \in appendReqs, NEW k \in 1 .. Len(m.entries)
    PROVE  CallLink(m, k) \in Links
BY DEF Links, CallLinks

LEMMA LinkType ==
    ASSUME TypeInv, NEW x \in Links
    PROVE  x.entry \in Entry /\ x.entry.index \in Nat /\ x.entry.term \in Nat
<1>1. CASE x \in LogLinks
  <2>0. PICK i \in Node : x \in {LogLink(i, k) : k \in 1 .. Len(log[i])}
    BY <1>1 DEF LogLinks
  <2>1. PICK k \in 1 .. Len(log[i]) : x = LogLink(i, k)
    BY <2>0
  <2>2. log[i] \in Seq(Entry)
    BY DEF TypeInv, TypeOK
  <2>3. log[i][k] \in Entry
    BY <2>2
  <2> QED
    BY <2>1, <2>3 DEF LogLink, Entry
<1>2. CASE x \in CallLinks
  <2>0. PICK m \in appendReqs : x \in {CallLink(m, k) : k \in 1 .. Len(m.entries)}
    BY <1>2 DEF CallLinks
  <2>1. PICK k \in 1 .. Len(m.entries) : x = CallLink(m, k)
    BY <2>0
  <2>2. m.entries \in Seq(Entry)
    BY DEF TypeInv, TypeOK, AppendReq
  <2>3. m.entries[k] \in Entry
    BY <2>2
  <2> QED
    BY <2>1, <2>3 DEF CallLink, Entry
<1> QED
  BY <1>1, <1>2 DEF Links

\* From an entry that two logs have in common down to the first: if one below
\* it were not the same, take the last such; the link of the next one gives
\* it the same term in both logs, and its own link then makes it the same.
LEMMA LinksMatch ==
    ASSUME TypeInv, OneLink
    PROVE  LogMatching
<1> SUFFICES ASSUME NEW i \in Node, NEW j \in Node,
                    NEW k \in 1 .. Len(log[i]), k <= Len(log[j]),
                    log[i][k].term = log[j][k].term,
                    NEW q \in 1 .. k, log[i][q] # log[j][q]
             PROVE  FALSE
  BY DEF LogMatching
<1> DEFINE D == {p \in 1 .. k : log[i][p] # log[j][p]}
<1>1. IsLog(log[i]) /\ IsLog(log[j])
  BY LogsAreLogs
<1>2. k \in Nat /\ Len(log[i]) \in Nat /\ Len(log[j]) \in Nat /\ k <= Len(log[i])
  BY <1>1 DEF IsLog
<1>3. ASSUME NEW p \in 1 .. k, log[i][p].term = log[j][p].term
      PROVE  /\ log[i][p] = log[j][p]
             /\ TermAt(log[i], p - 1) = TermAt(log[j], p - 1)
  <2>1. p \in 1 .. Len(log[i]) /\ p \in 1 .. Len(log[j])
    BY <1>2
  <2>2. LogLink(i, p) \in Links /\ LogLink(j, p) \in Links
    BY <2>1, LogLinkIn
  <2>3. log[i][p].index = p /\ log[j][p].index = p
    BY <1>1, <2>1 DEF IsLog
  <2>4. LogLink(i, p) = LogLink(j, p)
    BY <1>3, <2>2, <2>3 DEF OneLink, LogLink
  <2> QED
    BY <2>4 DEF LogLink
<1>4. PICK d \in D : \A p \in D : p <= d
  <2>1. D \subseteq 0 .. k /\ D # {}
    BY <1>2
  <2> HIDE DEF D
  <2> QED
    BY <1>2, <2>1, LastOfPositions
<1>5. d \in 1 .. k /\ log[i][d] # log[j][d] /\ log[i][k] = log[j][k]
  BY <1>2, <1>3
<1>6. d + 1 \in 1 .. k /\ d + 1 \notin D
  BY <1>2, <1>4, <1>5
<1>7. log[i][d + 1] = log[j][d + 1]
  BY <1>6
<1>8. TermAt(log[i], d) = TermAt(log[j], d)
  <2>1. d + 1 - 1 = d
    BY <1>5
  <2> QED
    BY <1>3, <1>6, <1>7, <2>1
<1>9. log[i][d].term = log[j][d].term
  BY <1>2, <1>5, <1>8 DEF TermAt, Has
<1> QED
  BY <1>3, <1>5, <1>9

\* A log that agrees with a call up to a position agrees with it up to any
\* position below.
LEMMA AgreesBelow ==
    ASSUME NEW l, NEW entries, entries[1].index \in Int,
           NEW p \in Int, NEW q \in Int, q <= p, Agrees(l, entries, p)
    PROVE  Agrees(l, entries, q)
<1> entries[1].index .. q \subseteq entries[1].index .. p
  OBVIOUS
<1> QED
  BY DEF Agrees

\* What AppendEntries makes of a log has the links of the log and of the call.
LEMMA MergeLinks ==
    ASSUME NEW l, IsLog(l), NEW entries \in Seq(Entry),
           NEW prev \in Nat, NEW prevTerm \in Nat, PrevMatches(l, prev, prevTerm),
           \A k \in 1 .. Len(entries) : entries[k].index = prev + k,
           NEW p \in 1 .. Len(MergeEntries(l, entries))
    PROVE  \/ /\ p \in 1 .. Len(l)
              /\ MergeEntries(l, entries)[p] = l[p]
              /\ TermAt(MergeEntries(l, entries), p - 1) = TermAt(l, p - 1)
           \/ /\ p - prev \in 1 .. Len(entries)
              /\ MergeEntries(l, entries)[p] = entries[p - prev]
              /\ TermAt(MergeEntries(l, entries), p - 1) =
                   IF p - prev > 1 THEN entries[p - prev - 1].term
                   ELSE IF prev = 0 THEN 0 ELSE prevTerm
<1> DEFINE merged == MergeEntries(l, entries)
<1>0. Len(l) \in Nat /\ Len(entries) \in Nat /\ prev <= Len(l)
  BY LastIndexIsLength DEF IsLog, PrevMatches
<1>1. CASE merged = l
  BY <1>1
<1>2. CASE merged # l
  <2> DEFINE first == entries[1].index
             last  == first + Len(entries) - 1
             f     == [q \in 1 .. last |-> IF Agrees(l, entries, q)
                                           THEN l[q] ELSE entries[q - first + 1]]
  <2>1. entries # <<>> /\ ~Agrees(l, entries, last) /\ merged = f
    BY <1>2 DEF MergeEntries
  <2>2. Len(entries) >= 1 /\ first = prev + 1 /\ last = prev + Len(entries)
    BY <1>0, <2>1
  <2>3. IsLog(merged)
    BY <1>0, MergeIsLog
  <2>4. Len(merged) = last
    <3>1. last \in Nat
      BY <1>0, <2>2
    <3>2. DOMAIN merged = 1 .. last
      BY <2>1
    <3>3. merged \in Seq(Entry)
      BY <2>3 DEF IsLog
    <3> HIDE DEF merged, f, last
    <3> QED
      BY <3>1, <3>2, <3>3
  <2>5. p \in 1 .. last /\ p - 1 \in 0 .. last
    BY <1>0, <2>2, <2>4
  \* Up to some position the log agrees with the call, and from there on it
  \* does not.
  <2>6. ASSUME NEW q \in 1 .. last
        PROVE  /\ Agrees(l, entries, q) => q <= Len(l) /\ merged[q] = l[q]
               /\ ~Agrees(l, entries, q) => q > prev /\ merged[q] = entries[q - prev]
    <3>1. q - first + 1 = q - prev
      BY <1>0, <2>2
    <3>2. merged[q] = IF Agrees(l, entries, q) THEN l[q] ELSE entries[q - prev]
      BY <2>1, <3>1
    <3>3. Agrees(l, entries, q) => q <= Len(l)
      <4>1. CASE q <= prev
        BY <1>0, <4>1
      <4>2. CASE q > prev
        BY <1>0, <2>2, <4>2 DEF Agrees, Has
      <4> QED
        BY <1>0, <4>1, <4>2
    <3>4. ~Agrees(l, entries, q) => q > prev
      BY <1>0, <2>2 DEF Agrees
    <3> HIDE DEF merged
    <3> QED
      BY <3>2, <3>3, <3>4
  <2>7. p > 1 => TermAt(merged, p - 1) = merged[p - 1].term /\ p - 1 \in 1 .. last
    BY <1>0, <2>2, <2>4, <2>5 DEF TermAt, Has
  <2>8. p = 1 => TermAt(merged, p - 1) = 0 /\ TermAt(l, p - 1) = 0
    BY DEF TermAt, Has
  <2> HIDE DEF f, first, last
  <2>9. CASE Agrees(l, entries, p)
    <3>1. p > 1 => Agrees(l, entries, p - 1)
      BY <1>0, <2>2, <2>5, <2>9, AgreesBelow
    <3>2. p <= Len(l) /\ merged[p] = l[p]
      BY <2>5, <2>6, <2>9
    <3>3. p > 1 => merged[p - 1] = l[p - 1] /\ TermAt(l, p - 1) = l[p - 1].term
      <4>1. p > 1 => merged[p - 1] = l[p - 1]
        BY <2>6, <2>7, <3>1
      <4>2. p > 1 => TermAt(l, p - 1) = l[p - 1].term
        BY <1>0, <2>5, <3>2 DEF TermAt, Has
      <4> QED
        BY <4>1, <4>2
    <3>4. TermAt(merged, p - 1) = TermAt(l, p - 1)
      BY <2>5, <2>7, <2>8, <3>3
    <3>5. p \in 1 .. Len(l)
      BY <1>0, <2>5, <3>2
    <3> QED
      BY <3>2, <3>4, <3>5
  <2>10. CASE ~Agrees(l, entries, p)
    <3>1. p > prev /\ merged[p] = entries[p - prev]
      BY <2>5, <2>6, <2>10
    <3>2. p - prev \in 1 .. Len(entries)
      BY <1>0, <2>2, <2>5, <3>1
    <3>3. CASE p - prev > 1
      <4>1. p - 1 \in 1 .. last /\ p > 1 /\ p - 1 - prev = p - prev - 1
        BY <1>0, <2>2, <2>5, <3>3
      <4>2. merged[p - 1].term = entries[p - prev - 1].term
        <5>1. CASE ~Agrees(l, entries, p - 1)
          BY <2>6, <4>1, <5>1
        <5>2. CASE Agrees(l, entries, p - 1)
          <6>1. merged[p - 1] = l[p - 1]
            BY <2>6, <4>1, <5>2
          <6>2. l[p - 1].term = entries[p - 1 - first + 1].term
            <7>1. p - 1 \in first .. p - 1
              BY <1>0, <2>2, <2>5, <3>3
            <7> QED
              BY <5>2, <7>1 DEF Agrees, first
          <6>3. p - 1 - first + 1 = p - prev - 1
            BY <1>0, <2>2, <2>5
          <6> QED
            BY <6>1, <6>2, <6>3
        <5> QED
          BY <5>1, <5>2
      <4> QED
        BY <2>7, <3>1, <3>2, <3>3, <4>1, <4>2
    <3>4. CASE ~(p - prev > 1)
      <4>1. p - 1 = prev
        BY <1>0, <2>5, <3>1, <3>4
      <4>2. CASE prev = 0
        BY <2>8, <3>1, <3>2, <3>4, <4>1, <4>2
      <4>3. CASE prev # 0
        <5>1. Agrees(l, entries, prev) /\ prev \in 1 .. last
          BY <1>0, <2>2, <4>3 DEF Agrees, first
        <5>2. merged[prev] = l[prev]
          BY <2>6, <5>1
        <5>3. l[prev].term = prevTerm
          BY <4>3 DEF PrevMatches
        <5>4. TermAt(merged, p - 1) = prevTerm
          BY <1>0, <2>5, <2>7, <4>1, <4>3, <5>2, <5>3
        <5> QED
          BY <3>1, <3>2, <3>4, <4>3, <5>4
      <4> QED
        BY <4>2, <4>3
    <3> QED
      BY <3>3, <3>4
  <2> QED
    BY <2>9, <2>10
<1> QED
  BY <1>1, <1>2

-----------------------------------------------------------------------------
(* The steps of Raft.                                                      *)

LEMMA MatchInit == Init => MatchInv
<1> SUFFICES ASSUME Init PROVE MatchInv
  OBVIOUS
<1>1. Links = {}
  <2>1. \A i \in Node : 1 .. Len(log[i]) = {}
    BY DEF Init
  <2>2. appendReqs = {}
    BY DEF Init
  <2> QED
    BY <2>1, <2>2 DEF Links, LogLinks, CallLinks
<1>2. ElectedInv
  BY DEF Init, ElectedInv, Follower, Leader
<1> QED
  BY <1>1, <1>2 DEF MatchInv, OneLink, FreshInv

\* Steps that bring no link and no leader about, and take no term back.
LEMMA MatchKept ==
    ASSUME MatchInv, TypeInv, TypeInv',
           Links' \subseteq Links, elections' = elections,
           \A i \in Node : state'[i] = Leader =>
              /\ state[i] = Leader /\ currentTerm'[i] = currentTerm[i]
              /\ Len(log'[i]) = Len(log[i]),
           \A i \in Node :
              \/ currentTerm'[i] > currentTerm[i]
              \/ /\ currentTerm'[i] = currentTerm[i]
                 /\ state'[i] = Candidate => state[i] = Candidate
    PROVE  MatchInv'
<1>1. OneLink'
  BY DEF MatchInv, OneLink
<1>2. ElectedInv'
  <2>1. ASSUME NEW e \in elections'
        PROVE  /\ e.term <= currentTerm'[e.leader]
               /\ e.term = currentTerm'[e.leader] => state'[e.leader] # Candidate
    <3>1. e.leader \in Node /\ e.term \in Nat
      BY DEF TypeInv, TypeOK
    <3>2. currentTerm[e.leader] \in Nat /\ currentTerm'[e.leader] \in Nat
      BY <3>1 DEF TypeInv, TypeOK
    <3>3. /\ e.term <= currentTerm[e.leader]
          /\ e.term = currentTerm[e.leader] => state[e.leader] # Candidate
      BY DEF MatchInv, ElectedInv
    <3> QED
      BY <3>1, <3>2, <3>3
  <2>2. ASSUME NEW i \in Node, state'[i] = Leader
        PROVE  \E e \in elections' : e.leader = i /\ e.term = currentTerm'[i]
    BY <2>2 DEF MatchInv, ElectedInv
  <2> QED
    BY <2>1, <2>2 DEF ElectedInv
<1>3. FreshInv'
  BY DEF MatchInv, FreshInv
<1> QED
  BY <1>1, <1>2, <1>3 DEF MatchInv

\* Links are about logs and requests to append only.
LEMMA SameLinks ==
    ASSUME TypeInv, log' = log, appendReqs' \subseteq appendReqs
    PROVE  Links' \subseteq Links
<1>1. LogLinks' = LogLinks
  BY DEF LogLinks, LogLink
<1>2. CallLinks' \subseteq CallLinks
  BY DEF CallLinks, CallLink
<1> QED
  BY <1>1, <1>2 DEF Links

LEMMA LinksStart ==
    ASSUME TypeInv, NEW i \in Node, NEW c \in Command, Start(i, c)
    PROVE  LET e == NextEntry(log[i], currentTerm[i], c)
               n == Len(log[i]) + 1
           IN  /\ e.index = n /\ e.term = currentTerm[i] /\ n \in Nat /\ e.command = c
               /\ Len(log'[i]) = n /\ \A j \in Node : j # i => log'[j] = log[j]
               /\ \A x \in Links' : \/ x \in Links
                                    \/ x = [entry |-> e, before |-> TermAt(log[i], n - 1)]
<1> DEFINE e   == NextEntry(log[i], currentTerm[i], c)
           n   == Len(log[i]) + 1
           new == [entry |-> e, before |-> TermAt(log[i], n - 1)]
<1>1. log' = [log EXCEPT ![i] = Append(log[i], e)] /\ appendReqs' = appendReqs
  BY DEF Start, netVars
<1>2. log[i] \in Seq(Entry) /\ Len(log[i]) \in Nat /\ IsLog(log[i])
  BY LogsAreLogs DEF IsLog
<1>3. e.index = n /\ e.term = currentTerm[i] /\ n \in Nat /\ e.command = c
  BY <1>2, LastIndexIsLength DEF NextEntry
<1> HIDE DEF e
<1>4. /\ Len(log'[i]) = n /\ log'[i][n] = e
      /\ \A q \in 1 .. Len(log[i]) : log'[i][q] = log[i][q]
      /\ \A j \in Node : j # i => log'[j] = log[j]
  BY <1>1, <1>2 DEF TypeInv, TypeOK
<1>5. ASSUME NEW q \in 1 .. n
      PROVE  TermAt(log'[i], q - 1) = TermAt(log[i], q - 1)
  <2>1. CASE q = 1
    BY <2>1 DEF TermAt, Has
  <2>2. CASE q # 1
    <3>1. q - 1 \in 1 .. Len(log[i]) /\ q - 1 <= Len(log'[i])
      BY <1>2, <1>3, <1>4, <2>2
    <3> QED
      BY <1>2, <1>4, <3>1 DEF TermAt, Has
  <2> QED
    BY <2>1, <2>2
<1>6. ASSUME NEW x \in Links'
      PROVE  x \in Links \/ x = new
  <2>1. CASE x \in CallLinks'
    BY <1>1, <2>1 DEF CallLinks, CallLink, Links
  <2>2. CASE x \in LogLinks'
    <3>1. PICK j \in Node : x \in {[entry |-> log'[j][q], before |-> TermAt(log'[j], q - 1)]
                                     : q \in 1 .. Len(log'[j])}
      BY <2>2 DEF LogLinks, LogLink
    <3>2. PICK q \in 1 .. Len(log'[j]) :
            x = [entry |-> log'[j][q], before |-> TermAt(log'[j], q - 1)]
      BY <3>1
    <3>3. CASE j # i
      BY <1>4, <3>2, <3>3, LogLinkIn DEF LogLink
    <3>4. CASE j = i /\ q = n
      <4>1. TermAt(log'[i], n - 1) = TermAt(log[i], n - 1)
        BY <1>4, <1>5, <3>2, <3>4
      <4> QED
        BY <1>4, <3>2, <3>4, <4>1
    <3>5. CASE j = i /\ q # n
      <4>1. q \in 1 .. Len(log[i]) /\ q \in 1 .. n
        BY <1>2, <1>3, <1>4, <3>2, <3>5
      <4>2. x = LogLink(i, q)
        BY <1>4, <1>5, <3>2, <3>5, <4>1 DEF LogLink
      <4> QED
        BY <4>1, <4>2, LogLinkIn
    <3> QED
      BY <3>3, <3>4, <3>5
  <2> QED
    BY <2>1, <2>2 DEF Links
<1> HIDE DEF new
<1> QED
  BY <1>3, <1>4, <1>6 DEF e, new

LEMMA MatchStartElection ==
    ASSUME MatchInv, TypeInv, TypeInv',
           NEW i \in Node, NEW S \in SUBSET Peers(i), StartElection(i, S)
    PROVE  MatchInv'
<1>1. Links' \subseteq Links
  BY SameLinks DEF StartElection, logVars
<1>2. elections' = elections /\ log' = log
  BY DEF StartElection, logVars
<1>3. /\ state'[i] = Candidate /\ currentTerm'[i] > currentTerm[i]
      /\ \A j \in Node : j # i => state'[j] = state[j] /\ currentTerm'[j] = currentTerm[j]
  BY DEF TypeInv, TypeOK, StartElection
<1> QED
  BY <1>1, <1>2, <1>3, MatchKept DEF Candidate, Leader

LEMMA MatchRequestVote ==
    ASSUME MatchInv, TypeInv, TypeInv', NEW m \in voteReqs, RequestVote(m)
    PROVE  MatchInv'
<1>1. m.dst \in Node /\ m.term \in Nat
  BY DEF TypeInv, TypeOK, VoteReq
<1>2. Links' \subseteq Links
  BY SameLinks DEF RequestVote, logVars
<1>3. elections' = elections /\ log' = log
  BY DEF RequestVote, logVars
<1>4. \A j \in Node :
         \/ currentTerm'[j] > currentTerm[j] /\ state'[j] = Follower
         \/ currentTerm'[j] = currentTerm[j] /\ state'[j] = state[j]
  BY <1>1 DEF TypeInv, TypeOK, RequestVote
<1> QED
  BY <1>2, <1>3, <1>4, MatchKept DEF Follower, Leader

LEMMA MatchStepDown ==
    ASSUME MatchInv, TypeInv, TypeInv', NEW i \in Node, NEW t \in Nat,
           t > currentTerm[i], StepDown(i, t),
           log' = log, elections' = elections, appendReqs' \subseteq appendReqs
    PROVE  MatchInv'
<1>1. Links' \subseteq Links
  BY SameLinks
<1>2. \A j \in Node :
         \/ currentTerm'[j] > currentTerm[j] /\ state'[j] = Follower
         \/ currentTerm'[j] = currentTerm[j] /\ state'[j] = state[j]
  BY DEF TypeInv, TypeOK, StepDown
<1> QED
  BY <1>1, <1>2, MatchKept DEF Follower, Leader

\* Nothing changes that a link or a leader is made of.
LEMMA MatchUnchanged ==
    ASSUME MatchInv, TypeInv, TypeInv', log' = log, elections' = elections,
           appendReqs' \subseteq appendReqs, state' = state, currentTerm' = currentTerm
    PROVE  MatchInv'
BY SameLinks, MatchKept

\* A new leader is the first of its term, and no entry of the term exists.
LEMMA MatchBecomeLeader ==
    ASSUME MatchInv, TypeInv, TypeInv', ElectionSafety',
           NEW i \in Node, NEW voters, state[i] = Candidate, BecomeLeader(i, voters),
           currentTerm' = currentTerm, log' = log, appendReqs' = appendReqs
    PROVE  MatchInv'
<1> DEFINE won == [term |-> currentTerm[i], leader |-> i, voters |-> voters]
<1>1. /\ elections' = elections \cup {won}
      /\ won.term = currentTerm[i] /\ won.leader = i
  BY DEF BecomeLeader
<1> HIDE DEF won
<1>2. /\ state'[i] = Leader
      /\ \A j \in Node : j # i => state'[j] = state[j]
  BY DEF TypeInv, TypeOK, BecomeLeader
<1>3. Links' = Links
  BY DEF Links, LogLinks, LogLink, CallLinks, CallLink
<1>4. \A e \in elections : e.term # currentTerm[i]
  <2> SUFFICES ASSUME NEW e \in elections, e.term = currentTerm[i]
               PROVE  FALSE
    OBVIOUS
  <2>1. e.leader = i
    BY <1>1 DEF ElectionSafety
  <2> QED
    BY <2>1 DEF MatchInv, ElectedInv
<1>5. OneLink'
  BY <1>3 DEF MatchInv, OneLink
<1>6. ElectedInv'
  <2>1. ASSUME NEW e \in elections'
        PROVE  /\ e.term <= currentTerm'[e.leader]
               /\ e.term = currentTerm'[e.leader] => state'[e.leader] # Candidate
    <3>1. CASE e = won
      <4>1. currentTerm[i] \in Nat
        BY DEF TypeInv, TypeOK
      <4> QED
        BY <1>1, <1>2, <3>1, <4>1 DEF Candidate, Leader
    <3>2. CASE e \in elections
      <4>1. e.leader \in Node
        BY <3>2 DEF TypeInv, TypeOK
      <4>2. /\ e.term <= currentTerm[e.leader]
            /\ e.term = currentTerm[e.leader] => state[e.leader] # Candidate
        BY <3>2 DEF MatchInv, ElectedInv
      <4> QED
        BY <1>2, <4>1, <4>2 DEF Candidate, Leader
    <3> QED
      BY <1>1, <3>1, <3>2
  <2>2. ASSUME NEW j \in Node, state'[j] = Leader
        PROVE  \E e \in elections' : e.leader = j /\ e.term = currentTerm'[j]
    <3>1. CASE j = i
      BY <1>1, <3>1
    <3>2. CASE j # i
      BY <1>1, <1>2, <2>2, <3>2 DEF MatchInv, ElectedInv
    <3> QED
      BY <3>1, <3>2
  <2> QED
    BY <2>1, <2>2 DEF ElectedInv
<1>7. FreshInv'
  <2>1. \A x \in Links' : \E e \in elections' : e.term = x.entry.term
    BY <1>1, <1>3 DEF MatchInv, FreshInv
  <2>2. ASSUME NEW j \in Node, NEW x \in Links',
               state'[j] = Leader, x.entry.term = currentTerm'[j]
        PROVE  x.entry.index <= Len(log'[j])
    <3>1. j # i
      BY <1>3, <1>4, <2>2 DEF MatchInv, FreshInv
    <3> QED
      BY <1>2, <1>3, <2>2, <3>1 DEF MatchInv, FreshInv
  <2> QED
    BY <2>1, <2>2 DEF FreshInv
<1> QED
  BY <1>5, <1>6, <1>7 DEF MatchInv

LEMMA MatchVoteReply ==
    ASSUME MatchInv, TypeInv, TypeInv', ElectionSafety', NEW m \in voteReps, VoteReply(m)
    PROVE  MatchInv'
<1> DEFINE i      == m.dst
           voters == votes[i] \cup {m.src}
<1>1. i \in Node /\ m.term \in Nat
  BY DEF TypeInv, TypeOK, VoteRep
<1>2. log' = log /\ appendReqs' = appendReqs
  BY DEF VoteReply, logVars
<1>3. CASE /\ m.term > currentTerm[i] /\ StepDown(i, m.term)
           /\ UNCHANGED elections
  BY <1>1, <1>2, <1>3, MatchStepDown
<1>4. CASE /\ state[i] = Candidate /\ BecomeLeader(i, voters)
           /\ UNCHANGED <<currentTerm, votedFor>>
  <2> HIDE DEF voters, i
  <2> QED
    BY <1>1, <1>2, <1>4, MatchBecomeLeader
<1>5. CASE UNCHANGED <<termVars, elections>>
  BY <1>2, <1>5, MatchUnchanged DEF termVars
<1> QED
  BY <1>3, <1>4, <1>5 DEF VoteReply, Awaits

\* The links of a new request are links of the leader's log.
LEMMA RequestLinks ==
    ASSUME TypeInv, NEW i \in Node, NEW n \in Nat, n >= 1,
           NEW m, m.entries = EntriesFrom(log[i], n),
           m.prevLogIndex = IF n > 1 THEN n - 1 ELSE 0,
           m.prevLogTerm = IF n > 1 THEN TermAt(log[i], n - 1) ELSE 0,
           NEW k \in 1 .. Len(m.entries)
    PROVE  CallLink(m, k) \in LogLinks
<1> DEFINE l == log[i]
<1>1. IsLog(l) /\ Len(l) \in Nat
  BY LogsAreLogs DEF IsLog
<1>2. Has(l, n)
  <2>1. CASE ~Has(l, n)
    BY <2>1 DEF EntriesFrom
  <2> QED
    BY <2>1
<1>3. n \in 1 .. Len(l)
  BY <1>1, <1>2 DEF Has
<1>4. \A q \in n .. Len(l) : l[q] \in Entry
  BY <1>1, <1>3 DEF IsLog
<1>5. /\ Len(m.entries) = Len(l) - n + 1
      /\ \A q \in 1 .. Len(l) - n + 1 : m.entries[q] = l[n + q - 1]
  <2>1. m.entries = SubSeq(l, n, Len(l))
    BY <1>2 DEF EntriesFrom
  <2> HIDE DEF l
  <2> QED
    BY <1>1, <1>3, <1>4, <2>1, SubSeqProperties
<1> DEFINE p == n + k - 1
<1>6. p \in 1 .. Len(l) /\ k \in 1 .. Len(l) - n + 1
  BY <1>1, <1>3, <1>5
<1>7. m.entries[k] = l[p]
  BY <1>5, <1>6
<1>8. CASE k > 1
  <2>1. k - 1 \in 1 .. Len(l) - n + 1 /\ n + (k - 1) - 1 = p - 1
    BY <1>1, <1>3, <1>6, <1>8
  <2>2. m.entries[k - 1] = l[p - 1]
    BY <1>5, <2>1
  <2>3. TermAt(l, p - 1) = l[p - 1].term
    BY <1>1, <1>3, <1>6, <1>8 DEF TermAt, Has
  <2>4. CallLink(m, k) = LogLink(i, p)
    <3> HIDE DEF p
    <3> QED
      BY <1>7, <1>8, <2>2, <2>3 DEF CallLink, LogLink
  <2> HIDE DEF p
  <2> QED
    BY <1>6, <2>4 DEF LogLinks
<1>9. CASE ~(k > 1)
  <2>1. p = n
    BY <1>3, <1>6, <1>9
  <2>2. (IF m.prevLogIndex = 0 THEN 0 ELSE m.prevLogTerm) = TermAt(l, p - 1)
    <3>1. CASE n > 1
      BY <1>3, <2>1, <3>1
    <3>2. CASE ~(n > 1)
      <4>1. p - 1 = 0 /\ m.prevLogIndex = 0
        BY <1>3, <2>1, <3>2
      <4> QED
        BY <4>1 DEF TermAt, Has
    <3> QED
      BY <3>1, <3>2
  <2>3. CallLink(m, k) = LogLink(i, p)
    <3> HIDE DEF p
    <3> QED
      BY <1>7, <1>9, <2>2 DEF CallLink, LogLink
  <2> HIDE DEF p
  <2> QED
    BY <1>6, <2>3 DEF LogLinks
<1> QED
  BY <1>8, <1>9

\* A heartbeat brings no link that the leader's log has not.
LEMMA LinksSendHeartbeats ==
    ASSUME TypeInv, NEW i \in Node, NEW S \in SUBSET Peers(i), SendHeartbeats(i, S)
    PROVE  Links' \subseteq Links
<1> DEFINE call(j) ==
         [src |-> i, dst |-> j, term |-> currentTerm[i],
          prevLogIndex |-> IF nextIndex[i][j] > 1 THEN nextIndex[i][j] - 1 ELSE 0,
          prevLogTerm  |-> IF nextIndex[i][j] > 1
                           THEN TermAt(log[i], nextIndex[i][j] - 1) ELSE 0,
          entries      |-> EntriesFrom(log[i], nextIndex[i][j]),
          leaderCommit |-> commitIndex[i]]
<1>1. /\ appendReqs' = appendReqs \cup {call(j) : j \in S}
      /\ log' = log /\ elections' = elections /\ state' = state /\ currentTerm' = currentTerm
  BY DEF SendHeartbeats, termVars, logVars
<1>2. ASSUME NEW j \in S, NEW k \in 1 .. Len(call(j).entries)
      PROVE  CallLink(call(j), k) \in LogLinks
  <2>1. j \in Node
    BY DEF Peers
  <2>2. nextIndex[i][j] \in Nat /\ nextIndex[i][j] >= 1
    BY <2>1 DEF TypeInv, TypeOK, IndexIsPosition, SendHeartbeats
  <2> DEFINE m == call(j)
  <2>3. /\ m.entries = EntriesFrom(log[i], nextIndex[i][j])
        /\ m.prevLogIndex = IF nextIndex[i][j] > 1 THEN nextIndex[i][j] - 1 ELSE 0
        /\ m.prevLogTerm = IF nextIndex[i][j] > 1
                           THEN TermAt(log[i], nextIndex[i][j] - 1) ELSE 0
    OBVIOUS
  <2>4. k \in 1 .. Len(m.entries)
    OBVIOUS
  <2> HIDE DEF m
  <2>5. CallLink(m, k) \in LogLinks
    BY <2>2, <2>3, <2>4, RequestLinks
  <2> QED
    BY <2>5 DEF m
<1>3. Links' \subseteq Links
  <2>1. LogLinks' = LogLinks
    BY <1>1 DEF LogLinks, LogLink
  <2>2. ASSUME NEW x \in CallLinks'
        PROVE  x \in Links
    <3>1. PICK m \in appendReqs' : x \in {CallLink(m, k) : k \in 1 .. Len(m.entries)}
      BY <2>2 DEF CallLinks, CallLink
    <3>2. PICK k \in 1 .. Len(m.entries) : x = CallLink(m, k)
      BY <3>1
    <3>3. CASE m \in appendReqs
      BY <3>2, <3>3, CallLinkIn
    <3>4. CASE \E j \in S : m = call(j)
      <4> HIDE DEF call
      <4> QED
        BY <1>2, <3>2, <3>4 DEF Links
    <3> HIDE DEF call
    <3> QED
      BY <1>1, <3>3, <3>4
  <2> QED
    BY <2>1, <2>2 DEF Links
<1> QED
  BY <1>3

LEMMA MatchSendHeartbeats ==
    ASSUME MatchInv, TypeInv, TypeInv',
           NEW i \in Node, NEW S \in SUBSET Peers(i), SendHeartbeats(i, S)
    PROVE  MatchInv'
<1>1. /\ log' = log /\ elections' = elections /\ state' = state
      /\ currentTerm' = currentTerm
  BY DEF SendHeartbeats, termVars, logVars
<1>2. Links' \subseteq Links
  BY LinksSendHeartbeats
<1> QED
  BY <1>1, <1>2, MatchKept

\* A follower's log takes its links from itself and from the call.
LEMMA LinksAppendEntries ==
    ASSUME TypeInv, NEW m \in appendReqs, AppendEntries(m)
    PROVE  Links' \subseteq Links
<1> DEFINE i      == m.dst
           merged == MergeEntries(log[i], m.entries)
<1>1. /\ i \in Node /\ m.term \in Nat /\ m.prevLogIndex \in Nat
      /\ m.prevLogTerm \in Nat /\ m.entries \in Seq(Entry)
  BY DEF TypeInv, TypeOK, AppendReq
<1>2. appendReqs' \subseteq appendReqs
  BY DEF AppendEntries
<1>3. CASE /\ PrevMatches(log[i], m.prevLogIndex, m.prevLogTerm)
           /\ log' = [log EXCEPT ![i] = merged]
  <2>1. log'[i] = merged /\ \A j \in Node : j # i => log'[j] = log[j]
    BY <1>1, <1>3 DEF TypeInv, TypeOK
  <2> HIDE DEF merged
  <2>2. ASSUME NEW p \in 1 .. Len(merged)
        PROVE  [entry |-> merged[p], before |-> TermAt(merged, p - 1)] \in Links
    <3>1. IsLog(log[i]) /\ (\A k \in 1 .. Len(m.entries) :
                              m.entries[k].index = m.prevLogIndex + k)
      BY <1>1, LogsAreLogs DEF TypeInv, IndexIsPosition
    <3> DEFINE k == p - m.prevLogIndex
    <3>2. CASE /\ p \in 1 .. Len(log[i])
               /\ merged[p] = log[i][p]
               /\ TermAt(merged, p - 1) = TermAt(log[i], p - 1)
      <4>1. [entry |-> merged[p], before |-> TermAt(merged, p - 1)] = LogLink(i, p)
        BY <3>2 DEF LogLink
      <4> QED
        BY <1>1, <3>2, <4>1, LogLinkIn
    <3>3. CASE /\ k \in 1 .. Len(m.entries)
               /\ merged[p] = m.entries[k]
               /\ TermAt(merged, p - 1) =
                    IF k > 1 THEN m.entries[k - 1].term
                    ELSE IF m.prevLogIndex = 0 THEN 0 ELSE m.prevLogTerm
      <4>1. [entry |-> merged[p], before |-> TermAt(merged, p - 1)] = CallLink(m, k)
        BY <3>3 DEF CallLink
      <4> QED
        BY <3>3, <4>1, CallLinkIn
    <3>4. \/ /\ p \in 1 .. Len(log[i])
             /\ merged[p] = log[i][p]
             /\ TermAt(merged, p - 1) = TermAt(log[i], p - 1)
          \/ /\ p - m.prevLogIndex \in 1 .. Len(m.entries)
             /\ merged[p] = m.entries[p - m.prevLogIndex]
             /\ TermAt(merged, p - 1) =
                  IF p - m.prevLogIndex > 1
                  THEN m.entries[p - m.prevLogIndex - 1].term
                  ELSE IF m.prevLogIndex = 0 THEN 0 ELSE m.prevLogTerm
      <4> DEFINE l == log[i]
                 entries == m.entries
                 prev == m.prevLogIndex
                 prevTerm == m.prevLogTerm
      <4>1. /\ IsLog(l) /\ entries \in Seq(Entry) /\ prev \in Nat /\ prevTerm \in Nat
            /\ PrevMatches(l, prev, prevTerm)
            /\ \A q \in 1 .. Len(entries) : entries[q].index = prev + q
            /\ p \in 1 .. Len(MergeEntries(l, entries))
        BY <1>1, <1>3, <3>1 DEF merged
      <4> HIDE DEF l, entries, prev, prevTerm
      <4>2. \/ /\ p \in 1 .. Len(l)
               /\ MergeEntries(l, entries)[p] = l[p]
               /\ TermAt(MergeEntries(l, entries), p - 1) = TermAt(l, p - 1)
            \/ /\ p - prev \in 1 .. Len(entries)
               /\ MergeEntries(l, entries)[p] = entries[p - prev]
               /\ TermAt(MergeEntries(l, entries), p - 1) =
                    IF p - prev > 1 THEN entries[p - prev - 1].term
                    ELSE IF prev = 0 THEN 0 ELSE prevTerm
        BY <4>1, MergeLinks
      <4> QED
        BY <4>2 DEF merged, l, entries, prev, prevTerm
    <3> QED
      BY <3>2, <3>3, <3>4
  <2>3. Links' \subseteq Links
    <3>1. CallLinks' \subseteq Links
      BY <1>2 DEF CallLinks, CallLink, Links
    <3>2. ASSUME NEW x \in LogLinks'
          PROVE  x \in Links
      <4>1. PICK j \in Node : x \in {[entry |-> log'[j][q], before |-> TermAt(log'[j], q - 1)]
                                       : q \in 1 .. Len(log'[j])}
        BY <3>2 DEF LogLinks, LogLink
      <4>2. PICK q \in 1 .. Len(log'[j]) :
              x = [entry |-> log'[j][q], before |-> TermAt(log'[j], q - 1)]
        BY <4>1
      <4>3. CASE j = i
        BY <2>1, <2>2, <4>2, <4>3
      <4>4. CASE j # i
        BY <2>1, <4>2, <4>4, LogLinkIn DEF LogLink
      <4> QED
        BY <4>3, <4>4
    <3> QED
      BY <3>1, <3>2 DEF Links
  <2> QED
    BY <2>3
<1>4. CASE log' = log
  BY <1>2, <1>4, SameLinks
<1> QED
  BY <1>3, <1>4 DEF AppendEntries, logVars

LEMMA MatchAppendEntries ==
    ASSUME MatchInv, TypeInv, TypeInv', NEW m \in appendReqs, AppendEntries(m)
    PROVE  MatchInv'
<1> DEFINE i      == m.dst
           merged == MergeEntries(log[i], m.entries)
<1>1. /\ i \in Node /\ m.term \in Nat /\ m.prevLogIndex \in Nat
      /\ m.prevLogTerm \in Nat /\ m.entries \in Seq(Entry)
  BY DEF TypeInv, TypeOK, AppendReq
<1>2. appendReqs' \subseteq appendReqs /\ elections' = elections
  BY DEF AppendEntries
<1>3. CASE UNCHANGED <<termVars, logVars>>
  BY <1>2, <1>3, MatchUnchanged DEF termVars, logVars
<1>4. CASE m.term >= currentTerm[i] /\ Follow(i, m.src, m.term)
  <2>1. \A j \in Node : /\ state'[j] = Leader => j # i /\ state[j] = Leader
                        /\ \/ currentTerm'[j] > currentTerm[j]
                           \/ /\ currentTerm'[j] = currentTerm[j]
                              /\ state'[j] = Candidate => state[j] = Candidate
                        /\ j # i => currentTerm'[j] = currentTerm[j]
    <3>1. /\ currentTerm'[i] = m.term /\ state'[i] = Follower
          /\ currentTerm[i] \in Nat
          /\ \A j \in Node : j # i => state'[j] = state[j] /\ currentTerm'[j] = currentTerm[j]
      BY <1>1, <1>4 DEF TypeInv, TypeOK, Follow
    <3>2. currentTerm'[i] > currentTerm[i] \/ currentTerm'[i] = currentTerm[i]
      BY <1>1, <1>4, <3>1
    <3> HIDE DEF i
    <3> QED
      BY <3>1, <3>2 DEF Follower, Candidate, Leader
  <2>2. ASSUME NEW j \in Node, j # i
        PROVE  log'[j] = log[j]
    BY <1>1, <2>2 DEF AppendEntries, TypeInv, TypeOK, logVars
  <2>3. \A j \in Node : state'[j] = Leader => Len(log'[j]) = Len(log[j])
    BY <2>1, <2>2
  <2>4. Links' \subseteq Links
    BY LinksAppendEntries
  <2> HIDE DEF i
  <2> QED
    BY <1>2, <2>1, <2>3, <2>4, MatchKept
<1> QED
  BY <1>3, <1>4 DEF AppendEntries

LEMMA MatchAppendReply ==
    ASSUME MatchInv, TypeInv, TypeInv', NEW m \in appendReps, AppendReply(m)
    PROVE  MatchInv'
<1>1. m.dst \in Node /\ m.term \in Nat
  BY DEF TypeInv, TypeOK, AppendRep
<1>2. log' = log /\ elections' = elections /\ appendReqs' = appendReqs
  BY DEF AppendReply, logVars
<1>3. CASE m.term > currentTerm[m.dst] /\ StepDown(m.dst, m.term)
  BY <1>1, <1>2, <1>3, MatchStepDown
<1>4. CASE UNCHANGED termVars
  BY <1>2, <1>4, MatchUnchanged DEF termVars
<1> QED
  BY <1>3, <1>4 DEF AppendReply

\* Start brings the link of the entry it appends.
\* What a leader appends is the first entry of its index and term: all others
\* of the term are in its log already.
LEMMA MatchStart ==
    ASSUME MatchInv, TypeInv, TypeInv', ElectionSafety,
           NEW i \in Node, NEW c \in Command, Start(i, c)
    PROVE  MatchInv'
<1> DEFINE e   == NextEntry(log[i], currentTerm[i], c)
           n   == Len(log[i]) + 1
           new == [entry |-> e, before |-> TermAt(log[i], n - 1)]
<1>1. /\ state[i] = Leader /\ log' = [log EXCEPT ![i] = Append(log[i], e)]
      /\ state' = state /\ currentTerm' = currentTerm
      /\ elections' = elections /\ appendReqs' = appendReqs
  BY DEF Start, termVars, netVars
<1>2. log[i] \in Seq(Entry) /\ Len(log[i]) \in Nat /\ IsLog(log[i])
  BY LogsAreLogs DEF IsLog
<1>3. e.index = n /\ e.term = currentTerm[i] /\ n \in Nat
  BY LinksStart
<1>4. Len(log'[i]) = n /\ \A j \in Node : j # i => log'[j] = log[j]
  BY LinksStart
<1>6. ASSUME NEW x \in Links'
      PROVE  x \in Links \/ x = new
  BY LinksStart
<1> HIDE DEF e
<1>7. ASSUME NEW x \in Links, x.entry.term = currentTerm[i]
      PROVE  x.entry.index < n
  <2>1. x.entry.index <= Len(log[i])
    BY <1>1, <1>7 DEF MatchInv, FreshInv
  <2>2. x.entry.index \in Nat
    BY LinkType
  <2> QED
    BY <1>2, <2>1, <2>2
<1>8. new.entry = e
  OBVIOUS
<1> HIDE DEF new
<1>9. OneLink'
  <2> SUFFICES ASSUME NEW x \in Links', NEW y \in Links',
                      x.entry.index = y.entry.index, x.entry.term = y.entry.term
               PROVE  x = y
    BY DEF OneLink
  <2>1. CASE x \in Links /\ y \in Links
    BY <2>1 DEF MatchInv, OneLink
  <2>2. ASSUME x = new, y \in Links
        PROVE  FALSE
    BY <1>3, <1>7, <1>8, <2>2
  <2>3. ASSUME y = new, x \in Links
        PROVE  FALSE
    BY <1>3, <1>7, <1>8, <2>3
  <2> QED
    BY <1>6, <2>1, <2>2, <2>3
<1>10. ElectedInv'
  BY <1>1 DEF MatchInv, ElectedInv
<1>11. FreshInv'
  <2>1. ASSUME NEW x \in Links'
        PROVE  \E f \in elections' : f.term = x.entry.term
    BY <1>1, <1>3, <1>6, <1>8 DEF MatchInv, FreshInv, ElectedInv
  <2>2. ASSUME NEW j \in Node, NEW x \in Links',
               state'[j] = Leader, x.entry.term = currentTerm'[j]
        PROVE  x.entry.index <= Len(log'[j])
    <3>1. CASE j = i
      <4>1. CASE x = new
        BY <1>3, <1>4, <1>8, <3>1, <4>1
      <4>2. CASE x \in Links
        BY <1>1, <1>3, <1>4, <1>7, <2>2, <3>1, <4>2, LinkType
      <4> QED
        BY <1>6, <4>1, <4>2
    <3>2. CASE j # i
      <4>1. x # new
        <5> SUFFICES ASSUME x = new PROVE FALSE
          OBVIOUS
        <5>1. currentTerm[j] = currentTerm[i]
          BY <1>1, <1>3, <1>8, <2>2
        <5>2. PICK f \in elections : f.leader = i /\ f.term = currentTerm[i]
          BY <1>1 DEF MatchInv, ElectedInv
        <5>3. PICK g \in elections : g.leader = j /\ g.term = currentTerm[j]
          BY <1>1, <2>2 DEF MatchInv, ElectedInv
        <5> QED
          BY <3>2, <5>1, <5>2, <5>3 DEF ElectionSafety
      <4> QED
        BY <1>1, <1>4, <1>6, <2>2, <3>2, <4>1 DEF MatchInv, FreshInv
    <3> QED
      BY <3>1, <3>2
  <2> QED
    BY <2>1, <2>2 DEF FreshInv
<1> QED
  BY <1>9, <1>10, <1>11 DEF MatchInv

LEMMA MatchStep ==
    ASSUME NoRestart, TypeInv, VoteInv, MatchInv, [Next]_vars
    PROVE  MatchInv'
<1>1. TypeInv' /\ ElectionSafety /\ ElectionSafety'
  <2>1. TypeInv' /\ VoteInv'
    BY TypeStep, VoteStep
  <2>2. ElectionSafety'
    BY <2>1, OneWinner, PTL
  <2> QED
    BY <2>1, <2>2, OneWinner
<1>2. ASSUME NEW i \in Node, TimerFires(i) \/ Stop(i)
      PROVE  MatchInv'
  BY <1>1, <1>2, MatchUnchanged DEF TimerFires, Stop, termVars, logVars, netVars
<1>3. CASE RPCFails
  <2>1. appendReqs' \subseteq appendReqs
    BY <1>3 DEF RPCFails
  <2> QED
    BY <1>1, <1>3, <2>1, MatchUnchanged DEF RPCFails, termVars, logVars
<1>4. ASSUME NEW i \in Node, Restart(i)
      PROVE  MatchInv'
  BY <1>4 DEF Restart, NoRestart
<1>5. CASE UNCHANGED vars
  BY <1>1, <1>5, MatchUnchanged DEF vars, termVars, logVars, netVars
<1> QED
  BY <1>1, <1>2, <1>3, <1>4, <1>5, MatchStartElection, MatchRequestVote, MatchVoteReply,
     MatchSendHeartbeats, MatchAppendEntries, MatchAppendReply, MatchStart,
     RaftAssumption
  DEF Next

\* Without restarts two logs that hold an entry of the same term at an index
\* are the same up to it, for every cluster, every number of terms, commands
\* and calls, and whatever calls are lost, late or answered out of order.
THEOREM LogsMatch == ASSUME NoRestart PROVE Spec => []LogMatching
<1>1. TypeInv /\ VoteInv /\ MatchInv /\ [Next]_vars => TypeInv' /\ VoteInv' /\ MatchInv'
  BY TypeStep, VoteStep, MatchStep
<1>2. TypeInv /\ MatchInv => LogMatching
  BY LinksMatch DEF MatchInv
<1> QED
  BY <1>1, <1>2, TypeInit, VoteInit, MatchInit, PTL DEF Spec

-----------------------------------------------------------------------------
(* What a leader believes of a peer.  MatchIsHeld speaks of the leader's   *)
(* own figures; where they come from are the calls under way, so the       *)
(* invariant speaks of those too: a request carries a part of the leader's *)
(* log, and an answer of success names entries that the peer holds.  Each  *)
(* clause is about a leader that leads the call's term still.              *)

\* If i leads term t, j holds the first n entries of its log, or has gone on
\* to a later term; it has not yet to come to term t if there are any.
Held(i, j, t, n) ==
    state[i] = Leader /\ currentTerm[i] = t =>
        /\ n <= Len(log[i])
        /\ i # j =>
             /\ n > 0 => currentTerm[j] >= t
             /\ currentTerm[j] = t =>
                  n <= Len(log[j]) /\ \A q \in 1 .. n : log[j][q] = log[i][q]

\* A request is a part of its leader's log.
Slice(m) ==
    state[m.src] = Leader /\ currentTerm[m.src] = m.term =>
        /\ m.prevLogIndex + Len(m.entries) <= Len(log[m.src])
        /\ m.prevLogIndex > 0 => m.prevLogTerm = log[m.src][m.prevLogIndex].term
        /\ \A k \in 1 .. Len(m.entries) : m.entries[k] = log[m.src][m.prevLogIndex + k]

\* Node i won the election of term t.
Won(i, t) == \E e \in elections : e.leader = i /\ e.term = t

HoldInv ==
    /\ \A m \in appendReqs : Slice(m) /\ Won(m.src, m.term)
    /\ \A m \in appendReps :
          /\ m.success => Held(m.dst, m.src, m.reqTerm, m.matched)
          /\ Won(m.dst, m.reqTerm)
    /\ \A i \in Node : \A j \in Peers(i) : state[i] = Leader =>
          /\ nextIndex[i][j] <= Len(log[i]) + 1
          /\ Held(i, j, currentTerm[i], matchIndex[i][j])

\* The numbers that the facts are about.
Numbers ==
    /\ \A i \in Node : Len(log[i]) \in Nat /\ currentTerm[i] \in Nat
    /\ \A m \in appendReqs : /\ m.src \in Node /\ m.dst \in Node /\ m.term \in Nat
                             /\ m.prevLogIndex \in Nat /\ Len(m.entries) \in Nat
    /\ \A m \in appendReps : /\ m.src \in Node /\ m.dst \in Node
                             /\ m.reqTerm \in Nat /\ m.matched \in Nat
    /\ \A i, j \in Node : nextIndex[i][j] \in Nat /\ matchIndex[i][j] \in Nat

LEMMA NumbersType == TypeInv => Numbers
<1> SUFFICES ASSUME TypeInv PROVE Numbers
  OBVIOUS
<1>1. \A i \in Node : Len(log[i]) \in Nat /\ currentTerm[i] \in Nat
  <2>1. ASSUME NEW i \in Node
        PROVE  log[i] \in Seq(Entry) /\ currentTerm[i] \in Nat
    BY DEF TypeInv, TypeOK
  <2> QED
    BY <2>1
<1>2. \A m \in appendReqs : /\ m.src \in Node /\ m.dst \in Node /\ m.term \in Nat
                            /\ m.prevLogIndex \in Nat /\ Len(m.entries) \in Nat
  <2>1. ASSUME NEW m \in appendReqs
        PROVE  /\ m.src \in Node /\ m.dst \in Node /\ m.term \in Nat
               /\ m.prevLogIndex \in Nat /\ m.entries \in Seq(Entry)
    BY DEF TypeInv, TypeOK, AppendReq
  <2> QED
    BY <2>1
<1>3. \A m \in appendReps : /\ m.src \in Node /\ m.dst \in Node
                            /\ m.reqTerm \in Nat /\ m.matched \in Nat
  BY DEF TypeInv, TypeOK, AppendRep
<1>4. \A i, j \in Node : nextIndex[i][j] \in Nat /\ matchIndex[i][j] \in Nat
  BY DEF TypeInv, TypeOK
<1> QED
  BY <1>1, <1>2, <1>3, <1>4 DEF Numbers

LEMMA NumbersNext == TypeInv' => Numbers'
BY NumbersType, PTL

LEMMA HoldInit == Init => HoldInv
BY DEF Init, HoldInv, Follower, Leader

\* One fact of a peer holds on: no leader comes into being, no log loses what
\* it is about.
LEMMA HeldKept ==
    ASSUME TypeInv, TypeInv', NEW i \in Node, NEW j \in Node, NEW t \in Nat, NEW n \in Nat,
           Held(i, j, t, n),
           state'[i] = Leader /\ currentTerm'[i] = t =>
              /\ state[i] = Leader /\ currentTerm[i] = t /\ Len(log[i]) <= Len(log'[i])
              /\ \A q \in 1 .. Len(log[i]) : log'[i][q] = log[i][q],
           currentTerm[j] <= currentTerm'[j],
           /\ i # j /\ state[i] = Leader /\ currentTerm[i] = t
           /\ currentTerm[j] = t /\ currentTerm'[j] = t
              => n <= Len(log'[j]) /\ \A q \in 1 .. n : log'[j][q] = log[j][q]
    PROVE  Held(i, j, t, n)'
<1> SUFFICES ASSUME state'[i] = Leader, currentTerm'[i] = t
             PROVE  /\ n <= Len(log'[i])
                    /\ i # j =>
                         /\ n > 0 => currentTerm'[j] >= t
                         /\ currentTerm'[j] = t =>
                              n <= Len(log'[j]) /\ \A q \in 1 .. n : log'[j][q] = log'[i][q]
  BY DEF Held
<1>1. /\ Len(log[i]) \in Nat /\ Len(log'[i]) \in Nat
      /\ currentTerm[j] \in Nat /\ currentTerm'[j] \in Nat
  BY NumbersType, NumbersNext DEF Numbers
<1>2. /\ state[i] = Leader /\ currentTerm[i] = t /\ Len(log[i]) <= Len(log'[i])
      /\ \A q \in 1 .. Len(log[i]) : log'[i][q] = log[i][q]
  OBVIOUS
<1>3. n <= Len(log[i]) /\ n <= Len(log'[i]) /\ \A q \in 1 .. n : log'[i][q] = log[i][q]
  BY <1>1, <1>2 DEF Held
<1>4. ASSUME i # j
      PROVE  n > 0 => currentTerm[j] >= t /\ currentTerm'[j] >= t
  BY <1>1, <1>2, <1>4 DEF Held
<1>5. ASSUME i # j, currentTerm'[j] = t
      PROVE  n <= Len(log'[j]) /\ \A q \in 1 .. n : log'[j][q] = log'[i][q]
  <2>1. CASE n = 0
    BY <1>1, <2>1, NumbersNext DEF Numbers
  <2>2. CASE n > 0
    <3>1. currentTerm[j] = t
      BY <1>1, <1>4, <1>5, <2>2
    <3>2. n <= Len(log'[j]) /\ \A q \in 1 .. n : log'[j][q] = log[j][q]
      BY <1>2, <1>5, <3>1
    <3>3. \A q \in 1 .. n : log[j][q] = log[i][q]
      BY <1>2, <1>5, <3>1 DEF Held
    <3> QED
      BY <1>3, <3>2, <3>3
  <2> QED
    BY <2>1, <2>2
<1> QED
  BY <1>3, <1>4, <1>5

\* So does a request, while its leader's log only grows.
LEMMA SliceKept ==
    ASSUME TypeInv, TypeInv', NEW m \in appendReqs, Slice(m),
           state'[m.src] = Leader /\ currentTerm'[m.src] = m.term =>
              /\ state[m.src] = Leader /\ currentTerm[m.src] = m.term
              /\ Len(log[m.src]) <= Len(log'[m.src])
              /\ \A q \in 1 .. Len(log[m.src]) : log'[m.src][q] = log[m.src][q]
    PROVE  Slice(m)'
<1> DEFINE l == log[m.src]
           n == log'[m.src]
<1> SUFFICES ASSUME state'[m.src] = Leader, currentTerm'[m.src] = m.term
             PROVE  /\ m.prevLogIndex + Len(m.entries) <= Len(n)
                    /\ m.prevLogIndex > 0 => m.prevLogTerm = n[m.prevLogIndex].term
                    /\ \A k \in 1 .. Len(m.entries) : m.entries[k] = n[m.prevLogIndex + k]
  BY DEF Slice
<1>1. /\ Len(l) \in Nat /\ Len(n) \in Nat /\ m.prevLogIndex \in Nat /\ Len(m.entries) \in Nat
  <2>1. m.src \in Node
    BY NumbersType DEF Numbers
  <2> QED
    BY <2>1, NumbersType, NumbersNext DEF Numbers
<1>2. /\ Len(l) <= Len(n) /\ \A q \in 1 .. Len(l) : n[q] = l[q]
      /\ m.prevLogIndex + Len(m.entries) <= Len(l)
      /\ m.prevLogIndex > 0 => m.prevLogTerm = l[m.prevLogIndex].term
      /\ \A k \in 1 .. Len(m.entries) : m.entries[k] = l[m.prevLogIndex + k]
  BY DEF Slice
<1> HIDE DEF l, n
<1>3. /\ m.prevLogIndex > 0 => m.prevLogIndex \in 1 .. Len(l)
      /\ \A k \in 1 .. Len(m.entries) : m.prevLogIndex + k \in 1 .. Len(l)
  BY <1>1, <1>2
<1> QED
  BY <1>1, <1>2, <1>3

\* A step that leaves the logs and every leader alone, but for leaders that
\* it deposes.
LEMMA HoldQuiet ==
    ASSUME TypeInv, TypeInv', HoldInv, log' = log,
           appendReqs' \subseteq appendReqs, appendReps' \subseteq appendReps,
           elections \subseteq elections',
           \A i \in Node : currentTerm[i] <= currentTerm'[i],
           \A i \in Node : state'[i] = Leader =>
              /\ state[i] = Leader /\ currentTerm'[i] = currentTerm[i]
              /\ nextIndex'[i] = nextIndex[i] /\ matchIndex'[i] = matchIndex[i]
    PROVE  HoldInv'
<1>1. ASSUME NEW i \in Node, NEW j \in Node, NEW t \in Nat, NEW n \in Nat, Held(i, j, t, n)
      PROVE  Held(i, j, t, n)'
  <2>1. Len(log[i]) \in Nat
    BY NumbersType DEF Numbers
  <2>2. state'[i] = Leader /\ currentTerm'[i] = t =>
              /\ state[i] = Leader /\ currentTerm[i] = t /\ Len(log[i]) <= Len(log'[i])
              /\ \A q \in 1 .. Len(log[i]) : log'[i][q] = log[i][q]
    BY <2>1
  <2>3. /\ i # j /\ state[i] = Leader /\ currentTerm[i] = t
        /\ currentTerm[j] = t /\ currentTerm'[j] = t
        => n <= Len(log'[j]) /\ \A q \in 1 .. n : log'[j][q] = log[j][q]
    BY <1>1 DEF Held
  <2>4. currentTerm[j] <= currentTerm'[j]
    OBVIOUS
  <2> HIDE DEF HoldInv
  <2> QED
    BY <1>1, <2>2, <2>3, <2>4, HeldKept DEF Held
<1>2. ASSUME NEW m \in appendReqs'
      PROVE  Slice(m)' /\ Won(m.src, m.term)'
  <2>1. m.src \in Node /\ Len(log[m.src]) \in Nat
    BY NumbersType DEF Numbers
  <2> QED
    BY <2>1, SliceKept DEF HoldInv, Won
<1>3. ASSUME NEW m \in appendReps'
      PROVE  /\ m.success => Held(m.dst, m.src, m.reqTerm, m.matched)'
             /\ Won(m.dst, m.reqTerm)'
  <2>1. m.dst \in Node /\ m.src \in Node /\ m.reqTerm \in Nat /\ m.matched \in Nat
    BY NumbersNext DEF Numbers
  <2> QED
    BY <1>1, <2>1 DEF HoldInv, Won
<1>4. ASSUME NEW i \in Node, NEW j \in Peers(i), state'[i] = Leader
      PROVE  /\ nextIndex'[i][j] <= Len(log'[i]) + 1
             /\ Held(i, j, currentTerm[i], matchIndex[i][j])'
  <2>1. /\ j \in Node /\ currentTerm[i] \in Nat /\ matchIndex[i][j] \in Nat
        /\ currentTerm'[i] = currentTerm[i] /\ matchIndex'[i] = matchIndex[i]
        /\ nextIndex'[i] = nextIndex[i] /\ state[i] = Leader
    BY <1>4, NumbersType DEF Peers, Numbers
  <2>2. Held(i, j, currentTerm[i], matchIndex[i][j])
    BY <2>1 DEF HoldInv
  <2> DEFINE t == currentTerm[i]
             n == matchIndex[i][j]
  <2> HIDE DEF t, n
  <2>3. Held(i, j, currentTerm[i], matchIndex[i][j])'
    <3>1. t \in Nat /\ n \in Nat /\ Held(i, j, t, n)
      BY <2>1, <2>2 DEF t, n
    <3> QED
      BY <2>1, <3>1, <1>1 DEF Held, t, n
  <2> QED
    BY <2>1, <2>3 DEF HoldInv
<1> QED
  BY <1>2, <1>3, <1>4 DEF HoldInv

LEMMA HoldStepDown ==
    ASSUME TypeInv, TypeInv', HoldInv, NEW i \in Node, NEW t \in Nat, t > currentTerm[i],
           StepDown(i, t), UNCHANGED <<log, leaderVars, elections, appendReqs>>,
           appendReps' \subseteq appendReps
    PROVE  HoldInv'
<1>1. /\ currentTerm' = [currentTerm EXCEPT ![i] = t]
      /\ state' = [state EXCEPT ![i] = Follower]
  BY DEF StepDown
<1>2. \A j \in Node : /\ currentTerm[j] \in Nat
                      /\ currentTerm'[j] = IF j = i THEN t ELSE currentTerm[j]
                      /\ state'[j] = IF j = i THEN Follower ELSE state[j]
  BY <1>1 DEF TypeInv, TypeOK
<1>3. \A j \in Node : currentTerm[j] <= currentTerm'[j]
  BY <1>2
<1>4. \A j \in Node : state'[j] = Leader =>
         state[j] = Leader /\ currentTerm'[j] = currentTerm[j]
  BY <1>2 DEF Follower, Leader
<1> QED
  BY <1>3, <1>4, HoldQuiet DEF leaderVars

\* The leader that is made has sent nothing and heard nothing in its term.
LEMMA HoldBecomeLeader ==
    ASSUME TypeInv, TypeInv', ElectedInv, HoldInv,
           NEW i \in Node, NEW voters, state[i] = Candidate,
           BecomeLeader(i, voters), UNCHANGED <<currentTerm, log, appendReqs, appendReps>>
    PROVE  HoldInv'
<1>1. ~Won(i, currentTerm[i])
  BY DEF ElectedInv, Won
<1>2. /\ state' = [state EXCEPT ![i] = Leader]
      /\ nextIndex' = [nextIndex EXCEPT ![i] = [j \in Node |-> LastIndex(log[i]) + 1]]
      /\ matchIndex' = [matchIndex EXCEPT ![i] = [j \in Node |-> 0]]
      /\ elections \subseteq elections'
  BY DEF BecomeLeader
<1>3. /\ \A j \in Node : j # i => /\ state'[j] = state[j] /\ nextIndex'[j] = nextIndex[j]
                                  /\ matchIndex'[j] = matchIndex[j]
      /\ \A j \in Node : nextIndex'[i][j] = LastIndex(log[i]) + 1 /\ matchIndex'[i][j] = 0
  BY <1>2 DEF TypeInv, TypeOK
<1>4. LastIndex(log[i]) = Len(log[i])
  BY LogsAreLogs, LastIndexIsLength
<1>5. Numbers /\ Numbers'
  BY NumbersType, NumbersNext
<1>6. ASSUME NEW c \in Node, NEW j \in Node, NEW t \in Nat, NEW n \in Nat,
             c # i \/ t # currentTerm[i], Held(c, j, t, n)
      PROVE  Held(c, j, t, n)'
  <2>1. state'[c] = Leader /\ currentTerm'[c] = t => state[c] = Leader /\ currentTerm[c] = t
    BY <1>3, <1>6
  <2> QED
    BY <1>6, <2>1 DEF Held
<1>7. ASSUME NEW m \in appendReqs'
      PROVE  Slice(m)' /\ Won(m.src, m.term)'
  <2>1. Slice(m) /\ Won(m.src, m.term) /\ m.src \in Node
    BY <1>5 DEF HoldInv, Numbers
  <2>2. m.src # i \/ m.term # currentTerm[i]
    BY <1>1, <2>1
  <2>3. state'[m.src] = Leader /\ currentTerm'[m.src] = m.term
        => state[m.src] = Leader /\ currentTerm[m.src] = m.term
    BY <1>3, <2>1, <2>2
  <2> QED
    BY <1>2, <2>1, <2>3 DEF Slice, Won
<1>8. ASSUME NEW m \in appendReps'
      PROVE  /\ m.success => Held(m.dst, m.src, m.reqTerm, m.matched)'
             /\ Won(m.dst, m.reqTerm)'
  <2>1. /\ m.success => Held(m.dst, m.src, m.reqTerm, m.matched)
        /\ Won(m.dst, m.reqTerm)
    BY DEF HoldInv
  <2>2. m.dst # i \/ m.reqTerm # currentTerm[i]
    BY <1>1, <2>1
  <2>3. /\ m.dst \in Node /\ m.src \in Node /\ m.reqTerm \in Nat /\ m.matched \in Nat
    BY <1>5 DEF Numbers
  <2>4. m.success => Held(m.dst, m.src, m.reqTerm, m.matched)'
    BY <1>6, <2>1, <2>2, <2>3
  <2> QED
    BY <1>2, <2>1, <2>4 DEF Won
<1>9. ASSUME NEW c \in Node, NEW j \in Peers(c), state'[c] = Leader
      PROVE  /\ nextIndex'[c][j] <= Len(log'[c]) + 1
             /\ Held(c, j, currentTerm[c], matchIndex[c][j])'
  <2>1. j \in Node /\ Len(log[c]) \in Nat
    BY <1>5 DEF Peers, Numbers
  <2>2. CASE c = i
    <3>1. nextIndex'[c][j] <= Len(log'[c]) + 1 /\ matchIndex'[c][j] = 0
      BY <1>3, <1>4, <2>1, <2>2
    <3>2. 0 <= Len(log'[j]) /\ 0 <= Len(log'[c])
      BY <1>5, <2>1 DEF Numbers
    <3> QED
      BY <3>1, <3>2 DEF Held
  <2>3. CASE c # i
    <3>1. /\ nextIndex[c][j] <= Len(log[c]) + 1
          /\ Held(c, j, currentTerm[c], matchIndex[c][j])
      BY <1>3, <1>9, <2>3 DEF HoldInv
    <3> QED
      BY <1>3, <2>3, <3>1 DEF Held
  <2> QED
    BY <2>2, <2>3
<1> QED
  BY <1>7, <1>8, <1>9 DEF HoldInv

LEMMA HoldVoteReply ==
    ASSUME TypeInv, TypeInv', ElectedInv, HoldInv, NEW m \in voteReps, VoteReply(m)
    PROVE  HoldInv'
<1>1. /\ m.dst \in Node /\ m.term \in Nat
      /\ UNCHANGED <<log, appendReqs, appendReps>>
  BY DEF TypeInv, TypeOK, VoteRep, VoteReply, logVars
<1>2. CASE m.term > currentTerm[m.dst] /\ StepDown(m.dst, m.term)
           /\ UNCHANGED <<leaderVars, elections>>
  BY <1>1, <1>2, HoldStepDown
<1>3. CASE state[m.dst] = Candidate /\ BecomeLeader(m.dst, votes[m.dst] \cup {m.src})
           /\ UNCHANGED currentTerm
  BY <1>1, <1>3, HoldBecomeLeader
<1>4. CASE UNCHANGED <<termVars, leaderVars, elections>>
  <2>1. \A i \in Node : currentTerm[i] <= currentTerm'[i]
    BY <1>4 DEF TypeInv, TypeOK, termVars
  <2> QED
    BY <1>1, <1>4, <2>1, HoldQuiet DEF termVars, leaderVars
<1> QED
  BY <1>2, <1>3, <1>4 DEF VoteReply, Awaits

LEMMA HoldRequestVote ==
    ASSUME TypeInv, TypeInv', HoldInv, NEW m \in voteReqs, RequestVote(m)
    PROVE  HoldInv'
<1> DEFINE i == m.dst
<1>1. /\ i \in Node /\ m.term \in Nat /\ UNCHANGED <<log, leaderVars, elections>>
      /\ UNCHANGED <<appendReqs, appendReps>>
      /\ currentTerm' = [currentTerm EXCEPT ![i] =
                           IF m.term > currentTerm[i] THEN m.term ELSE @]
      /\ state' = [state EXCEPT ![i] = IF m.term > currentTerm[i] THEN Follower ELSE @]
  BY DEF TypeInv, TypeOK, VoteReq, RequestVote, logVars
<1>2. \A j \in Node : /\ currentTerm[j] \in Nat
                      /\ j # i => currentTerm'[j] = currentTerm[j] /\ state'[j] = state[j]
  BY <1>1 DEF TypeInv, TypeOK
<1>3. /\ currentTerm'[i] = IF m.term > currentTerm[i] THEN m.term ELSE currentTerm[i]
      /\ state'[i] = IF m.term > currentTerm[i] THEN Follower ELSE state[i]
  BY <1>1 DEF TypeInv, TypeOK
<1>4. \A j \in Node : currentTerm[j] <= currentTerm'[j]
  <2> HIDE DEF i
  <2> QED
    BY <1>1, <1>2, <1>3
<1>5. \A j \in Node : state'[j] = Leader =>
         state[j] = Leader /\ currentTerm'[j] = currentTerm[j]
  <2> HIDE DEF i
  <2> QED
    BY <1>1, <1>2, <1>3 DEF Follower, Leader
<1> HIDE DEF i
<1> QED
  BY <1>1, <1>4, <1>5, HoldQuiet DEF leaderVars

LEMMA HoldStartElection ==
    ASSUME TypeInv, TypeInv', HoldInv,
           NEW i \in Node, NEW S \in SUBSET Peers(i), StartElection(i, S)
    PROVE  HoldInv'
<1>1. /\ UNCHANGED <<log, leaderVars, elections, appendReqs, appendReps>>
      /\ currentTerm' = [currentTerm EXCEPT ![i] = currentTerm[i] + 1]
      /\ state' = [state EXCEPT ![i] = Candidate]
  BY DEF StartElection, logVars
<1>2. \A j \in Node : /\ currentTerm[j] \in Nat
                      /\ currentTerm'[j] = IF j = i THEN currentTerm[i] + 1 ELSE currentTerm[j]
                      /\ state'[j] = IF j = i THEN Candidate ELSE state[j]
  BY <1>1 DEF TypeInv, TypeOK
<1>3. \A j \in Node : currentTerm[j] <= currentTerm'[j]
  BY <1>2
<1>4. \A j \in Node : state'[j] = Leader =>
         state[j] = Leader /\ currentTerm'[j] = currentTerm[j]
  BY <1>2 DEF Candidate, Leader
<1> QED
  BY <1>1, <1>3, <1>4, HoldQuiet DEF leaderVars
\* What a leader sends is a part of its log, up to the end.
LEMMA SliceSent ==
    ASSUME NEW l, IsLog(l), NEW n \in Nat \ {0}, n <= Len(l) + 1
    PROVE  LET prev == IF n > 1 THEN n - 1 ELSE 0
               term == IF n > 1 THEN TermAt(l, n - 1) ELSE 0
           IN  /\ prev + Len(EntriesFrom(l, n)) <= Len(l)
               /\ prev > 0 => term = l[prev].term
               /\ \A k \in 1 .. Len(EntriesFrom(l, n)) : EntriesFrom(l, n)[k] = l[prev + k]
<1> DEFINE prev == IF n > 1 THEN n - 1 ELSE 0
           term == IF n > 1 THEN TermAt(l, n - 1) ELSE 0
<1>1. Len(l) \in Nat /\ prev = n - 1 /\ prev \in Nat /\ prev <= Len(l)
  BY DEF IsLog
<1>2. prev > 0 => term = l[prev].term
  BY <1>1 DEF TermAt, Has
<1>3. CASE n <= Len(l)
  <2>1. EntriesFrom(l, n) = SubSeq(l, n, Len(l))
    BY <1>3 DEF EntriesFrom, Has
  <2>2. /\ Len(SubSeq(l, n, Len(l))) = Len(l) - n + 1
        /\ \A k \in 1 .. Len(l) - n + 1 : SubSeq(l, n, Len(l))[k] = l[n + k - 1]
    <3>1. \A k \in n .. Len(l) : l[k] \in Entry
      BY DEF IsLog
    <3> QED
      BY <1>1, <1>3, <3>1, SubSeqProperties
  <2>3. \A k \in 1 .. Len(l) - n + 1 : n + k - 1 = prev + k
    BY <1>1
  <2>4. prev + (Len(l) - n + 1) <= Len(l)
    BY <1>1
  <2> QED
    BY <1>2, <2>1, <2>2, <2>3, <2>4
<1>4. CASE n > Len(l)
  <2>1. EntriesFrom(l, n) = <<>>
    BY <1>1, <1>4 DEF EntriesFrom, Has
  <2> QED
    BY <1>1, <1>2, <2>1
<1> QED
  BY <1>1, <1>3, <1>4

LEMMA HoldSendHeartbeats ==
    ASSUME TypeInv, TypeInv', ElectedInv, HoldInv,
           NEW i \in Node, NEW S \in SUBSET Peers(i), SendHeartbeats(i, S)
    PROVE  HoldInv'
<1> DEFINE call(j) ==
         [src |-> i, dst |-> j, term |-> currentTerm[i],
          prevLogIndex |-> IF nextIndex[i][j] > 1 THEN nextIndex[i][j] - 1 ELSE 0,
          prevLogTerm  |-> IF nextIndex[i][j] > 1
                           THEN TermAt(log[i], nextIndex[i][j] - 1) ELSE 0,
          entries      |-> EntriesFrom(log[i], nextIndex[i][j]),
          leaderCommit |-> commitIndex[i]]
<1>1. /\ appendReqs' = appendReqs \cup {call(j) : j \in S} /\ state[i] = Leader
      /\ UNCHANGED <<log, leaderVars, elections, appendReps, currentTerm, state>>
  BY DEF SendHeartbeats, termVars, logVars
<1>2. Won(i, currentTerm[i])
  BY <1>1 DEF ElectedInv, Won
<1>3. \A c, j, t, n : Held(c, j, t, n) => Held(c, j, t, n)'
  BY <1>1 DEF Held
<1>4. ASSUME NEW j \in S
      PROVE  Slice(call(j)) /\ Won(call(j).src, call(j).term)
  <2> DEFINE m == call(j)
             n == nextIndex[i][j]
  <2>1. /\ m.src = i /\ m.term = currentTerm[i]
        /\ m.prevLogIndex = IF n > 1 THEN n - 1 ELSE 0
        /\ m.prevLogTerm = IF n > 1 THEN TermAt(log[i], n - 1) ELSE 0
        /\ m.entries = EntriesFrom(log[i], n)
    OBVIOUS
  <2>2. n \in Nat \ {0} /\ n <= Len(log[i]) + 1
    <3>1. j \in Node /\ j \in Peers(i)
      BY DEF Peers
    <3>2. n \in Nat /\ n >= 1
      BY <1>1, <3>1, NumbersType DEF Numbers, TypeInv, IndexIsPosition
    <3> QED
      BY <1>1, <3>1, <3>2 DEF HoldInv
  <2> HIDE DEF m, n
  <2>3. Slice(m)
    <3>1. IsLog(log[i])
      BY LogsAreLogs
    <3>2. LET prev == IF n > 1 THEN n - 1 ELSE 0
              term == IF n > 1 THEN TermAt(log[i], n - 1) ELSE 0
          IN  /\ prev + Len(EntriesFrom(log[i], n)) <= Len(log[i])
              /\ prev > 0 => term = log[i][prev].term
              /\ \A k \in 1 .. Len(EntriesFrom(log[i], n)) :
                    EntriesFrom(log[i], n)[k] = log[i][prev + k]
      BY <2>2, <3>1, SliceSent
    <3> QED
      BY <2>1, <3>2 DEF Slice
  <2> QED
    BY <1>2, <2>1, <2>3 DEF m
<1> HIDE DEF call
<1>5. ASSUME NEW m \in appendReqs'
      PROVE  Slice(m)' /\ Won(m.src, m.term)'
  <2>1. Slice(m) /\ Won(m.src, m.term)
    BY <1>1, <1>4 DEF HoldInv
  <2> QED
    BY <1>1, <2>1 DEF Slice, Won
<1>6. \A c \in Node : \A j \in Peers(c) : state'[c] = Leader =>
         /\ nextIndex'[c][j] <= Len(log'[c]) + 1
         /\ Held(c, j, currentTerm[c], matchIndex[c][j])'
  BY <1>1 DEF HoldInv, Held, leaderVars
<1>7. \A m \in appendReps' : /\ m.success => Held(m.dst, m.src, m.reqTerm, m.matched)'
                             /\ Won(m.dst, m.reqTerm)'
  BY <1>1, <1>3 DEF HoldInv, Won
<1> QED
  BY <1>5, <1>6, <1>7 DEF HoldInv

\* Start lets a leader's log grow; no other node of its term leads.
LEMMA HoldStart ==
    ASSUME TypeInv, TypeInv', ElectedInv, ElectionSafety, HoldInv,
           NEW i \in Node, NEW c \in Command, Start(i, c)
    PROVE  HoldInv'
<1>1. /\ state[i] = Leader
      /\ UNCHANGED <<leaderVars, elections, appendReqs, appendReps, currentTerm, state>>
  BY DEF Start, termVars, netVars
<1>2. \A j \in Node : /\ Len(log[j]) \in Nat /\ Len(log[j]) <= Len(log'[j])
                      /\ \A q \in 1 .. Len(log[j]) : log'[j][q] = log[j][q]
                      /\ j # i => log'[j] = log[j]
  <2> DEFINE e == NextEntry(log[i], currentTerm[i], c)
  <2>1. log' = [log EXCEPT ![i] = Append(log[i], e)]
    BY DEF Start
  <2>2. \A j \in Node : /\ log[j] \in Seq(Entry)
                        /\ log'[j] = IF j = i THEN Append(log[i], e) ELSE log[j]
    BY <2>1 DEF TypeInv, TypeOK
  <2> HIDE DEF e
  <2>3. /\ Len(log[i]) \in Nat /\ Len(log[i]) <= Len(log'[i])
        /\ \A q \in 1 .. Len(log[i]) : log'[i][q] = log[i][q]
    <3>1. log[i] \in Seq(Entry) /\ log'[i] = Append(log[i], e)
      BY <2>2
    <3> QED
      BY <3>1
  <2>4. ASSUME NEW j \in Node, j # i
        PROVE  /\ Len(log[j]) \in Nat /\ Len(log[j]) <= Len(log'[j])
               /\ log'[j] = log[j]
    <3>1. log[j] \in Seq(Entry) /\ log'[j] = log[j]
      BY <2>2, <2>4
    <3> QED
      BY <3>1
  <2> QED
    BY <2>3, <2>4
<1>3. ASSUME NEW d \in Node, NEW j \in Node, NEW t \in Nat, NEW n \in Nat, Held(d, j, t, n)
      PROVE  Held(d, j, t, n)'
  <2>1. CASE d # j /\ state[d] = Leader /\ currentTerm[d] = t /\ currentTerm[j] = t
    <3>1. j # i
      BY <1>1, <2>1 DEF ElectedInv, ElectionSafety
    <3>2. log'[j] = log[j] /\ n <= Len(log[j])
      BY <1>2, <1>3, <2>1, <3>1 DEF Held
    <3>3. currentTerm[j] <= currentTerm'[j]
      BY <1>1, NumbersType DEF Numbers
    <3> QED
      BY <1>1, <1>2, <1>3, <3>2, <3>3, HeldKept DEF Held
  <2>2. CASE ~(d # j /\ state[d] = Leader /\ currentTerm[d] = t /\ currentTerm[j] = t)
    <3>1. currentTerm[j] <= currentTerm'[j]
      BY <1>1, NumbersType DEF Numbers
    <3> QED
      BY <1>1, <1>2, <1>3, <2>2, <3>1, HeldKept DEF Held
  <2> QED
    BY <2>1, <2>2
<1>4. ASSUME NEW m \in appendReqs'
      PROVE  Slice(m)' /\ Won(m.src, m.term)'
  <2>1. m \in appendReqs /\ m.src \in Node
    BY <1>1, NumbersType DEF Numbers
  <2> QED
    BY <1>1, <1>2, <2>1, SliceKept DEF HoldInv, Won
<1>5. ASSUME NEW m \in appendReps'
      PROVE  /\ m.success => Held(m.dst, m.src, m.reqTerm, m.matched)'
             /\ Won(m.dst, m.reqTerm)'
  <2>1. m.dst \in Node /\ m.src \in Node /\ m.reqTerm \in Nat /\ m.matched \in Nat
    BY NumbersNext DEF Numbers
  <2> QED
    BY <1>1, <1>3, <2>1 DEF HoldInv, Won
<1>6. ASSUME NEW d \in Node, NEW j \in Peers(d), state'[d] = Leader
      PROVE  /\ nextIndex'[d][j] <= Len(log'[d]) + 1
             /\ Held(d, j, currentTerm[d], matchIndex[d][j])'
  <2>0. /\ j \in Node /\ currentTerm[d] \in Nat /\ matchIndex[d][j] \in Nat
        /\ nextIndex[d][j] \in Nat /\ Len(log[d]) \in Nat /\ Len(log'[d]) \in Nat
    BY NumbersType, NumbersNext DEF Peers, Numbers
  <2>1. PICK t \in Nat, n \in Nat : t = currentTerm[d] /\ n = matchIndex[d][j]
    BY <2>0
  <2>2. Held(d, j, t, n) /\ nextIndex[d][j] <= Len(log[d]) + 1
    BY <1>1, <1>6, <2>1 DEF HoldInv
  <2>3. currentTerm'[d] = t /\ matchIndex'[d][j] = n /\ nextIndex'[d][j] = nextIndex[d][j]
    BY <1>1, <2>1 DEF leaderVars
  <2>4. Held(d, j, t, n)'
    BY <1>3, <2>0, <2>2
  <2>5. Held(d, j, currentTerm[d], matchIndex[d][j])'
    BY <2>3, <2>4 DEF Held
  <2> QED
    BY <1>2, <2>0, <2>2, <2>3, <2>5
<1> QED
  BY <1>4, <1>5, <1>6 DEF HoldInv

\* A leader takes over what an answer of success says.
LEMMA HoldAppendReply ==
    ASSUME TypeInv, TypeInv', HoldInv, NEW m \in appendReps, AppendReply(m)
    PROVE  HoldInv'
<1>0. /\ nextIndex \in [Node -> [Node -> Nat]] /\ matchIndex \in [Node -> [Node -> Nat]]
  BY DEF TypeInv, TypeOK
<1> DEFINE i == m.dst
           j == m.src
<1>1. /\ i \in Node /\ j \in Node /\ m.term \in Nat /\ m.matched \in Nat
      /\ appendReps' \subseteq appendReps
      /\ UNCHANGED <<log, appendReqs, elections>>
  BY DEF TypeInv, TypeOK, AppendRep, AppendReply, logVars
<1>2. CASE UNCHANGED <<termVars, leaderVars>>
  <2>1. \A c \in Node : currentTerm[c] <= currentTerm'[c]
    BY <1>2, NumbersType DEF Numbers, termVars
  <2> QED
    BY <1>1, <1>2, <2>1, HoldQuiet DEF termVars, leaderVars
<1>3. CASE m.term > currentTerm[i] /\ StepDown(i, m.term) /\ UNCHANGED leaderVars
  BY <1>1, <1>3, HoldStepDown
<1>4. CASE /\ UNCHANGED termVars
           /\ \A c \in Node : \A d \in Peers(c) : state[c] = Leader =>
                 /\ nextIndex'[c][d] <= Len(log[c]) + 1
                 /\ Held(c, d, currentTerm[c], matchIndex'[c][d])
  <2>1. /\ \A c, d, t, n : Held(c, d, t, n) => Held(c, d, t, n)'
        /\ state' = state /\ currentTerm' = currentTerm
    BY <1>1, <1>4 DEF Held, termVars
  <2>2. \A r \in appendReqs' : Slice(r)' /\ Won(r.src, r.term)'
    BY <1>1, <2>1 DEF HoldInv, Slice, Won
  <2>3. \A r \in appendReps' : /\ r.success => Held(r.dst, r.src, r.reqTerm, r.matched)'
                               /\ Won(r.dst, r.reqTerm)'
    BY <1>1, <2>1 DEF HoldInv, Won
  <2>4. \A c \in Node : \A d \in Peers(c) : state'[c] = Leader =>
           /\ nextIndex'[c][d] <= Len(log'[c]) + 1
           /\ Held(c, d, currentTerm[c], matchIndex[c][d])'
    BY <1>1, <1>4, <2>1 DEF Held
  <2> QED
    BY <2>2, <2>3, <2>4 DEF HoldInv
<1>5. CASE /\ nextIndex' = [nextIndex EXCEPT ![i][j] = IF @ > 1 THEN @ - 1 ELSE @]
           /\ UNCHANGED <<termVars, matchIndex>>
  <2> DEFINE v == IF nextIndex[i][j] > 1 THEN nextIndex[i][j] - 1 ELSE nextIndex[i][j]
  <2>1. v \in Nat /\ v <= nextIndex[i][j] /\ nextIndex \in [Node -> [Node -> Nat]]
    <3> HIDE DEF i, j
    <3>1. nextIndex[i][j] \in Nat
      BY <1>0, <1>1
    <3> QED
      BY <1>0, <3>1
  <2>2. nextIndex' = [nextIndex EXCEPT ![i][j] = v]
    BY <1>5, <2>1
  <2> HIDE DEF v, i, j
  <2>3. \A c, d \in Node : nextIndex'[c][d] <= nextIndex[c][d]
    <3>1. \A c, d \in Node : /\ nextIndex[c][d] \in Nat
                             /\ nextIndex'[c][d] = IF c = i /\ d = j THEN v ELSE nextIndex[c][d]
      BY <1>1, <2>1, <2>2, PeerIndexUpdate
    <3> QED
      BY <2>1, <3>1
  <2>4. \A c \in Node : \A d \in Peers(c) : state[c] = Leader =>
           /\ nextIndex'[c][d] <= Len(log[c]) + 1
           /\ Held(c, d, currentTerm[c], matchIndex'[c][d])
    <3>1. \A c \in Node : \A d \in Peers(c) :
             /\ d \in Node /\ nextIndex[c][d] \in Nat /\ nextIndex'[c][d] \in Nat
             /\ Len(log[c]) \in Nat
      BY NumbersType, NumbersNext DEF Numbers, Peers
    <3> QED
      BY <1>5, <2>3, <3>1 DEF HoldInv
  <2> QED
    BY <1>4, <1>5, <2>4
<1>6. CASE /\ m.success /\ Awaits(i, Leader, m.reqTerm)
           /\ matchIndex' = [matchIndex EXCEPT ![i] = [matchIndex[i] EXCEPT ![j] = m.matched]]
           /\ nextIndex' = [nextIndex EXCEPT ![i][j] = m.matched + 1]
           /\ UNCHANGED termVars
  <2>1. /\ Held(i, j, currentTerm[i], m.matched) /\ m.matched <= Len(log[i])
    BY <1>6 DEF HoldInv, Awaits, Held
  <2>2. /\ nextIndex \in [Node -> [Node -> Nat]] /\ matchIndex \in [Node -> [Node -> Nat]]
        /\ m.matched + 1 \in Nat
    <3> HIDE DEF i, j
    <3> QED
      BY <1>0, <1>1
  <2> HIDE DEF i, j
  <2>3. \A c, d \in Node :
           /\ nextIndex'[c][d] = IF c = i /\ d = j THEN m.matched + 1 ELSE nextIndex[c][d]
           /\ matchIndex'[c][d] = IF c = i /\ d = j THEN m.matched ELSE matchIndex[c][d]
    <3>1. \A c, d \in Node :
             nextIndex'[c][d] = IF c = i /\ d = j THEN m.matched + 1 ELSE nextIndex[c][d]
      BY <1>1, <1>6, <2>2, PeerIndexUpdate
    <3>2. \A c, d \in Node :
             matchIndex'[c][d] = IF c = i /\ d = j THEN m.matched ELSE matchIndex[c][d]
      BY <1>1, <1>6, <2>2
    <3> QED
      BY <3>1, <3>2
  <2>4. \A c \in Node : \A d \in Peers(c) : state[c] = Leader =>
           /\ nextIndex'[c][d] <= Len(log[c]) + 1
           /\ Held(c, d, currentTerm[c], matchIndex'[c][d])
    <3> SUFFICES ASSUME NEW c \in Node, NEW d \in Peers(c), state[c] = Leader
                 PROVE  /\ nextIndex'[c][d] <= Len(log[c]) + 1
                        /\ Held(c, d, currentTerm[c], matchIndex'[c][d])
      OBVIOUS
    <3>1. d \in Node /\ Len(log[c]) \in Nat
      BY NumbersType DEF Numbers, Peers
    <3>2. CASE c = i /\ d = j
      BY <1>1, <2>1, <2>3, <3>1, <3>2
    <3>3. CASE ~(c = i /\ d = j)
      BY <2>3, <3>1, <3>3 DEF HoldInv
    <3> QED
      BY <3>2, <3>3
  <2> QED
    BY <1>4, <1>6, <2>4
<1> QED
  BY <1>2, <1>3, <1>5, <1>6 DEF AppendReply, leaderVars
\* What AppendEntries makes of a log reaches as far as the call, and ends
\* there as the call does.
LEMMA MergeEnd ==
    ASSUME NEW l, IsLog(l), NEW entries \in Seq(Entry),
           NEW prev \in Nat, NEW prevTerm \in Nat, PrevMatches(l, prev, prevTerm),
           \A k \in 1 .. Len(entries) : entries[k].index = prev + k
    PROVE  LET merged == MergeEntries(l, entries)
               last   == prev + Len(entries)
           IN  /\ last <= Len(merged)
               /\ last > 0 => merged[last].term = IF Len(entries) > 0
                                                  THEN entries[Len(entries)].term ELSE prevTerm
<1>0. Len(l) \in Nat /\ Len(entries) \in Nat /\ prev <= Len(l)
  BY LastIndexIsLength DEF IsLog, PrevMatches
<1>1. CASE entries = <<>>
  <2>1. MergeEntries(l, entries) = l /\ Len(entries) = 0
    BY <1>1 DEF MergeEntries
  <2> QED
    BY <1>0, <2>1 DEF PrevMatches
<1>2. CASE entries # <<>>
  <2> DEFINE first == entries[1].index
             last  == first + Len(entries) - 1
             f     == [q \in 1 .. last |-> IF Agrees(l, entries, q)
                                           THEN l[q] ELSE entries[q - first + 1]]
  <2>1. Len(entries) >= 1 /\ first = prev + 1 /\ last = prev + Len(entries)
    BY <1>0, <1>2
  <2>2. CASE Agrees(l, entries, last)
    <3>1. MergeEntries(l, entries) = l
      BY <1>2, <2>2 DEF MergeEntries
    <3>2. Has(l, last) /\ l[last].term = entries[last - first + 1].term
      <4>1. last \in first .. last
        BY <1>0, <2>1
      <4> QED
        BY <2>2, <4>1 DEF Agrees
    <3>3. last - first + 1 = Len(entries)
      BY <1>0, <2>1
    <3> QED
      BY <1>0, <2>1, <3>1, <3>2, <3>3 DEF Has
  <2>3. CASE ~Agrees(l, entries, last)
    <3>1. MergeEntries(l, entries) = f
      BY <1>2, <2>3 DEF MergeEntries
    <3>2. last \in Nat /\ last \in 1 .. last /\ last - first + 1 = Len(entries)
      BY <1>0, <2>1
    <3>3. f[last] = entries[Len(entries)]
      BY <2>3, <3>2
    <3>4. Len(f) = last
      BY <3>2
    <3> HIDE DEF f
    <3> QED
      BY <2>1, <3>1, <3>2, <3>3, <3>4
  <2> QED
    BY <2>2, <2>3
<1> QED
  BY <1>1, <1>2

\* Entries that stand in log k where their indices say, from prev on.
PartOf(entries, prev, k) ==
    \A j \in 1 .. Len(entries) :
        entries[j].index = prev + j /\ entries[j] = k[prev + j]

\* Two logs are the same up to n.
SameUpTo(l, k, n) == \A q \in 1 .. n : l[q] = k[q]

\* A call cuts off nothing of what the log has in common with a log k that
\* the call is a part of, however late the call is.
LEMMA MergeKeeps ==
    ASSUME NEW l, IsLog(l), NEW entries \in Seq(Entry), NEW prev \in Nat,
           NEW k, PartOf(entries, prev, k),
           NEW n \in Nat, n <= Len(l), SameUpTo(l, k, n)
    PROVE  n <= Len(MergeEntries(l, entries)) /\ SameUpTo(MergeEntries(l, entries), l, n)
<1>0. Len(l) \in Nat /\ Len(entries) \in Nat
  BY DEF IsLog
<1>1. CASE MergeEntries(l, entries) = l
  BY <1>1 DEF SameUpTo
<1>2. CASE MergeEntries(l, entries) # l
  <2> DEFINE first == entries[1].index
             last  == first + Len(entries) - 1
             f     == [q \in 1 .. last |-> IF Agrees(l, entries, q)
                                           THEN l[q] ELSE entries[q - first + 1]]
  <2>1. entries # <<>> /\ ~Agrees(l, entries, last) /\ MergeEntries(l, entries) = f
    BY <1>2 DEF MergeEntries
  <2>2. Len(entries) >= 1 /\ first = prev + 1 /\ last = prev + Len(entries)
    BY <1>0, <2>1 DEF PartOf
  <2>3. ASSUME NEW q \in 1 .. n, q >= first, q <= last
        PROVE  l[q] = entries[q - first + 1] /\ Has(l, q)
    <3>1. q - first + 1 \in 1 .. Len(entries) /\ prev + (q - first + 1) = q /\ q <= Len(l)
      BY <1>0, <2>2, <2>3
    <3> QED
      BY <3>1 DEF Has, PartOf, SameUpTo
  <2>4. n < last
    <3> SUFFICES ASSUME last <= n PROVE FALSE
      BY <1>0, <2>2
    <3>1. ASSUME NEW q \in first .. last
          PROVE  Has(l, q) /\ l[q].term = entries[q - first + 1].term
      <4>1. q \in 1 .. n /\ q >= first /\ q <= last
        BY <1>0, <2>2
      <4> QED
        BY <2>3, <4>1
    <3> QED
      BY <2>1, <3>1 DEF Agrees
  <2>5. ASSUME NEW q \in 1 .. n
        PROVE  f[q] = l[q]
    <3>1. q \in 1 .. last
      BY <1>0, <2>2, <2>4
    <3>2. CASE Agrees(l, entries, q)
      BY <3>1, <3>2
    <3>3. CASE ~Agrees(l, entries, q)
      <4>1. q >= first
        BY <2>2, <3>3 DEF Agrees
      <4>2. l[q] = entries[q - first + 1]
        BY <2>3, <3>1, <4>1
      <4> QED
        BY <3>1, <3>3, <4>2
    <3> QED
      BY <3>2, <3>3
  <2>6. Len(f) = last
    BY <1>0, <2>2
  <2> HIDE DEF f
  <2> QED
    BY <1>0, <2>1, <2>2, <2>4, <2>5, <2>6 DEF SameUpTo
<1> QED
  BY <1>1, <1>2

\* A request cuts nothing off its receiver's log that the leader counts on,
\* and its success says that the receiver holds what was sent.
LEMMA HoldAppendEntries ==
    ASSUME TypeInv, TypeInv', ElectedInv, ElectionSafety, LogMatching', HoldInv,
           NEW m \in appendReqs, AppendEntries(m)
    PROVE  HoldInv'
<1> DEFINE i      == m.dst
           last   == m.prevLogIndex + Len(m.entries)
           merged == MergeEntries(log[i], m.entries)
           Reply(r) == /\ r.src = i /\ r.dst = m.src /\ r.reqTerm = m.term
                       /\ r.matched = last
           reply(term, ok) == [src |-> i, dst |-> m.src, reqTerm |-> m.term,
                               matched |-> last, term |-> term, success |-> ok]
<1>1. /\ i \in Node /\ m.src \in Node /\ m.term \in Nat /\ m.prevLogIndex \in Nat
      /\ m.prevLogTerm \in Nat /\ m.entries \in Seq(Entry)
  BY DEF TypeInv, TypeOK, AppendReq
<1>2. /\ UNCHANGED <<leaderVars, elections>> /\ appendReqs' \subseteq appendReqs
  BY DEF AppendEntries
<1>3. Slice(m) /\ Won(m.src, m.term)
  BY DEF HoldInv
<1>4. Numbers /\ Numbers'
  BY NumbersType, NumbersNext
<1>5. CASE m.term < currentTerm[i]
  <2>1. PICK r : /\ UNCHANGED <<termVars, log>> /\ appendReps' = appendReps \cup {r}
                 /\ Reply(r) /\ r.success = FALSE
    <3>1. /\ UNCHANGED <<termVars, log>>
          /\ appendReps' = appendReps \cup {reply(currentTerm[i], FALSE)}
      BY <1>1, <1>4, <1>5 DEF AppendEntries, logVars, Numbers
    <3>2. Reply(reply(currentTerm[i], FALSE)) /\ reply(currentTerm[i], FALSE).success = FALSE
      OBVIOUS
    <3> HIDE DEF reply, Reply
    <3> QED
      BY <3>1, <3>2
  <2>2. /\ \A c, j, t, n : Held(c, j, t, n) => Held(c, j, t, n)'
        /\ state' = state /\ currentTerm' = currentTerm
    BY <2>1 DEF Held, termVars
  <2>3. \A q \in appendReqs' : Slice(q)' /\ Won(q.src, q.term)'
    BY <1>2, <2>1, <2>2 DEF HoldInv, Slice, Won
  <2>4. \A q \in appendReps' : /\ q.success => Held(q.dst, q.src, q.reqTerm, q.matched)'
                               /\ Won(q.dst, q.reqTerm)'
    BY <1>2, <1>3, <2>1, <2>2 DEF HoldInv, Won
  <2>5. \A c \in Node : \A j \in Peers(c) : state'[c] = Leader =>
           /\ nextIndex'[c][j] <= Len(log'[c]) + 1
           /\ Held(c, j, currentTerm[c], matchIndex[c][j])'
    BY <1>2, <2>1, <2>2 DEF HoldInv, Held, leaderVars
  <2> QED
    BY <2>3, <2>4, <2>5 DEF HoldInv
<1>6. CASE m.term >= currentTerm[i]
  <2> DEFINE ok == PrevMatches(log[i], m.prevLogIndex, m.prevLogTerm)
  <2>1. PICK r : /\ Follow(i, m.src, m.term) /\ appendReps' = appendReps \cup {r}
                 /\ Reply(r) /\ r.success = ok
                 /\ log' = IF ok THEN [log EXCEPT ![i] = merged] ELSE log
    <3>1. /\ Follow(i, m.src, m.term) /\ appendReps' = appendReps \cup {reply(m.term, ok)}
          /\ log' = IF ok THEN [log EXCEPT ![i] = merged] ELSE log
      BY <1>1, <1>4, <1>6 DEF AppendEntries, logVars, Numbers
    <3>2. Reply(reply(m.term, ok)) /\ reply(m.term, ok).success = ok
      OBVIOUS
    <3> HIDE DEF reply, Reply, ok, merged
    <3> QED
      BY <3>1, <3>2
  <2>2. /\ currentTerm'[i] = m.term /\ state'[i] = Follower
        /\ log'[i] = IF ok THEN merged ELSE log[i]
        /\ \A c \in Node : c # i => /\ currentTerm'[c] = currentTerm[c]
                                    /\ state'[c] = state[c] /\ log'[c] = log[c]
    BY <1>1, <2>1 DEF Follow, TypeInv, TypeOK
  <2>3. \A c \in Node : /\ Len(log[c]) \in Nat /\ currentTerm[c] <= currentTerm'[c]
                        /\ state'[c] = Leader => c # i
    BY <1>1, <1>4, <1>6, <2>2 DEF Numbers, Follower, Leader
  <2>4. /\ IsLog(log[i])
        /\ \A k \in 1 .. Len(m.entries) : m.entries[k].index = m.prevLogIndex + k
    BY <1>1, LogsAreLogs DEF TypeInv, IndexIsPosition
  <2> HIDE DEF ok, i, last, merged
  \* The leader of the term is the sender: the request is a part of its log.
  <2>5. ASSUME NEW c \in Node, NEW n \in Nat, c # i, state[c] = Leader,
               currentTerm[c] = m.term, currentTerm[i] = m.term, Held(c, i, m.term, n)
        PROVE  n <= Len(log'[i]) /\ \A q \in 1 .. n : log'[i][q] = log[i][q]
    <3>1. c = m.src
      BY <1>3, <2>5 DEF ElectedInv, ElectionSafety, Won
    <3>2. /\ n <= Len(log[i]) /\ \A q \in 1 .. n : log[i][q] = log[c][q]
          /\ \A k \in 1 .. Len(m.entries) : m.entries[k] = log[c][m.prevLogIndex + k]
      BY <1>3, <2>5, <3>1 DEF Held, Slice
    <3>3. CASE ok
      <4>1. /\ n <= Len(MergeEntries(log[i], m.entries))
            /\ \A q \in 1 .. n : MergeEntries(log[i], m.entries)[q] = log[i][q]
        <5> DEFINE l == log[i]
                   k == log[c]
                   entries == m.entries
                   prev == m.prevLogIndex
        <5>1. /\ IsLog(l) /\ entries \in Seq(Entry) /\ prev \in Nat
              /\ PartOf(entries, prev, k) /\ n <= Len(l) /\ SameUpTo(l, k, n)
          BY <1>1, <2>4, <3>2 DEF PartOf, SameUpTo
        <5> HIDE DEF l, k, entries, prev
        <5>2. /\ n <= Len(MergeEntries(l, entries))
              /\ SameUpTo(MergeEntries(l, entries), l, n)
          BY <5>1, MergeKeeps
        <5> QED
          BY <5>2 DEF l, entries, SameUpTo
      <4> QED
        BY <2>2, <3>3, <4>1 DEF merged
    <3>4. CASE ~ok
      BY <2>2, <3>2, <3>4
    <3> QED
      BY <3>3, <3>4
  <2>6. ASSUME NEW c \in Node, NEW j \in Node, NEW t \in Nat, NEW n \in Nat, Held(c, j, t, n)
        PROVE  Held(c, j, t, n)'
    <3>1. state'[c] = Leader /\ currentTerm'[c] = t =>
             /\ state[c] = Leader /\ currentTerm[c] = t /\ Len(log[c]) <= Len(log'[c])
             /\ \A q \in 1 .. Len(log[c]) : log'[c][q] = log[c][q]
      BY <2>2, <2>3
    <3>2. CASE state'[c] = Leader /\ currentTerm'[c] = t
      <4>1. /\ c # j /\ state[c] = Leader /\ currentTerm[c] = t
            /\ currentTerm[j] = t /\ currentTerm'[j] = t
            => n <= Len(log'[j]) /\ \A q \in 1 .. n : log'[j][q] = log[j][q]
        <5>1. CASE j = i
          <6> SUFFICES ASSUME c # j, state[c] = Leader, currentTerm[c] = t,
                              currentTerm[j] = t, currentTerm'[j] = t
                       PROVE  n <= Len(log'[j]) /\ \A q \in 1 .. n : log'[j][q] = log[j][q]
            OBVIOUS
          <6>1. t = m.term
            BY <2>2, <5>1
          <6> QED
            BY <2>5, <2>6, <5>1, <6>1
        <5>2. CASE j # i
          BY <2>2, <2>6, <5>2 DEF Held
        <5> QED
          BY <5>1, <5>2
      <4> QED
        BY <2>3, <2>6, <3>1, <4>1, HeldKept DEF Held
    <3>3. CASE ~(state'[c] = Leader /\ currentTerm'[c] = t)
      BY <3>3 DEF Held
    <3> QED
      BY <3>2, <3>3
  <2>7. ASSUME ok
        PROVE  Held(m.src, i, m.term, last)'
    <3> SUFFICES ASSUME state'[m.src] = Leader, currentTerm'[m.src] = m.term
                 PROVE  /\ last <= Len(log'[m.src])
                        /\ last <= Len(log'[i])
                        /\ \A q \in 1 .. last : log'[i][q] = log'[m.src][q]
      BY <1>1, <2>2 DEF Held
    <3> DEFINE l == log[m.src]
    <3>1. m.src # i /\ state[m.src] = Leader /\ currentTerm[m.src] = m.term /\ log'[m.src] = l
      BY <1>1, <2>2, <2>3
    <3>2. /\ last <= Len(l) /\ Len(l) \in Nat /\ last \in Nat
          /\ m.prevLogIndex > 0 => m.prevLogTerm = l[m.prevLogIndex].term
          /\ Len(m.entries) > 0 => m.entries[Len(m.entries)] = l[last]
      BY <1>1, <1>3, <2>3, <3>1 DEF Slice, last
    <3>3. /\ last <= Len(log'[i])
          /\ last > 0 => log'[i][last].term = IF Len(m.entries) > 0
                                              THEN m.entries[Len(m.entries)].term
                                              ELSE m.prevLogTerm
      <4>1. LET mm == MergeEntries(log[i], m.entries)
                ll == m.prevLogIndex + Len(m.entries)
            IN  /\ ll <= Len(mm)
                /\ ll > 0 => mm[ll].term = IF Len(m.entries) > 0
                                           THEN m.entries[Len(m.entries)].term ELSE m.prevLogTerm
        BY <1>1, <2>4, <2>7, MergeEnd DEF ok
      <4> QED
        BY <2>2, <2>7, <4>1 DEF merged, last
    <3>4. last > 0 => log'[i][last].term = l[last].term
      BY <1>1, <3>2, <3>3 DEF last
    <3> HIDE DEF l
    <3>5. \A q \in 1 .. last : log'[i][q] = log'[m.src][q]
      <4>1. CASE last = 0
        BY <4>1
      <4>2. CASE last > 0
        <5>1. last \in 1 .. Len(log'[m.src]) /\ last <= Len(log'[i])
              /\ log'[m.src][last].term = log'[i][last].term
          BY <3>1, <3>2, <3>3, <3>4, <4>2
        <5>2. \A q \in 1 .. last : log'[m.src][q] = log'[i][q]
          BY <1>1, <3>1, <5>1 DEF LogMatching
        <5> QED
          BY <5>2
      <4> QED
        BY <3>2, <4>1, <4>2
    <3> QED
      BY <3>1, <3>2, <3>3, <3>5
  <2>8. ASSUME NEW q \in appendReqs'
        PROVE  Slice(q)' /\ Won(q.src, q.term)'
    <3>1. q \in appendReqs /\ q.src \in Node
      BY <1>2, <1>4 DEF Numbers
    <3>2. state'[q.src] = Leader /\ currentTerm'[q.src] = q.term =>
              /\ state[q.src] = Leader /\ currentTerm[q.src] = q.term
              /\ Len(log[q.src]) <= Len(log'[q.src])
              /\ \A p \in 1 .. Len(log[q.src]) : log'[q.src][p] = log[q.src][p]
      BY <2>2, <2>3, <3>1
    <3> QED
      BY <1>2, <3>1, <3>2, SliceKept DEF HoldInv, Won
  <2>9. ASSUME NEW q \in appendReps'
        PROVE  /\ q.success => Held(q.dst, q.src, q.reqTerm, q.matched)'
               /\ Won(q.dst, q.reqTerm)'
    <3>1. CASE q \in appendReps
      <4>1. q.dst \in Node /\ q.src \in Node /\ q.reqTerm \in Nat /\ q.matched \in Nat
        BY <1>4, <3>1 DEF Numbers
      <4> QED
        BY <1>2, <2>6, <3>1, <4>1 DEF HoldInv, Won
    <3>2. CASE q = r
      <4>1. q.success => ok
        BY <2>1, <3>2
      <4>2. q.src = i /\ q.dst = m.src /\ q.reqTerm = m.term /\ q.matched = last
        BY <2>1, <3>2
      <4>3. q.success => Held(q.dst, q.src, q.reqTerm, q.matched)'
        BY <2>7, <4>1, <4>2 DEF Held
      <4> QED
        BY <1>2, <1>3, <4>2, <4>3 DEF Won
    <3> QED
      BY <2>1, <3>1, <3>2
  <2>10. ASSUME NEW c \in Node, NEW j \in Peers(c), state'[c] = Leader
         PROVE  /\ nextIndex'[c][j] <= Len(log'[c]) + 1
                /\ Held(c, j, currentTerm[c], matchIndex[c][j])'
    <3>1. /\ j \in Node /\ currentTerm[c] \in Nat /\ matchIndex[c][j] \in Nat
      BY <1>4 DEF Peers, Numbers
    <3>2. /\ c # i /\ state[c] = Leader /\ currentTerm'[c] = currentTerm[c]
          /\ log'[c] = log[c]
      BY <2>2, <2>3, <2>10
    <3>3. PICK t \in Nat, n \in Nat : t = currentTerm[c] /\ n = matchIndex[c][j]
      BY <3>1
    <3>4. Held(c, j, t, n) /\ nextIndex[c][j] <= Len(log[c]) + 1
      BY <3>2, <3>3 DEF HoldInv
    <3>5. Held(c, j, t, n)'
      BY <2>6, <3>1, <3>4
    <3>6. currentTerm'[c] = t /\ matchIndex'[c][j] = n /\ nextIndex'[c][j] = nextIndex[c][j]
      BY <1>2, <3>2, <3>3 DEF leaderVars
    <3> QED
      BY <3>2, <3>4, <3>5, <3>6 DEF Held
  <2> QED
    BY <2>8, <2>9, <2>10 DEF HoldInv
<1>7. m.term < currentTerm[i] \/ m.term >= currentTerm[i]
  BY <1>1, <1>4 DEF Numbers
<1> QED
  BY <1>5, <1>6, <1>7

LEMMA HoldStep ==
    ASSUME NoRestart, TypeInv, VoteInv, MatchInv, HoldInv, [Next]_vars
    PROVE  HoldInv'
<1>1. TypeInv' /\ ElectionSafety /\ ElectedInv /\ MatchInv'
  BY TypeStep, MatchStep, OneWinner DEF MatchInv
<1>2. LogMatching'
  <2>1. TypeInv' /\ OneLink' => LogMatching'
    BY LinksMatch, PTL
  <2> QED
    BY <1>1, <2>1 DEF MatchInv
<1>3. ASSUME UNCHANGED <<termVars, log, leaderVars, elections>>,
             appendReqs' \subseteq appendReqs, appendReps' \subseteq appendReps
      PROVE  HoldInv'
  <2>1. \A i \in Node : currentTerm[i] <= currentTerm'[i]
    BY <1>3, NumbersType DEF Numbers, termVars
  <2> QED
    BY <1>1, <1>3, <2>1, HoldQuiet DEF termVars, leaderVars
<1>4. ASSUME NEW i \in Node, TimerFires(i) \/ Stop(i)
      PROVE  HoldInv'
  BY <1>3, <1>4 DEF TimerFires, Stop, logVars, netVars
<1>5. CASE RPCFails
  <2>1. appendReqs' \subseteq appendReqs /\ appendReps' \subseteq appendReps
    BY <1>5 DEF RPCFails
  <2> QED
    BY <1>3, <1>5, <2>1 DEF RPCFails, logVars
<1>6. ASSUME NEW i \in Node, Restart(i)
      PROVE  HoldInv'
  BY <1>6 DEF Restart, NoRestart
<1>7. CASE UNCHANGED vars
  BY <1>3, <1>7 DEF vars, logVars, netVars
<1> QED
  BY <1>1, <1>2, <1>4, <1>5, <1>6, <1>7, HoldStartElection, HoldRequestVote, HoldVoteReply,
     HoldSendHeartbeats, HoldAppendEntries, HoldAppendReply, HoldStart, RaftAssumption
  DEF Next

LEMMA HoldMatch == TypeInv /\ HoldInv => MatchIsHeld
<1> SUFFICES ASSUME TypeInv, HoldInv, NEW i \in Node, NEW j \in Peers(i),
                    state[i] = Leader, currentTerm[j] = currentTerm[i]
             PROVE  LET n == matchIndex[i][j]
                    IN  /\ n <= Len(log[i]) /\ n <= Len(log[j])
                        /\ SubSeq(log[j], 1, n) = SubSeq(log[i], 1, n)
  BY DEF MatchIsHeld
<1> DEFINE n == matchIndex[i][j]
<1>1. j \in Node /\ i # j /\ n \in Nat
  BY NumbersType DEF Peers, Numbers
<1>2. /\ n <= Len(log[i]) /\ n <= Len(log[j])
      /\ \A q \in 1 .. n : log[j][q] = log[i][q]
  BY <1>1 DEF HoldInv, Held
<1>3. log[i] \in Seq(Entry) /\ log[j] \in Seq(Entry)
  BY <1>1 DEF TypeInv, TypeOK
<1> HIDE DEF n
<1>4. SubSeq(log[j], 1, n) = SubSeq(log[i], 1, n)
  <2>1. SubSeq(log[j], 1, n) = [q \in 1 .. n |-> log[j][q]]
    BY <1>1, <1>2, <1>3
  <2>2. SubSeq(log[i], 1, n) = [q \in 1 .. n |-> log[i][q]]
    BY <1>1, <1>2, <1>3
  <2> QED
    BY <1>2, <2>1, <2>2
<1> QED
  BY <1>2, <1>4 DEF n

\* Without restarts what a leader counts on is true: a peer of its own term
\* holds the leader's log up to the index the leader has matched, however
\* late the answers it learnt that from and the requests that follow are.
THEOREM MatchCorrect == ASSUME NoRestart PROVE Spec => []MatchIsHeld
<1>1. TypeInv /\ VoteInv /\ MatchInv /\ HoldInv /\ [Next]_vars
      => TypeInv' /\ VoteInv' /\ MatchInv' /\ HoldInv'
  BY TypeStep, VoteStep, MatchStep, HoldStep
<1> QED
  BY <1>1, TypeInit, VoteInit, MatchInit, HoldInit, HoldMatch, PTL DEF Spec

-----------------------------------------------------------------------------
(* What a step can do to logs, to requests and to votes.                  *)

LEMMA LogEntries ==
    ASSUME TypeInv, NEW i \in Node
    PROVE  /\ Len(log[i]) \in Nat /\ currentTerm[i] \in Nat
           /\ \A q \in 1 .. Len(log[i]) : /\ log[i][q] \in Entry
                                         /\ log[i][q].term \in Nat /\ log[i][q].index = q
<1>1. IsLog(log[i]) /\ log[i] \in Seq(Entry) /\ currentTerm[i] \in Nat
  BY LogsAreLogs DEF IsLog, TypeInv, TypeOK
<1>2. ASSUME NEW q \in 1 .. Len(log[i])
      PROVE  log[i][q] \in Entry /\ log[i][q].term \in Nat /\ log[i][q].index = q
  <2>1. log[i][q] \in Entry
    BY <1>1
  <2> QED
    BY <1>1, <2>1 DEF Entry, IsLog
<1> QED
  BY <1>1, <1>2

\* What contains a majority is one.
LEMMA MajorityGrows ==
    ASSUME NEW S \in SUBSET Node, NEW R \in SUBSET Node, S \subseteq R, IsMajority(S)
    PROVE  IsMajority(R)
<1>1. IsFiniteSet(Node)
  BY RaftAssumption
<1>2. IsFiniteSet(R) /\ Cardinality(R) \in Nat /\ Cardinality(S) \in Nat
      /\ Cardinality(Node) \in Nat
  BY <1>1, FS_Subset, FS_CardinalityType
<1>3. Cardinality(S) <= Cardinality(R)
  BY <1>2, FS_Subset
<1> QED
  BY <1>2, <1>3 DEF IsMajority

LEMMA LogStep ==
    ASSUME NoRestart, TypeInv, [Next]_vars
    PROVE  \/ log' = log
           \/ \E i \in Node, c \in Command : Start(i, c)
           \/ \E m \in appendReqs : AppendEntries(m)
<1>1. ASSUME NEW i \in Node, Restart(i)
      PROVE  FALSE
  BY <1>1 DEF Restart, NoRestart
<1>2. ASSUME \/ \E i \in Node : \/ TimerFires(i)
                                \/ \E S \in SUBSET Peers(i) : \/ StartElection(i, S)
                                                              \/ SendHeartbeats(i, S)
             \/ \E m \in voteReqs : RequestVote(m)
             \/ \E m \in voteReps : VoteReply(m)
             \/ \E m \in appendReps : AppendReply(m)
             \/ \E i \in Killable : Stop(i)
             \/ RPCFails
             \/ UNCHANGED vars
      PROVE  log' = log
  BY <1>2 DEF TimerFires, StartElection, SendHeartbeats, RequestVote, VoteReply, AppendReply,
              Stop, RPCFails, vars, logVars
<1> QED
  BY <1>1, <1>2 DEF Next

LEMMA RequestStep ==
    ASSUME NoRestart, TypeInv, [Next]_vars
    PROVE  \/ appendReqs' \subseteq appendReqs
           \/ \E i \in Node : \E S \in SUBSET Peers(i) : SendHeartbeats(i, S)
<1>1. ASSUME NEW i \in Node, Restart(i)
      PROVE  FALSE
  BY <1>1 DEF Restart, NoRestart
<1>2. ASSUME \/ \E i \in Node : \/ TimerFires(i)
                                \/ \E S \in SUBSET Peers(i) : StartElection(i, S)
                                \/ \E c \in Command : Start(i, c)
             \/ \E m \in voteReqs : RequestVote(m)
             \/ \E m \in voteReps : VoteReply(m)
             \/ \E m \in appendReqs : AppendEntries(m)
             \/ \E m \in appendReps : AppendReply(m)
             \/ \E i \in Killable : Stop(i)
             \/ RPCFails
             \/ UNCHANGED vars
      PROVE  appendReqs' \subseteq appendReqs
  BY <1>2 DEF TimerFires, StartElection, Start, RequestVote, VoteReply, AppendEntries,
              AppendReply, Stop, RPCFails, vars, netVars
<1> QED
  BY <1>1, <1>2 DEF Next

\* Terms are not taken back.
LEMMA TermsGrow ==
    ASSUME NoRestart, TypeInv, [Next]_vars, NEW i \in Node
    PROVE  currentTerm[i] <= currentTerm'[i]
BY KeepsVoteStep DEF KeepsVote

-----------------------------------------------------------------------------
(* Vote requests.                                                          *)

\* A vote request names the last entry of its candidate for as long as it is
\* one; calls are of terms that the caller has reached.
VoteCallInv ==
    /\ \A m \in voteReqs :
          /\ m.term <= currentTerm[m.src]
          /\ state[m.src] = Candidate /\ currentTerm[m.src] = m.term =>
                /\ m.lastLogIndex = Len(log[m.src])
                /\ m.lastLogTerm = TermAt(log[m.src], Len(log[m.src]))
    /\ \A m \in voteReps : m.reqTerm <= currentTerm[m.dst]

LEMMA VoteCallInit == Init => VoteCallInv
BY DEF Init, VoteCallInv

\* Steps without new calls and new candidates.
LEMMA VoteCallKept ==
    ASSUME VoteCallInv, TypeInv, TypeInv',
           voteReqs' \subseteq voteReqs, voteReps' \subseteq voteReps,
           \A c \in Node : /\ currentTerm[c] <= currentTerm'[c]
                           /\ state'[c] = Candidate =>
                                 /\ state[c] = Candidate /\ log'[c] = log[c]
                                 /\ currentTerm'[c] = currentTerm[c]
    PROVE  VoteCallInv'
<1>1. ASSUME NEW m \in voteReqs'
      PROVE  /\ m.term <= currentTerm'[m.src]
             /\ state'[m.src] = Candidate /\ currentTerm'[m.src] = m.term =>
                   /\ m.lastLogIndex = Len(log'[m.src])
                   /\ m.lastLogTerm = TermAt(log'[m.src], Len(log'[m.src]))
  <2>1. m \in voteReqs /\ m.src \in Node /\ m.term \in Nat
    BY DEF TypeInv, TypeOK, VoteReq
  <2>2. currentTerm[m.src] \in Nat /\ currentTerm'[m.src] \in Nat
    BY <2>1 DEF TypeInv, TypeOK
  <2> QED
    BY <2>1, <2>2 DEF VoteCallInv
<1>2. ASSUME NEW m \in voteReps'
      PROVE  m.reqTerm <= currentTerm'[m.dst]
  <2>1. m \in voteReps /\ m.dst \in Node /\ m.reqTerm \in Nat
    BY DEF TypeInv, TypeOK, VoteRep
  <2>2. currentTerm[m.dst] \in Nat /\ currentTerm'[m.dst] \in Nat
    BY <2>1 DEF TypeInv, TypeOK
  <2> QED
    BY <2>1, <2>2 DEF VoteCallInv
<1> QED
  BY <1>1, <1>2 DEF VoteCallInv

LEMMA VoteCallStartElection ==
    ASSUME VoteCallInv, TypeInv, TypeInv',
           NEW i \in Node, NEW S \in SUBSET Peers(i), StartElection(i, S)
    PROVE  VoteCallInv'
<1>1. /\ currentTerm' = [currentTerm EXCEPT ![i] = @ + 1]
      /\ state' = [state EXCEPT ![i] = Candidate]
      /\ UNCHANGED <<log, voteReps>>
  BY DEF StartElection, logVars
<1>2. /\ currentTerm'[i] = currentTerm[i] + 1 /\ currentTerm[i] \in Nat
      /\ \A c \in Node : c # i => currentTerm'[c] = currentTerm[c] /\ state'[c] = state[c]
      /\ \A c \in Node : currentTerm[c] \in Nat
  BY <1>1 DEF TypeInv, TypeOK
<1>3. LastIndex(log[i]) = Len(log[i]) /\ LastTerm(log[i]) = TermAt(log[i], Len(log[i]))
  BY LogsAreLogs, LastIndexIsLength DEF LastTerm
<1>4. ASSUME NEW m \in voteReqs'
      PROVE  /\ m.term <= currentTerm'[m.src]
             /\ state'[m.src] = Candidate /\ currentTerm'[m.src] = m.term =>
                   /\ m.lastLogIndex = Len(log'[m.src])
                   /\ m.lastLogTerm = TermAt(log'[m.src], Len(log'[m.src]))
  <2>1. CASE m \in voteReqs
    <3>1. m.src \in Node /\ m.term \in Nat
      BY <2>1 DEF TypeInv, TypeOK, VoteReq
    <3> QED
      BY <1>1, <1>2, <2>1, <3>1 DEF VoteCallInv
  <2>2. CASE m \notin voteReqs
    <3>1. /\ m.src = i /\ m.term = currentTerm[i] + 1
          /\ m.lastLogIndex = LastIndex(log[i]) /\ m.lastLogTerm = LastTerm(log[i])
      BY <2>2 DEF StartElection
    <3> QED
      BY <1>1, <1>2, <1>3, <3>1
  <2> QED
    BY <2>1, <2>2
<1>5. ASSUME NEW m \in voteReps'
      PROVE  m.reqTerm <= currentTerm'[m.dst]
  <2>1. m \in voteReps /\ m.dst \in Node /\ m.reqTerm \in Nat
    BY <1>1 DEF TypeInv, TypeOK, VoteRep
  <2> QED
    BY <1>2, <2>1 DEF VoteCallInv
<1> QED
  BY <1>4, <1>5 DEF VoteCallInv

LEMMA VoteCallRequestVote ==
    ASSUME VoteCallInv, TypeInv, TypeInv', NEW m \in voteReqs, RequestVote(m)
    PROVE  VoteCallInv'
<1>1. m.src \in Node /\ m.dst \in Node /\ m.term \in Nat /\ m.term <= currentTerm[m.src]
  BY DEF TypeInv, TypeOK, VoteReq, VoteCallInv
<1>2. \A c \in Node : /\ currentTerm[c] \in Nat /\ currentTerm'[c] \in Nat
                      /\ currentTerm[c] <= currentTerm'[c]
                      /\ state'[c] = Candidate =>
                            /\ state[c] = Candidate /\ currentTerm'[c] = currentTerm[c]
                            /\ log'[c] = log[c]
  <2>1. log' = log
    BY DEF RequestVote, logVars
  <2>2. \A c \in Node :
           \/ currentTerm'[c] > currentTerm[c] /\ state'[c] = Follower
           \/ currentTerm'[c] = currentTerm[c] /\ state'[c] = state[c]
    BY <1>1 DEF TypeInv, TypeOK, RequestVote
  <2>3. \A c \in Node : currentTerm[c] \in Nat /\ currentTerm'[c] \in Nat
    BY DEF TypeInv, TypeOK
  <2> QED
    BY <2>1, <2>2, <2>3 DEF Candidate, Follower
<1>3. voteReqs' \subseteq voteReqs
  BY DEF RequestVote
<1>4. ASSUME NEW r \in voteReqs'
      PROVE  /\ r.term <= currentTerm'[r.src]
             /\ state'[r.src] = Candidate /\ currentTerm'[r.src] = r.term =>
                   /\ r.lastLogIndex = Len(log'[r.src])
                   /\ r.lastLogTerm = TermAt(log'[r.src], Len(log'[r.src]))
  <2>1. r \in voteReqs /\ r.src \in Node /\ r.term \in Nat
    BY <1>3 DEF TypeInv, TypeOK, VoteReq
  <2> QED
    BY <1>2, <2>1 DEF VoteCallInv
<1>5. ASSUME NEW r \in voteReps'
      PROVE  r.reqTerm <= currentTerm'[r.dst]
  <2>1. r \in voteReps \/ (r.reqTerm = m.term /\ r.dst = m.src)
    BY DEF RequestVote
  <2>2. r \in voteReps => r.dst \in Node /\ r.reqTerm \in Nat
    BY DEF TypeInv, TypeOK, VoteRep
  <2> QED
    BY <1>1, <1>2, <2>1, <2>2 DEF VoteCallInv
<1> QED
  BY <1>4, <1>5 DEF VoteCallInv

\* Nobody becomes a candidate but by startElection, and no log changes while
\* its node is one.
LEMMA CandidateStep ==
    ASSUME NoRestart, TypeInv, TypeInv', [Next]_vars, NEW c \in Node, state'[c] = Candidate,
           ~ \E i \in Node : \E S \in SUBSET Peers(i) : StartElection(i, S)
    PROVE  state[c] = Candidate /\ currentTerm'[c] = currentTerm[c] /\ log'[c] = log[c]
<1>1. ASSUME NEW m \in voteReqs, RequestVote(m)
      PROVE  state[c] = Candidate /\ currentTerm'[c] = currentTerm[c] /\ log'[c] = log[c]
  BY <1>1 DEF RequestVote, logVars, TypeInv, TypeOK, VoteReq, Candidate, Follower
<1>2. ASSUME NEW m \in voteReps, VoteReply(m)
      PROVE  state[c] = Candidate /\ currentTerm'[c] = currentTerm[c] /\ log'[c] = log[c]
  <2>1. m.dst \in Node /\ log' = log
    BY <1>2 DEF VoteReply, logVars, TypeInv, TypeOK, VoteRep
  <2>2. CASE StepDown(m.dst, m.term)
    BY <2>1, <2>2 DEF StepDown, TypeInv, TypeOK, Candidate, Follower
  <2>3. CASE BecomeLeader(m.dst, votes[m.dst] \cup {m.src}) /\ UNCHANGED currentTerm
    BY <2>1, <2>3 DEF BecomeLeader, TypeInv, TypeOK, Candidate, Leader
  <2>4. CASE UNCHANGED termVars
    BY <2>1, <2>4 DEF termVars
  <2> QED
    BY <1>2, <2>2, <2>3, <2>4 DEF VoteReply
<1>3. ASSUME NEW m \in appendReqs, AppendEntries(m)
      PROVE  state[c] = Candidate /\ currentTerm'[c] = currentTerm[c] /\ log'[c] = log[c]
  <2>1. m.dst \in Node
    BY DEF TypeInv, TypeOK, AppendReq
  <2>2. CASE UNCHANGED <<termVars, logVars>>
    BY <2>2 DEF termVars, logVars
  <2>3. CASE Follow(m.dst, m.src, m.term)
    <3>1. c # m.dst /\ state[c] = Candidate /\ currentTerm'[c] = currentTerm[c]
      BY <2>1, <2>3 DEF Follow, TypeInv, TypeOK, Candidate, Follower
    <3> QED
      BY <1>3, <2>1, <3>1 DEF AppendEntries, logVars, TypeInv, TypeOK
  <2> QED
    BY <1>3, <2>2, <2>3 DEF AppendEntries
<1>4. ASSUME NEW m \in appendReps, AppendReply(m)
      PROVE  state[c] = Candidate /\ currentTerm'[c] = currentTerm[c] /\ log'[c] = log[c]
  <2>1. m.dst \in Node /\ log' = log
    BY <1>4 DEF AppendReply, logVars, TypeInv, TypeOK, AppendRep
  <2>2. CASE StepDown(m.dst, m.term)
    BY <2>1, <2>2 DEF StepDown, TypeInv, TypeOK, Candidate, Follower
  <2>3. CASE UNCHANGED termVars
    BY <2>1, <2>3 DEF termVars
  <2> QED
    BY <1>4, <2>2, <2>3 DEF AppendReply
<1>5. ASSUME NEW i \in Node, NEW d \in Command, Start(i, d)
      PROVE  state[c] = Candidate /\ currentTerm'[c] = currentTerm[c] /\ log'[c] = log[c]
  BY <1>5 DEF Start, termVars, TypeInv, TypeOK, Candidate, Leader
<1>6. ASSUME NEW i \in Node, Restart(i)
      PROVE  FALSE
  BY <1>6 DEF Restart, NoRestart
<1>7. ASSUME \/ \E i \in Node : \/ TimerFires(i)
                                \/ \E S \in SUBSET Peers(i) : SendHeartbeats(i, S)
             \/ \E i \in Killable : Stop(i)
             \/ RPCFails
             \/ UNCHANGED vars
      PROVE  state[c] = Candidate /\ currentTerm'[c] = currentTerm[c] /\ log'[c] = log[c]
  BY <1>7 DEF TimerFires, SendHeartbeats, Stop, RPCFails, vars, logVars, termVars
<1> QED
  BY <1>1, <1>2, <1>3, <1>4, <1>5, <1>6, <1>7 DEF Next

\* New vote calls come from startElection and RequestVote.
LEMMA VoteCallsStep ==
    ASSUME NoRestart, TypeInv, [Next]_vars
    PROVE  \/ voteReqs' \subseteq voteReqs /\ voteReps' \subseteq voteReps
           \/ \E i \in Node : \E S \in SUBSET Peers(i) : StartElection(i, S)
           \/ \E m \in voteReqs : RequestVote(m)
<1>1. ASSUME NEW i \in Node, Restart(i)
      PROVE  FALSE
  BY <1>1 DEF Restart, NoRestart
<1>2. ASSUME \/ \E i \in Node : \/ TimerFires(i)
                                \/ \E S \in SUBSET Peers(i) : SendHeartbeats(i, S)
                                \/ \E c \in Command : Start(i, c)
             \/ \E m \in voteReps : VoteReply(m)
             \/ \E m \in appendReqs : AppendEntries(m)
             \/ \E m \in appendReps : AppendReply(m)
             \/ \E i \in Killable : Stop(i)
             \/ RPCFails
             \/ UNCHANGED vars
      PROVE  voteReqs' \subseteq voteReqs /\ voteReps' \subseteq voteReps
  BY <1>2 DEF TimerFires, SendHeartbeats, Start, VoteReply, AppendEntries, AppendReply,
              Stop, RPCFails, vars, netVars
<1> QED
  BY <1>1, <1>2 DEF Next

LEMMA VoteCallStep ==
    ASSUME NoRestart, TypeInv, TypeInv', VoteCallInv, [Next]_vars
    PROVE  VoteCallInv'
<1>1. CASE /\ voteReqs' \subseteq voteReqs /\ voteReps' \subseteq voteReps
           /\ ~ \E i \in Node : \E S \in SUBSET Peers(i) : StartElection(i, S)
  <2>1. \A c \in Node : /\ currentTerm[c] <= currentTerm'[c]
                        /\ state'[c] = Candidate =>
                              /\ state[c] = Candidate /\ log'[c] = log[c]
                              /\ currentTerm'[c] = currentTerm[c]
    BY <1>1, TermsGrow, CandidateStep
  <2> QED
    BY <1>1, <2>1, VoteCallKept
<1> QED
  BY <1>1, VoteCallStartElection, VoteCallRequestVote, VoteCallsStep
-----------------------------------------------------------------------------
(* What is committed: histories.                                           *)

\* The logs of the leaders, by term.
Histories == [Nat -> Seq(Entry)]

\* Two logs have the same first n entries.
Share(l, h, n) ==
    n <= Len(l) /\ n <= Len(h) /\ \A q \in 1 .. n : l[q] = h[q]

\* Every entry of l is of a term up to t, and the leader of its term had what
\* l has, up to that entry.
FromLeaders(L, l, t) ==
    \A q \in 1 .. Len(l) : l[q].term <= t /\ Share(l, L[l[q].term], q)

\* A request is a part of the log h.
SliceOf(m, h) ==
    /\ m.prevLogIndex + Len(m.entries) <= Len(h)
    /\ m.prevLogIndex > 0 => m.prevLogTerm = h[m.prevLogIndex].term
    /\ \A k \in 1 .. Len(m.entries) : m.entries[k] = h[m.prevLogIndex + k]

WonTerm(t) == \E e \in elections : e.term = t

\* L[t] is the log of the leader of term t, as far as it got in that term.
History(L) ==
    /\ \A i \in Node : state[i] = Leader => L[currentTerm[i]] = log[i]
    /\ \A t \in Nat : L[t] # <<>> => WonTerm(t)
    /\ \A t \in Nat : FromLeaders(L, L[t], t)
    /\ \A p \in Node : FromLeaders(L, log[p], currentTerm[p])
    /\ \A m \in appendReqs : SliceOf(m, L[m.term])

\* A later history: the logs of leaders only grow.
Extends(L, N) == \A t \in Nat : Share(N[t], L[t], Len(L[t]))

\* A log is not behind one that ends with entry k of term s.
LogNotBehind(l, k, s) ==
    \/ TermAt(l, Len(l)) > s
    \/ TermAt(l, Len(l)) = s /\ Len(l) >= k

-----------------------------------------------------------------------------
(* Logs that come from leaders.                                            *)

LEMMA SeqEntries ==
    ASSUME NEW l \in Seq(Entry)
    PROVE  /\ Len(l) \in Nat
           /\ \A q \in 1 .. Len(l) : l[q] \in Entry /\ l[q].term \in Nat /\ l[q].index \in Nat
<1>1. \A q \in 1 .. Len(l) : l[q] \in Entry
  OBVIOUS
<1> QED
  BY <1>1 DEF Entry

LEMMA HistoryLogs ==
    ASSUME NEW L \in Histories, NEW t \in Nat
    PROVE  /\ L[t] \in Seq(Entry) /\ Len(L[t]) \in Nat
           /\ \A q \in 1 .. Len(L[t]) : L[t][q] \in Entry /\ L[t][q].term \in Nat
<1>1. L[t] \in Seq(Entry)
  BY DEF Histories
<1> QED
  BY <1>1, SeqEntries

\* Logs that share n entries with a third share the smaller number with each
\* other.
LEMMA ShareBoth ==
    ASSUME NEW l, NEW h, NEW g, NEW n \in Nat, NEW m \in Nat, m <= n,
           Share(l, h, n), Share(g, h, m), Len(l) \in Nat, Len(h) \in Nat, Len(g) \in Nat
    PROVE  Share(l, g, m)
<1>1. \A q \in 1 .. m : q \in 1 .. n
  OBVIOUS
<1> QED
  BY <1>1 DEF Share

LEMMA ShareLess ==
    ASSUME NEW l, NEW h, NEW n \in Nat, NEW m \in Nat, m <= n, Share(l, h, n),
           Len(l) \in Nat, Len(h) \in Nat
    PROVE  Share(l, h, m)
<1>1. \A q \in 1 .. m : q \in 1 .. n
  OBVIOUS
<1> QED
  BY <1>1 DEF Share

\* Terms do not fall along a log.
LEMMA TermsRise ==
    ASSUME NEW L \in Histories, \A t \in Nat : FromLeaders(L, L[t], t),
           NEW l \in Seq(Entry), NEW u \in Nat, FromLeaders(L, l, u),
           NEW q \in 1 .. Len(l), NEW p \in 1 .. q
    PROVE  p \in 1 .. Len(l) /\ l[p].term <= l[q].term
<1> DEFINE t == l[q].term
<1>1. Len(l) \in Nat /\ q \in Nat /\ p \in 1 .. Len(l) /\ t \in Nat
  BY SeqEntries
<1>2. Share(l, L[t], q) /\ Len(L[t]) \in Nat
  BY <1>1, HistoryLogs DEF FromLeaders
<1>3. p \in 1 .. Len(L[t]) /\ l[p] = L[t][p]
  BY <1>1, <1>2 DEF Share
<1>4. L[t][p].term <= t
  BY <1>1, <1>3 DEF FromLeaders
<1> QED
  BY <1>1, <1>3, <1>4

\* Two logs with an entry of the same term at q share everything up to q.
LEMMA SameTermShare ==
    ASSUME NEW L \in Histories,
           NEW l \in Seq(Entry), NEW u \in Nat, FromLeaders(L, l, u),
           NEW h \in Seq(Entry), NEW v \in Nat, FromLeaders(L, h, v),
           NEW q \in 1 .. Len(l), q <= Len(h), l[q].term = h[q].term
    PROVE  Share(l, h, q)
<1>1. /\ q \in 1 .. Len(h) /\ q \in Nat /\ l[q].term \in Nat
      /\ Len(l) \in Nat /\ Len(h) \in Nat
  BY SeqEntries
<1>2. Share(l, L[l[q].term], q) /\ Share(h, L[l[q].term], q) /\ Len(L[l[q].term]) \in Nat
  BY <1>1, HistoryLogs DEF FromLeaders
<1> QED
  BY <1>1, <1>2, ShareBoth

\* A log from leaders that grew since is one still.
LEMMA FromLater ==
    ASSUME NEW L \in Histories, NEW N \in Histories, Extends(L, N),
           NEW l \in Seq(Entry), NEW u \in Nat, FromLeaders(L, l, u),
           NEW v \in Nat, u <= v
    PROVE  FromLeaders(N, l, v)
<1> SUFFICES ASSUME NEW q \in 1 .. Len(l)
             PROVE  l[q].term <= v /\ Share(l, N[l[q].term], q)
  BY DEF FromLeaders
<1> DEFINE t == l[q].term
<1>1. t \in Nat /\ Len(l) \in Nat /\ q \in Nat /\ t <= u /\ Share(l, L[t], q)
  BY SeqEntries DEF FromLeaders
<1>2. Len(L[t]) \in Nat /\ Len(N[t]) \in Nat /\ Share(N[t], L[t], Len(L[t]))
  BY <1>1, HistoryLogs DEF Extends
<1> QED
  BY <1>1, <1>2 DEF Share

\* A log that holds what the leader of term T has up to entry k is not behind
\* it.
LEMMA ShareNotBehind ==
    ASSUME NEW L \in Histories, \A t \in Nat : FromLeaders(L, L[t], t),
           NEW l \in Seq(Entry), NEW u \in Nat, FromLeaders(L, l, u),
           NEW T \in Nat, NEW k \in 1 .. Len(L[T]), Share(l, L[T], k)
    PROVE  LogNotBehind(l, k, L[T][k].term)
<1>1. /\ Len(l) \in Nat /\ Len(L[T]) \in Nat /\ k \in Nat /\ k <= Len(l)
      /\ l[k] = L[T][k] /\ k \in 1 .. Len(l) /\ Len(l) \in 1 .. Len(l)
  BY SeqEntries, HistoryLogs DEF Share
<1>2. l[k].term <= l[Len(l)].term
  BY <1>1, TermsRise
<1>3. TermAt(l, Len(l)) = l[Len(l)].term /\ l[k].term \in Nat /\ l[Len(l)].term \in Nat
  BY <1>1, SeqEntries DEF TermAt, Has
<1> QED
  BY <1>1, <1>2, <1>3 DEF LogNotBehind

\* A log that is not behind entry k of the leader of term T has it, if every
\* leader since T has and no term lies between that of the entry and T.
LEMMA NotBehindShare ==
    ASSUME NEW L \in Histories, \A t \in Nat : FromLeaders(L, L[t], t),
           NEW l \in Seq(Entry), NEW u \in Nat, FromLeaders(L, l, u),
           NEW T \in Nat, NEW k \in 1 .. Len(L[T]), L[T][k].term >= T - 1,
           \A U \in Nat : U > T /\ L[U] # <<>> => Share(L[U], L[T], k),
           LogNotBehind(l, k, L[T][k].term)
    PROVE  Share(l, L[T], k)
<1> DEFINE s == L[T][k].term
           n == Len(l)
           t == l[n].term
<1>1. /\ n \in Nat /\ Len(L[T]) \in Nat /\ k \in Nat /\ k >= 1 /\ s \in Nat /\ s <= T
      /\ Share(L[T], L[s], k)
  BY SeqEntries, HistoryLogs DEF FromLeaders
<1>2. n >= 1
  BY <1>1 DEF LogNotBehind, TermAt, Has
<1>3. /\ n \in 1 .. n /\ t \in Nat /\ TermAt(l, n) = t /\ Share(l, L[t], n)
      /\ Len(L[t]) \in Nat /\ Len(L[s]) \in Nat
  BY <1>1, <1>2, SeqEntries, HistoryLogs DEF TermAt, Has, FromLeaders
<1>4. t > s \/ (t = s /\ n >= k)
  BY <1>3 DEF LogNotBehind
\* Entries of the terms after s come after k in the log of T.
<1>5. ASSUME t > s, Share(L[t], L[T], k)
      PROVE  n >= k
  <2> SUFFICES ASSUME n < k PROVE FALSE
    BY <1>1
  <2>1. n \in 1 .. k /\ n \in 1 .. Len(L[t]) /\ l[n] = L[T][n]
    BY <1>1, <1>2, <1>3, <1>5 DEF Share
  <2>2. L[T][n].term <= L[T][k].term
    BY <2>1, HistoryLogs, TermsRise
  <2> QED
    BY <1>1, <1>3, <1>5, <2>1, <2>2
<1>6. CASE t = s
  <2>1. Share(l, L[s], k)
    BY <1>1, <1>3, <1>4, <1>6, ShareLess
  <2> QED
    BY <1>1, <1>3, <2>1, ShareBoth
<1>7. CASE t > s /\ t = T
  <2>1. Share(L[t], L[T], k)
    BY <1>1, <1>7 DEF Share
  <2> QED
    BY <1>1, <1>3, <1>5, <1>7, <2>1, ShareLess
<1>8. CASE t > T
  <2>1. L[t] # <<>>
    BY <1>2, <1>3 DEF Share
  <2>2. Share(L[t], L[T], k) /\ t > s
    BY <1>1, <1>3, <1>8, <2>1
  <2>3. n >= k
    BY <1>5, <2>2
  <2> QED
    BY <1>1, <1>3, <2>2, <2>3 DEF Share
<1> QED
  BY <1>1, <1>3, <1>4, <1>6, <1>7, <1>8

\* What AppendEntries makes of a log that matches the leader's log h: it has
\* what h has as far as the request goes, and where it had what h has before.
LEMMA MergeShares ==
    ASSUME NEW l, IsLog(l), NEW entries \in Seq(Entry),
           NEW prev \in Nat, NEW prevTerm \in Nat, PrevMatches(l, prev, prevTerm),
           \A k \in 1 .. Len(entries) : entries[k].index = prev + k,
           NEW h \in Seq(Entry), prev + Len(entries) <= Len(h),
           prev > 0 => prevTerm = h[prev].term,
           \A k \in 1 .. Len(entries) : entries[k] = h[prev + k],
           \A q \in 1 .. Len(l) : q <= Len(h) /\ l[q].term = h[q].term => Share(l, h, q)
    PROVE  LET merged == MergeEntries(l, entries)
               last   == prev + Len(entries)
           IN  /\ Share(merged, h, last)
               /\ merged = l \/ Len(merged) = last
               /\ \A n \in Nat : Share(l, h, n) => Share(merged, h, n)
<1> DEFINE merged == MergeEntries(l, entries)
           last   == prev + Len(entries)
<1>1. Len(l) \in Nat /\ Len(entries) \in Nat /\ prev <= Len(l) /\ Len(h) \in Nat /\ last \in Nat
  BY LastIndexIsLength DEF IsLog, PrevMatches
<1>2. Share(l, h, prev)
  <2>1. CASE prev = 0
    BY <1>1, <2>1 DEF Share
  <2>2. CASE prev # 0
    <3>1. prev \in 1 .. Len(l) /\ prev <= Len(h) /\ l[prev].term = h[prev].term
      BY <1>1, <2>2 DEF PrevMatches
    <3> QED
      BY <3>1
  <2> QED
    BY <2>1, <2>2
<1>3. Share(merged, h, last) /\ (merged = l \/ Len(merged) = last)
  <2>1. CASE entries = <<>>
    <3>1. merged = l /\ last = prev
      BY <1>1, <2>1 DEF MergeEntries
    <3> QED
      BY <1>2, <3>1
  <2>2. CASE entries # <<>>
    <3> DEFINE first == entries[1].index
               end   == first + Len(entries) - 1
               f     == [q \in 1 .. end |-> IF Agrees(l, entries, q)
                                            THEN l[q] ELSE entries[q - first + 1]]
    <3>1. Len(entries) >= 1 /\ first = prev + 1 /\ end = last
      BY <1>1, <2>2
    <3>2. ASSUME NEW q \in first .. last, Agrees(l, entries, q)
          PROVE  q \in 1 .. Len(l) /\ Share(l, h, q)
      <4>1. /\ q \in first .. q /\ q - first + 1 \in 1 .. Len(entries)
            /\ prev + (q - first + 1) = q
        BY <1>1, <3>1
      <4>2. Has(l, q) /\ l[q].term = entries[q - first + 1].term
        BY <3>2, <4>1 DEF Agrees
      <4>3. entries[q - first + 1] = h[q]
        BY <4>1
      <4>4. q \in 1 .. Len(l) /\ q <= Len(h)
        BY <1>1, <3>1, <4>2 DEF Has
      <4> QED
        BY <4>2, <4>3, <4>4
    <3>3. CASE Agrees(l, entries, end)
      <4>1. merged = l
        BY <2>2, <3>3 DEF MergeEntries
      <4>2. last \in first .. last
        BY <1>1, <3>1
      <4> QED
        BY <3>1, <3>2, <3>3, <4>1, <4>2
    <3>4. CASE ~Agrees(l, entries, end)
      <4>1. merged = f
        BY <2>2, <3>4 DEF MergeEntries
      <4>2. ASSUME NEW q \in 1 .. last
            PROVE  f[q] = h[q]
        <5>1. CASE Agrees(l, entries, q)
          <6>1. f[q] = l[q]
            BY <3>1, <5>1
          <6>2. CASE q <= prev
            BY <1>1, <1>2, <6>1, <6>2 DEF Share
          <6>3. CASE q > prev
            <7>1. q \in first .. last
              BY <1>1, <3>1, <6>3
            <7>2. Share(l, h, q)
              BY <3>2, <5>1, <7>1
            <7> QED
              BY <1>1, <6>1, <7>2 DEF Share
          <6> QED
            BY <1>1, <6>2, <6>3
        <5>2. CASE ~Agrees(l, entries, q)
          <6>1. f[q] = entries[q - first + 1]
            BY <3>1, <5>2
          <6>2. q >= first
            BY <1>1, <3>1, <5>2 DEF Agrees
          <6>3. q - first + 1 \in 1 .. Len(entries) /\ prev + (q - first + 1) = q
            <7>1. q \in Nat /\ q <= prev + Len(entries) /\ q >= prev + 1
              BY <1>1, <3>1, <6>2
            <7>2. q - first + 1 = q - prev
              BY <1>1, <3>1, <7>1
            <7> QED
              BY <1>1, <7>1, <7>2
          <6> QED
            BY <6>1, <6>3
        <5> QED
          BY <5>1, <5>2
      <4>3. Len(f) = last
        BY <1>1, <3>1
      <4> HIDE DEF f, merged
      <4> QED
        BY <1>1, <4>1, <4>2, <4>3 DEF Share
    <3> QED
      BY <3>3, <3>4
  <2> QED
    BY <2>1, <2>2
<1>4. ASSUME NEW n \in Nat, Share(l, h, n)
      PROVE  Share(merged, h, n)
  <2>1. PartOf(entries, prev, h) /\ n <= Len(l) /\ SameUpTo(l, h, n) /\ n <= Len(h)
    BY <1>4 DEF PartOf, SameUpTo, Share
  <2>2. n <= Len(merged) /\ SameUpTo(merged, l, n)
    BY <2>1, MergeKeeps
  <2> HIDE DEF merged
  <2> QED
    BY <1>4, <2>1, <2>2 DEF SameUpTo, Share
<1> QED
  BY <1>3, <1>4

-----------------------------------------------------------------------------
(* What a step can do to leaders, to votes and to acknowledgements.        *)

\* Node p has told i that it holds the log of i up to k, in the term of i.
Acked(i, k, p) ==
    \/ p = i
    \/ matchIndex[i][p] >= k
    \/ \E m \in appendReps : /\ m.success /\ m.dst = i /\ m.src = p
                             /\ m.reqTerm = currentTerm[i] /\ m.matched >= k

\* The vote of p has reached c, or is on its way, in the term of c.
VotedNow(p, c) ==
    \/ p \in votes[c]
    \/ \E m \in voteReps :
          m.granted /\ m.src = p /\ m.dst = c /\ m.reqTerm = currentTerm[c]

\* Node c wins its election.
Wins(c, voters) ==
    /\ state[c] = Candidate
    /\ voters \in SUBSET Node /\ IsMajority(voters) /\ \A v \in voters : VotedNow(v, c)
    /\ BecomeLeader(c, voters)
    /\ UNCHANGED <<currentTerm, logVars, appendReqs, appendReps>>

\* A leader leads the same term after a step, unless it has just won it.
LEMMA WinStep ==
    ASSUME NoRestart, TypeInv, [Next]_vars
    PROVE  \/ /\ elections' = elections
              /\ \A i \in Node : state'[i] = Leader =>
                    state[i] = Leader /\ currentTerm'[i] = currentTerm[i]
           \/ \E c \in Node, voters \in SUBSET Node : Wins(c, voters)
<1> DEFINE Same == /\ elections' = elections
                   /\ \A i \in Node : state'[i] = Leader =>
                         state[i] = Leader /\ currentTerm'[i] = currentTerm[i]
<1>1. ASSUME UNCHANGED termVars, UNCHANGED elections
      PROVE  Same
  BY <1>1 DEF termVars
<1>2. ASSUME NEW i \in Node, NEW S \in SUBSET Peers(i), StartElection(i, S)
      PROVE  Same
  BY <1>2 DEF StartElection, TypeInv, TypeOK, Candidate, Leader
<1>3. ASSUME NEW m \in voteReqs, RequestVote(m)
      PROVE  Same
  BY <1>3 DEF RequestVote, TypeInv, TypeOK, VoteReq, Follower, Leader
<1>4. ASSUME NEW i \in Node, NEW t \in Nat, StepDown(i, t), elections' = elections
      PROVE  Same
  BY <1>4 DEF StepDown, TypeInv, TypeOK, Follower, Leader
<1>5. ASSUME NEW m \in voteReps, VoteReply(m)
      PROVE  Same \/ \E c \in Node, voters \in SUBSET Node : Wins(c, voters)
  <2> DEFINE c      == m.dst
             voters == votes[c] \cup {m.src}
  <2>1. m.dst \in Node /\ m.term \in Nat /\ voters \in SUBSET Node
    BY DEF TypeInv, TypeOK, VoteRep
  <2>2. CASE /\ Awaits(c, Candidate, m.reqTerm) /\ m.granted
             /\ IsMajority(voters) /\ BecomeLeader(c, voters) /\ UNCHANGED currentTerm
    <3>1. \A v \in voters : VotedNow(v, c)
      BY <2>2 DEF VotedNow, Awaits
    <3>2. UNCHANGED <<logVars, appendReqs, appendReps>>
      BY <1>5 DEF VoteReply
    <3>3. Wins(c, voters)
      BY <2>1, <2>2, <3>1, <3>2 DEF Wins, Awaits
    <3> QED
      BY <2>1, <3>3
  <2>3. CASE StepDown(c, m.term) /\ elections' = elections
    BY <1>4, <2>1, <2>3
  <2>4. CASE UNCHANGED termVars /\ UNCHANGED elections
    BY <1>1, <2>4
  <2> QED
    BY <1>5, <2>2, <2>3, <2>4 DEF VoteReply
<1>6. ASSUME NEW m \in appendReqs, AppendEntries(m)
      PROVE  Same
  <2>1. m.dst \in Node /\ elections' = elections
    BY <1>6 DEF TypeInv, TypeOK, AppendReq, AppendEntries
  <2>2. CASE UNCHANGED termVars
    BY <1>1, <2>1, <2>2
  <2>3. CASE Follow(m.dst, m.src, m.term)
    BY <2>1, <2>3 DEF Follow, TypeInv, TypeOK, Follower, Leader
  <2> QED
    BY <1>6, <2>2, <2>3 DEF AppendEntries
<1>7. ASSUME NEW m \in appendReps, AppendReply(m)
      PROVE  Same
  <2>1. m.dst \in Node /\ m.term \in Nat /\ elections' = elections
    BY <1>7 DEF TypeInv, TypeOK, AppendRep, AppendReply
  <2>2. CASE UNCHANGED termVars
    BY <1>1, <2>1, <2>2
  <2>3. CASE StepDown(m.dst, m.term)
    BY <1>4, <2>1, <2>3
  <2> QED
    BY <1>7, <2>2, <2>3 DEF AppendReply
<1>8. ASSUME NEW i \in Node, Restart(i)
      PROVE  FALSE
  BY <1>8 DEF Restart, NoRestart
<1>9. ASSUME \/ \E i \in Node : \/ TimerFires(i)
                                \/ \E S \in SUBSET Peers(i) : SendHeartbeats(i, S)
                                \/ \E c \in Command : Start(i, c)
             \/ \E i \in Killable : Stop(i)
             \/ RPCFails
             \/ UNCHANGED vars
      PROVE  Same
  <2>1. UNCHANGED termVars /\ UNCHANGED elections
    BY <1>9 DEF TimerFires, SendHeartbeats, Start, Stop, RPCFails, vars
  <2> QED
    BY <1>1, <2>1
<1> HIDE DEF Same
<1>10. Same \/ \E c \in Node, voters \in SUBSET Node : Wins(c, voters)
  BY <1>2, <1>3, <1>5, <1>6, <1>7, <1>8, <1>9 DEF Next
<1> QED
  BY <1>10 DEF Same

\* Two nodes of one candidate's voters: the vote of a node in a term the
\* candidate is in says that the node has reached that term.
LEMMA VoterTerm ==
    TypeInv /\ VoteInv =>
        \A c, v \in Node : state[c] # Follower /\ VotedNow(v, c)
                           => currentTerm[v] >= currentTerm[c]
<1> SUFFICES ASSUME TypeInv, VoteInv, NEW c \in Node, NEW v \in Node,
                    state[c] # Follower, VotedNow(v, c)
             PROVE  currentTerm[v] >= currentTerm[c]
  OBVIOUS
<1>1. VoteIsFor(v, currentTerm[c], c) /\ currentTerm[c] \in Nat
  BY DEF VotedNow, VoteIsFor, TypeInv, TypeOK
<1> QED
  BY <1>1 DEF VoteInv

\* Where the votes of a candidate come from: itself, or a node whose log is
\* not ahead of what the candidate's request says.
LEMMA VotedStep ==
    ASSUME NoRestart, TypeInv, TypeInv', VoteCallInv, [Next]_vars,
           NEW c \in Node, NEW v \in Node, state'[c] = Candidate, VotedNow(v, c)'
    PROVE  /\ log'[c] = log[c]
           /\ \/ v = c
              \/ /\ state[c] = Candidate /\ currentTerm'[c] = currentTerm[c]
                 /\ \/ VotedNow(v, c)
                    \/ UpToDate(log[v], Len(log[c]), TermAt(log[c], Len(log[c])))
<1>1. ASSUME NEW i \in Node, NEW S \in SUBSET Peers(i), StartElection(i, S)
      PROVE  /\ log'[c] = log[c]
             /\ \/ v = c
                \/ /\ state[c] = Candidate /\ currentTerm'[c] = currentTerm[c]
                   /\ VotedNow(v, c)
  <2>1. UNCHANGED <<log, voteReps>>
    BY <1>1 DEF StartElection, logVars
  <2>2. /\ currentTerm'[i] = currentTerm[i] + 1 /\ votes'[i] = {i}
        /\ currentTerm[i] \in Nat
        /\ \A p \in Node : p # i => /\ currentTerm'[p] = currentTerm[p] /\ state'[p] = state[p]
                                    /\ votes'[p] = votes[p]
    BY <1>1 DEF StartElection, TypeInv, TypeOK
  <2>3. CASE c = i
    <3>1. ~ \E m \in voteReps : m.dst = c /\ m.reqTerm = currentTerm'[c]
      <4>1. \A m \in voteReps : m.reqTerm \in Nat
        BY DEF TypeInv, TypeOK, VoteRep
      <4> QED
        BY <2>2, <2>3, <4>1 DEF VoteCallInv
    <3> QED
      BY <2>1, <2>2, <2>3, <3>1 DEF VotedNow
  <2>4. CASE c # i
    BY <2>1, <2>2, <2>4 DEF VotedNow
  <2> QED
    BY <2>3, <2>4
<1>2. ASSUME NEW m \in voteReqs, RequestVote(m), ~VotedNow(v, c),
             state[c] = Candidate, currentTerm'[c] = currentTerm[c]
      PROVE  UpToDate(log[v], Len(log[c]), TermAt(log[c], Len(log[c])))
  <2>1. votes' = votes
    BY <1>2 DEF RequestVote
  <2>2. /\ v = m.dst /\ c = m.src /\ m.term = currentTerm[c]
        /\ UpToDate(log[v], m.lastLogIndex, m.lastLogTerm)
    BY <1>2, <2>1 DEF VotedNow, RequestVote
  <2> QED
    BY <1>2, <2>2 DEF VoteCallInv
<1>3. ASSUME voteReps' \subseteq voteReps, currentTerm'[c] = currentTerm[c],
             \A w \in Node : w \in votes'[c] => VotedNow(w, c)
      PROVE  VotedNow(v, c)
  BY <1>3 DEF VotedNow
<1>4. ASSUME NEW m \in voteReps, VoteReply(m), state[c] = Candidate,
             currentTerm'[c] = currentTerm[c], NEW w \in Node, w \in votes'[c]
      PROVE  VotedNow(w, c)
  <2> DEFINE d      == m.dst
             voters == votes[d] \cup {m.src}
  <2>1. d \in Node /\ votes \in [Node -> SUBSET Node]
    BY DEF TypeInv, TypeOK, VoteRep
  <2>2. CASE votes' = votes
    BY <1>4, <2>2 DEF VotedNow
  <2>3. CASE /\ votes' = [votes EXCEPT ![d] = voters]
             /\ m.granted /\ currentTerm[d] = m.reqTerm
    <3>1. votes'[c] = IF c = d THEN voters ELSE votes[c]
      BY <2>1, <2>3
    <3> QED
      BY <1>4, <2>3, <3>1 DEF VotedNow
  <2> QED
    BY <1>4, <2>2, <2>3 DEF VoteReply, Awaits
<1>5. ASSUME \/ \E i \in Node : \/ TimerFires(i)
                                \/ \E S \in SUBSET Peers(i) : SendHeartbeats(i, S)
                                \/ \E d \in Command : Start(i, d)
             \/ \E m \in voteReqs : RequestVote(m)
             \/ \E m \in appendReqs : AppendEntries(m)
             \/ \E m \in appendReps : AppendReply(m)
             \/ \E i \in Killable : Stop(i)
             \/ \E i \in Node : Restart(i)
             \/ RPCFails
             \/ UNCHANGED vars
      PROVE  votes' = votes
  BY <1>5 DEF TimerFires, SendHeartbeats, Start, RequestVote, AppendEntries, AppendReply, Stop,
              Restart, RPCFails, vars
<1>6. CASE \E i \in Node : \E S \in SUBSET Peers(i) : StartElection(i, S)
  BY <1>1, <1>6
<1>7. CASE ~ \E i \in Node : \E S \in SUBSET Peers(i) : StartElection(i, S)
  <2>1. state[c] = Candidate /\ currentTerm'[c] = currentTerm[c] /\ log'[c] = log[c]
    BY <1>7, CandidateStep
  <2>2. CASE \E m \in voteReqs : RequestVote(m)
    BY <1>2, <2>1, <2>2
  <2>3. CASE ~ \E m \in voteReqs : RequestVote(m)
    <3>1. voteReps' \subseteq voteReps
      BY <1>7, <2>3, VoteCallsStep
    <3>2. ASSUME NEW w \in Node, w \in votes'[c]
          PROVE  VotedNow(w, c)
      BY <1>4, <1>5, <1>7, <2>1, <3>2 DEF Next, VotedNow
    <3> QED
      BY <1>3, <2>1, <3>1, <3>2
  <2> QED
    BY <2>2, <2>3
<1> QED
  BY <1>6, <1>7

\* The receiver of m takes its entries in.
Merges(m) ==
    LET i      == m.dst
        merged == MergeEntries(log[i], m.entries)
    IN  /\ m.term >= currentTerm[i]
        /\ currentTerm' = [currentTerm EXCEPT ![i] = m.term]
        /\ state' = [state EXCEPT ![i] = Follower]
        /\ PrevMatches(log[i], m.prevLogIndex, m.prevLogTerm)
        /\ log' = [log EXCEPT ![i] = merged]
        /\ commitIndex' = [commitIndex EXCEPT ![i] =
              IF m.leaderCommit <= @ THEN @
              ELSE IF m.leaderCommit > LastIndex(merged) THEN LastIndex(merged)
              ELSE m.leaderCommit]
        /\ ApplyCommitted(i, merged, commitIndex'[i])

\* A request is refused, or taken in.
LEMMA RequestHandled ==
    ASSUME TypeInv, NEW m \in appendReqs, AppendEntries(m)
    PROVE  /\ UNCHANGED <<leaderVars, votes, voteReqs, voteReps, elections>>
           /\ UNCHANGED logVars \/ Merges(m)
           /\ \A r \in appendReps' :
                 \/ r \in appendReps
                 \/ /\ r.src = m.dst /\ r.dst = m.src /\ r.reqTerm = m.term
                    /\ r.matched = m.prevLogIndex + Len(m.entries)
                    /\ r.success => Merges(m)
<1>1. m.dst \in Node /\ commitIndex \in [Node -> Nat]
  BY DEF TypeInv, TypeOK, AppendReq
<1> DEFINE i       == m.dst
           merged  == MergeEntries(log[i], m.entries)
           success == PrevMatches(log[i], m.prevLogIndex, m.prevLogTerm)
           commit  == IF m.leaderCommit <= commitIndex[i] THEN commitIndex[i]
                      ELSE IF m.leaderCommit > LastIndex(merged) THEN LastIndex(merged)
                      ELSE m.leaderCommit
           reply(term, ok) == [src |-> i, dst |-> m.src, reqTerm |-> m.term,
                               matched |-> m.prevLogIndex + Len(m.entries),
                               term |-> term, success |-> ok]
<1>2. UNCHANGED <<leaderVars, votes, voteReqs, voteReps, elections>>
  BY DEF AppendEntries
<1>3. CASE /\ m.term < currentTerm[i]
           /\ appendReps' = appendReps \cup {reply(currentTerm[i], FALSE)}
           /\ UNCHANGED logVars
  BY <1>2, <1>3
<1>4. CASE /\ m.term >= currentTerm[i] /\ Follow(i, m.src, m.term)
           /\ appendReps' = appendReps \cup {reply(m.term, success)}
           /\ IF success
              THEN /\ log'         = [log EXCEPT ![i] = merged]
                   /\ commitIndex' = [commitIndex EXCEPT ![i] = commit]
                   /\ ApplyCommitted(i, merged, commit)
              ELSE UNCHANGED logVars
  <2>1. CASE success
    <3>1. commitIndex'[i] = commit
      <4> HIDE DEF commit
      <4> QED
        BY <1>1, <1>4, <2>1
    <3>2. Merges(m)
      BY <1>4, <2>1, <3>1 DEF Merges, Follow
    <3> HIDE DEF success
    <3> QED
      BY <1>2, <1>4, <2>1, <3>2
  <2>2. CASE ~success
    <3> HIDE DEF success
    <3> QED
      BY <1>2, <1>4, <2>2
  <2> QED
    BY <2>1, <2>2
<1>5. \/ /\ m.term < currentTerm[i]
         /\ appendReps' = appendReps \cup {reply(currentTerm[i], FALSE)}
         /\ UNCHANGED logVars
      \/ /\ m.term >= currentTerm[i] /\ Follow(i, m.src, m.term)
         /\ appendReps' = appendReps \cup {reply(m.term, success)}
         /\ IF success
            THEN /\ log'         = [log EXCEPT ![i] = merged]
                 /\ commitIndex' = [commitIndex EXCEPT ![i] = commit]
                 /\ ApplyCommitted(i, merged, commit)
            ELSE UNCHANGED logVars
  BY DEF AppendEntries
<1> HIDE DEF reply, success, commit, merged
<1> QED
  BY <1>3, <1>4, <1>5

\* How the log of a node changes.
LEMMA LogChange ==
    ASSUME NoRestart, TypeInv, [Next]_vars, NEW p \in Node
    PROVE  \/ log'[p] = log[p]
           \/ /\ state[p] = Leader /\ state'[p] = Leader /\ currentTerm'[p] = currentTerm[p]
              /\ \E c \in Command :
                    log'[p] = Append(log[p], NextEntry(log[p], currentTerm[p], c))
           \/ \E m \in appendReqs : m.dst = p /\ Merges(m)
<1>1. ASSUME NEW i \in Node, NEW c \in Command, Start(i, c)
      PROVE  \/ log'[p] = log[p]
             \/ /\ state[p] = Leader /\ state'[p] = Leader /\ currentTerm'[p] = currentTerm[p]
                /\ log'[p] = Append(log[p], NextEntry(log[p], currentTerm[p], c))
  <2>1. CASE p = i
    <3>1. log \in [Node -> Seq(Entry)]
      BY DEF TypeInv, TypeOK
    <3> QED
      BY <1>1, <2>1, <3>1 DEF Start, termVars
  <2>2. CASE p # i
    BY <1>1, <2>2 DEF Start, TypeInv, TypeOK
  <2> QED
    BY <2>1, <2>2
<1>2. ASSUME NEW m \in appendReqs, AppendEntries(m)
      PROVE  log'[p] = log[p] \/ (m.dst = p /\ Merges(m))
  <2>1. UNCHANGED logVars \/ Merges(m)
    BY <1>2, RequestHandled
  <2> QED
    BY <2>1 DEF logVars, Merges, TypeInv, TypeOK
<1> QED
  BY <1>1, <1>2, LogStep

\* New acknowledgements come from requests that are taken in.
LEMMA AckedStep ==
    ASSUME NoRestart, TypeInv, [Next]_vars, NEW i \in Node, NEW p \in Node, NEW k \in Nat \ {0},
           state[i] = Leader, state'[i] = Leader, currentTerm'[i] = currentTerm[i],
           Acked(i, k, p)'
    PROVE  \/ Acked(i, k, p)
           \/ \E m \in appendReqs : /\ m.src = i /\ m.dst = p /\ m.term = currentTerm[i]
                                    /\ m.prevLogIndex + Len(m.entries) >= k
                                    /\ Merges(m)
<1>1. ASSUME appendReps' \subseteq appendReps, matchIndex'[i][p] = matchIndex[i][p]
      PROVE  Acked(i, k, p)
  BY <1>1 DEF Acked
<1>2. ASSUME NEW m \in appendReqs, AppendEntries(m)
      PROVE  \/ Acked(i, k, p)
             \/ /\ m.src = i /\ m.dst = p /\ m.term = currentTerm[i]
                /\ m.prevLogIndex + Len(m.entries) >= k
                /\ Merges(m)
  BY <1>2, RequestHandled DEF Acked, leaderVars
<1>3. ASSUME NEW m \in appendReps, AppendReply(m)
      PROVE  Acked(i, k, p)
  <2>1. appendReps' \subseteq appendReps
    BY <1>3 DEF AppendReply
  <2>2. CASE matchIndex'[i][p] = matchIndex[i][p]
    BY <1>1, <2>1, <2>2
  <2>3. CASE matchIndex'[i][p] # matchIndex[i][p]
    <3> DEFINE c == m.dst
               d == m.src
    <3>1. /\ m.success /\ m.reqTerm = currentTerm[c]
          /\ matchIndex' = [matchIndex EXCEPT ![c] = [matchIndex[c] EXCEPT ![d] = m.matched]]
      BY <1>3, <2>3 DEF AppendReply, Awaits, leaderVars
    <3>2. matchIndex \in [Node -> [Node -> Nat]] /\ c \in Node /\ d \in Node
      BY DEF TypeInv, TypeOK, AppendRep
    <3> HIDE DEF c, d
    <3>3. matchIndex'[i][p] = IF i = c /\ p = d THEN m.matched ELSE matchIndex[i][p]
      BY <3>1, <3>2
    <3>4. i = c /\ p = d /\ matchIndex'[i][p] = m.matched
      BY <2>3, <3>3
    <3>5. m.dst = i /\ m.src = p
      BY <3>4 DEF c, d
    <3> QED
      BY <2>1, <3>1, <3>4, <3>5 DEF Acked
  <2> QED
    BY <2>2, <2>3
<1>4. ASSUME NEW m \in voteReps, VoteReply(m)
      PROVE  Acked(i, k, p)
  <2>1. appendReps' = appendReps
    BY <1>4 DEF VoteReply
  <2>2. CASE UNCHANGED leaderVars
    BY <1>1, <2>1, <2>2 DEF leaderVars
  <2>3. ASSUME NEW voters, BecomeLeader(m.dst, voters), state[m.dst] = Candidate
        PROVE  matchIndex'[i][p] = matchIndex[i][p]
    BY <2>3 DEF BecomeLeader, TypeInv, TypeOK, Leader, Candidate
  <2> QED
    BY <1>1, <1>4, <2>1, <2>2, <2>3 DEF VoteReply, Awaits
<1>5. ASSUME NEW j \in Node, Restart(j)
      PROVE  FALSE
  BY <1>5 DEF Restart, NoRestart
<1>6. ASSUME \/ \E j \in Node : \/ TimerFires(j)
                                \/ \E S \in SUBSET Peers(j) : \/ StartElection(j, S)
                                                              \/ SendHeartbeats(j, S)
                                \/ \E c \in Command : Start(j, c)
             \/ \E m \in voteReqs : RequestVote(m)
             \/ \E j \in Killable : Stop(j)
             \/ RPCFails
             \/ UNCHANGED vars
      PROVE  appendReps' \subseteq appendReps /\ matchIndex' = matchIndex
  BY <1>6 DEF TimerFires, StartElection, SendHeartbeats, Start, RequestVote, Stop, RPCFails,
              vars, netVars, leaderVars
<1> QED
  BY <1>1, <1>2, <1>3, <1>4, <1>5, <1>6 DEF Next

\* A commit index that updateCommitIndex moves: a majority has told the leader
\* that it holds the entry.
LEMMA CommitReply ==
    ASSUME TypeInv, NEW m \in appendReps, AppendReply(m), NEW p \in Node
    PROVE  \/ UNCHANGED <<commitIndex[p], lastApplied[p], applied[p]>>
           \/ /\ state[p] = Leader /\ state'[p] = Leader
              /\ currentTerm'[p] = currentTerm[p] /\ log'[p] = log[p]
              /\ ApplyCommitted(p, log[p], commitIndex'[p])
              /\ \/ commitIndex'[p] = commitIndex[p]
                 \/ /\ commitIndex'[p] > commitIndex[p] /\ commitIndex'[p] <= Len(log[p])
                    /\ IsMajority({q \in Node : Acked(p, commitIndex'[p], q)})
<1> DEFINE i      == m.dst
           j      == m.src
           match  == [matchIndex[i] EXCEPT ![j] = m.matched]
           commit == UpdateCommitIndex(i, match)
<1>1. i \in Node /\ j \in Node /\ m.matched \in Nat
  BY DEF TypeInv, TypeOK, AppendRep
<1>2. CASE UNCHANGED logVars
  BY <1>2 DEF logVars
<1>3. CASE /\ Awaits(i, Leader, m.reqTerm) /\ m.success
           /\ commitIndex' = [commitIndex EXCEPT ![i] = commit]
           /\ ApplyCommitted(i, log[i], commit)
           /\ UNCHANGED <<termVars, log>>
  <2>1. CASE p # i
    BY <1>1, <1>3, <2>1 DEF ApplyCommitted, TypeInv, TypeOK
  <2>2. CASE p = i
    <3>1. commitIndex'[p] = commit
      <4> HIDE DEF commit
      <4> QED
        BY <1>1, <1>3, <2>2 DEF TypeInv, TypeOK
    <3>2. commitIndex[i] \in Nat /\ IsLog(log[i])
      BY <1>1, LogsAreLogs DEF TypeInv, TypeOK
    <3>3. commit = commitIndex[i] \/ (commit > commitIndex[i] /\ commit <= Len(log[i]))
      BY <1>1, <3>2, UpdateCommitType
    <3>4. CASE commit # commitIndex[i]
      <4> DEFINE C == Committable(i, match)
      <4>1. C # {} /\ commit = CHOOSE x \in C : \A y \in C : y <= x
        BY <3>4 DEF UpdateCommitIndex
      <4>2. \E x \in C : \A y \in C : y <= x
        <5>1. C \subseteq 0 .. Len(log[i]) /\ Len(log[i]) \in Nat
          BY <3>2, LastIndexIsLength DEF Committable, IsLog
        <5> HIDE DEF C
        <5> QED
          BY <4>1, <5>1, LastOfPositions
      <4>3. commit \in C
        BY <4>1, <4>2
      <4> DEFINE R == {i} \cup {q \in Peers(i) : match[q] >= commit}
                 A == {q \in Node : Acked(i, commit, q)}
      <4>4. IsMajority(R)
        BY <4>3 DEF Committable
      <4>5. ASSUME NEW q \in R
            PROVE  q \in A
        <5>1. CASE q = i
          BY <1>1, <5>1 DEF Acked
        <5>2. CASE q # i /\ q = j
          <6>1. m.matched >= commit
            BY <1>1, <5>2 DEF TypeInv, TypeOK
          <6> QED
            BY <1>1, <1>3, <5>2, <6>1 DEF Acked, Awaits
        <5>3. CASE q # i /\ q # j
          <6>1. q \in Node /\ matchIndex[i][q] >= commit
            BY <1>1, <5>3 DEF TypeInv, TypeOK, Peers
          <6> QED
            BY <6>1 DEF Acked
        <5> QED
          BY <5>1, <5>2, <5>3
      <4>6. A \in SUBSET Node /\ R \in SUBSET Node
        BY <1>1 DEF Peers
      <4> HIDE DEF R, A, commit
      <4>7. IsMajority(A)
        BY <4>4, <4>5, <4>6, MajorityGrows
      <4>8. IsMajority({q \in Node : Acked(p, commitIndex'[p], q)})
        BY <2>2, <3>1, <4>7 DEF A
      <4> QED
        BY <1>3, <2>2, <3>1, <3>3, <3>4, <4>8 DEF Awaits, termVars
    <3>5. CASE commit = commitIndex[i]
      <4> HIDE DEF commit
      <4> QED
        BY <1>3, <2>2, <3>1, <3>5 DEF Awaits, termVars
    <3> QED
      BY <3>4, <3>5
  <2> QED
    BY <2>1, <2>2
<1> QED
  BY <1>2, <1>3 DEF AppendReply, logVars

\* How the commit index of a node moves, and what it has applied.
LEMMA CommitChange ==
    ASSUME NoRestart, TypeInv, [Next]_vars, NEW p \in Node
    PROVE  \/ UNCHANGED <<commitIndex[p], lastApplied[p], applied[p]>>
           \/ \E m \in appendReqs : m.dst = p /\ Merges(m)
           \/ /\ state[p] = Leader /\ state'[p] = Leader
              /\ currentTerm'[p] = currentTerm[p] /\ log'[p] = log[p]
              /\ ApplyCommitted(p, log[p], commitIndex'[p])
              /\ \/ commitIndex'[p] = commitIndex[p]
                 \/ /\ commitIndex'[p] > commitIndex[p] /\ commitIndex'[p] <= Len(log[p])
                    /\ IsMajority({q \in Node : Acked(p, commitIndex'[p], q)})
<1>1. CASE UNCHANGED <<commitIndex, lastApplied, applied>>
  BY <1>1
<1>2. ASSUME NEW m \in appendReqs, AppendEntries(m)
      PROVE  \/ UNCHANGED <<commitIndex[p], lastApplied[p], applied[p]>>
             \/ m.dst = p /\ Merges(m)
  <2>1. CASE UNCHANGED logVars
    BY <2>1 DEF logVars
  <2>2. CASE Merges(m) /\ m.dst # p
    <3>1. m.dst \in Node
      BY DEF TypeInv, TypeOK, AppendReq
    <3> QED
      BY <2>2, <3>1 DEF Merges, ApplyCommitted, TypeInv, TypeOK
  <2> QED
    BY <1>2, <2>1, <2>2, RequestHandled
<1>3. ASSUME NEW j \in Node, Restart(j)
      PROVE  FALSE
  BY <1>3 DEF Restart, NoRestart
<1>4. ASSUME \/ \E j \in Node : \/ TimerFires(j)
                                \/ \E S \in SUBSET Peers(j) : \/ StartElection(j, S)
                                                              \/ SendHeartbeats(j, S)
                                \/ \E c \in Command : Start(j, c)
             \/ \E m \in voteReqs : RequestVote(m)
             \/ \E m \in voteReps : VoteReply(m)
             \/ \E j \in Killable : Stop(j)
             \/ RPCFails
             \/ UNCHANGED vars
      PROVE  UNCHANGED <<commitIndex, lastApplied, applied>>
  BY <1>4 DEF TimerFires, StartElection, SendHeartbeats, Start, RequestVote, VoteReply, Stop,
              RPCFails, vars, logVars
<1> QED
  BY <1>1, <1>2, <1>3, <1>4, CommitReply DEF Next

-----------------------------------------------------------------------------
(* There is a history at every moment.                                     *)

RaftInv == TypeInv /\ VoteInv /\ MatchInv /\ HoldInv /\ VoteCallInv

LEMMA RaftInvInit == Init => RaftInv
BY TypeInit, VoteInit, MatchInit, HoldInit, VoteCallInit DEF RaftInv

LEMMA RaftInvStep ==
    ASSUME NoRestart, RaftInv, [Next]_vars
    PROVE  RaftInv'
<1>1. TypeInv' /\ VoteInv' /\ MatchInv' /\ HoldInv'
  BY TypeStep, VoteStep, MatchStep, HoldStep DEF RaftInv
<1>2. VoteCallInv'
  BY <1>1, VoteCallStep DEF RaftInv
<1> QED
  BY <1>1, <1>2 DEF RaftInv

\* A term has one leader, and it has won the term.
OneLeader ==
    /\ \A i, j \in Node :
          state[i] = Leader /\ state[j] = Leader /\ currentTerm[i] = currentTerm[j] => i = j
    /\ \A i \in Node : state[i] = Leader => WonTerm(currentTerm[i])

LEMMA OneLeaderHolds == RaftInv => OneLeader
<1> SUFFICES ASSUME RaftInv PROVE OneLeader
  OBVIOUS
<1>1. ElectionSafety /\ ElectedInv
  BY OneWinner DEF RaftInv, MatchInv
<1> QED
  BY <1>1 DEF OneLeader, ElectedInv, ElectionSafety, WonTerm

LEMMA OneLeaderNext == RaftInv' => OneLeader'
BY OneLeaderHolds, PTL

\* Who wins a term wins it first.
LEMMA WinsFirst ==
    ASSUME RaftInv, RaftInv', NEW c \in Node, NEW voters, Wins(c, voters)
    PROVE  /\ ~WonTerm(currentTerm[c])
           /\ elections' = elections \cup
                {[term |-> currentTerm[c], leader |-> c, voters |-> voters]}
           /\ state'[c] = Leader /\ currentTerm[c] \in Nat
           /\ \A j \in Node : j # c => state'[j] = state[j]
<1> DEFINE won == [term |-> currentTerm[c], leader |-> c, voters |-> voters]
<1>1. /\ elections' = elections \cup {won}
      /\ won.term = currentTerm[c] /\ won.leader = c
  BY DEF Wins, BecomeLeader
<1>2. ElectionSafety' /\ ElectedInv
  BY OneWinner, PTL DEF RaftInv, MatchInv
<1>3. ASSUME NEW e \in elections, e.term = currentTerm[c]
      PROVE  FALSE
  <2>1. e.leader = c
    <3> HIDE DEF won
    <3> QED
      BY <1>1, <1>2, <1>3 DEF ElectionSafety
  <2> QED
    BY <1>2, <1>3, <2>1 DEF ElectedInv, Wins
<1> QED
  BY <1>1, <1>3 DEF WonTerm, Wins, BecomeLeader, RaftInv, TypeInv, TypeOK

\* A prefix of a log from leaders is one.
LEMMA FromShared ==
    ASSUME NEW L \in Histories, NEW h \in Seq(Entry), NEW u \in Nat, FromLeaders(L, h, u),
           NEW l \in Seq(Entry), Share(l, h, Len(l))
    PROVE  FromLeaders(L, l, u)
<1> SUFFICES ASSUME NEW q \in 1 .. Len(l)
             PROVE  l[q].term <= u /\ Share(l, L[l[q].term], q)
  BY DEF FromLeaders
<1>1. q \in Nat /\ Len(l) \in Nat /\ Len(h) \in Nat /\ l[q].term \in Nat
      /\ q \in 1 .. Len(h) /\ l[q] = h[q]
  BY SeqEntries DEF Share
<1>2. h[q].term <= u /\ Share(h, L[l[q].term], q)
  BY <1>1 DEF FromLeaders
<1> QED
  BY <1>1, <1>2 DEF Share

\* The leader's log is one after it appends an entry of its term.
LEMMA FromAppend ==
    ASSUME NEW N \in Histories, NEW l \in Seq(Entry), NEW t \in Nat, FromLeaders(N, l, t),
           NEW e \in Entry, e.term = t, N[t] = Append(l, e)
    PROVE  FromLeaders(N, Append(l, e), t)
<1> DEFINE g == Append(l, e)
<1>1. /\ Len(l) \in Nat /\ Len(g) = Len(l) + 1 /\ g[Len(l) + 1] = e
      /\ \A q \in 1 .. Len(l) : g[q] = l[q]
  OBVIOUS
<1> SUFFICES ASSUME NEW q \in 1 .. Len(g)
             PROVE  g[q].term <= t /\ Share(g, N[g[q].term], q)
  BY DEF FromLeaders
<1> HIDE DEF g
<1>2. CASE q = Len(l) + 1
  BY <1>1, <1>2 DEF Share, g
<1>3. CASE q # Len(l) + 1
  <2>1. q \in 1 .. Len(l) /\ g[q] = l[q]
    BY <1>1, <1>3
  <2>2. l[q].term <= t /\ Share(l, N[l[q].term], q)
    BY <2>1 DEF FromLeaders
  <2> QED
    BY <1>1, <2>1, <2>2 DEF Share
<1> QED
  BY <1>2, <1>3

\* A part of a log is part of what the log becomes.
LEMMA SliceLater ==
    ASSUME NEW m \in AppendReq, NEW h \in Seq(Entry), NEW g \in Seq(Entry),
           SliceOf(m, h), Share(g, h, Len(h))
    PROVE  SliceOf(m, g)
<1>1. /\ Len(h) \in Nat /\ Len(g) \in Nat /\ m.prevLogIndex \in Nat /\ m.entries \in Seq(Entry)
  BY SeqEntries DEF AppendReq
<1>2. Len(m.entries) \in Nat
  BY <1>1
<1>3. \A k \in 1 .. Len(m.entries) : m.prevLogIndex + k \in 1 .. Len(h)
  BY <1>1, <1>2 DEF SliceOf
<1> QED
  BY <1>1, <1>2, <1>3 DEF SliceOf, Share

\* What a leader sends is a part of its log, to the end.
LEMMA SentSlice ==
    ASSUME RaftInv, NEW i \in Node, NEW S \in SUBSET Peers(i), SendHeartbeats(i, S),
           NEW m \in appendReqs', m \notin appendReqs
    PROVE  /\ m.src = i /\ m.term = currentTerm[i] /\ m.leaderCommit = commitIndex[i]
           /\ m.prevLogIndex + Len(m.entries) = Len(log[i]) /\ SliceOf(m, log[i])
<1>1. PICK j \in S :
        m = [src |-> i, dst |-> j, term |-> currentTerm[i],
             prevLogIndex |-> IF nextIndex[i][j] > 1 THEN nextIndex[i][j] - 1 ELSE 0,
             prevLogTerm  |-> IF nextIndex[i][j] > 1
                              THEN TermAt(log[i], nextIndex[i][j] - 1) ELSE 0,
             entries      |-> EntriesFrom(log[i], nextIndex[i][j]),
             leaderCommit |-> commitIndex[i]]
  BY DEF SendHeartbeats
<1> DEFINE n == nextIndex[i][j]
           l == log[i]
<1>2. /\ m.src = i /\ m.term = currentTerm[i] /\ m.leaderCommit = commitIndex[i]
      /\ m.prevLogIndex = (IF n > 1 THEN n - 1 ELSE 0)
      /\ m.prevLogTerm = (IF n > 1 THEN TermAt(l, n - 1) ELSE 0)
      /\ m.entries = EntriesFrom(l, n)
  BY <1>1
<1>3. n \in Nat \ {0} /\ n <= Len(l) + 1 /\ IsLog(l)
  <2>1. j \in Node /\ j \in Peers(i) /\ state[i] = Leader
    BY DEF Peers, SendHeartbeats
  <2>2. n \in Nat /\ n >= 1
    BY <2>1 DEF RaftInv, TypeInv, TypeOK, IndexIsPosition
  <2> QED
    BY <2>1, <2>2, LogsAreLogs DEF RaftInv, HoldInv
<1> HIDE DEF n, l
<1>4. LET prev == IF n > 1 THEN n - 1 ELSE 0
          term == IF n > 1 THEN TermAt(l, n - 1) ELSE 0
      IN  /\ prev + Len(EntriesFrom(l, n)) <= Len(l)
          /\ prev > 0 => term = l[prev].term
          /\ \A k \in 1 .. Len(EntriesFrom(l, n)) : EntriesFrom(l, n)[k] = l[prev + k]
  BY <1>3, SliceSent
<1>5. SliceOf(m, l)
  BY <1>2, <1>4 DEF SliceOf
<1>6. m.prevLogIndex + Len(m.entries) = Len(l)
  <2>1. Len(l) \in Nat
    BY <1>3 DEF IsLog
  <2>2. CASE n <= Len(l)
    <3>1. m.entries = SubSeq(l, n, Len(l))
      BY <1>2, <1>3, <2>2 DEF EntriesFrom, Has
    <3>2. Len(SubSeq(l, n, Len(l))) = Len(l) - n + 1
      <4>1. \A k \in n .. Len(l) : l[k] \in Entry
        BY <1>3 DEF IsLog
      <4> QED
        BY <1>3, <2>1, <2>2, <4>1, SubSeqProperties
    <3> QED
      BY <1>2, <1>3, <2>1, <3>1, <3>2
  <2>3. CASE n > Len(l)
    <3>1. m.entries = <<>>
      BY <1>2, <1>3, <2>1, <2>3 DEF EntriesFrom, Has
    <3> QED
      BY <1>2, <1>3, <2>1, <2>3, <3>1
  <2> QED
    BY <1>3, <2>1, <2>2, <2>3
<1> QED
  BY <1>2, <1>5, <1>6 DEF l

\* What a request makes of its receiver's log, by the history.
LEMMA Merged ==
    ASSUME RaftInv, NEW L \in Histories, History(L), NEW m \in appendReqs, Merges(m)
    PROVE  /\ m.dst \in Node /\ m.term \in Nat /\ m.prevLogIndex + Len(m.entries) \in Nat
           /\ currentTerm'[m.dst] = m.term /\ currentTerm[m.dst] <= m.term
           /\ state'[m.dst] = Follower /\ WonTerm(m.term)
           /\ log'[m.dst] \in Seq(Entry) /\ IsLog(log'[m.dst])
           /\ Share(log'[m.dst], L[m.term], m.prevLogIndex + Len(m.entries))
           /\ \/ log'[m.dst] = log[m.dst]
              \/ Len(log'[m.dst]) = m.prevLogIndex + Len(m.entries)
           /\ \A n \in Nat : Share(log[m.dst], L[m.term], n) => Share(log'[m.dst], L[m.term], n)
<1> DEFINE i        == m.dst
           l        == log[i]
           h        == L[m.term]
           entries  == m.entries
           prev     == m.prevLogIndex
           prevTerm == m.prevLogTerm
           merged   == MergeEntries(l, entries)
<1>1. /\ i \in Node /\ m.term \in Nat /\ entries \in Seq(Entry) /\ Len(entries) \in Nat
      /\ prev \in Nat /\ prevTerm \in Nat /\ IsLog(l) /\ l \in Seq(Entry)
      /\ \A k \in 1 .. Len(entries) : entries[k].index = prev + k
      /\ currentTerm[i] \in Nat
  <2>1. i \in Node /\ m.term \in Nat /\ entries \in Seq(Entry) /\ prev \in Nat /\ prevTerm \in Nat
    BY DEF RaftInv, TypeInv, TypeOK, AppendReq
  <2>2. IsLog(l) /\ currentTerm[i] \in Nat
    BY <2>1, LogsAreLogs DEF RaftInv, TypeInv, TypeOK
  <2> QED
    BY <2>1, <2>2 DEF IsLog, RaftInv, TypeInv, IndexIsPosition
<1>2. /\ m.term >= currentTerm[i] /\ currentTerm'[i] = m.term /\ state'[i] = Follower
      /\ PrevMatches(l, prev, prevTerm) /\ log'[i] = merged
  <2> HIDE DEF merged
  <2> QED
    BY <1>1 DEF Merges, RaftInv, TypeInv, TypeOK, merged
<1>3. WonTerm(m.term)
  BY DEF RaftInv, HoldInv, Won, WonTerm
<1>4. h \in Seq(Entry) /\ Len(h) \in Nat /\ FromLeaders(L, h, m.term)
  BY <1>1, HistoryLogs DEF History
<1>5. FromLeaders(L, l, currentTerm[i])
  BY <1>1 DEF History
<1>6. /\ prev + Len(entries) <= Len(h)
      /\ prev > 0 => prevTerm = h[prev].term
      /\ \A k \in 1 .. Len(entries) : entries[k] = h[prev + k]
  BY DEF History, SliceOf
<1> HIDE DEF i, l, h, entries, prev, prevTerm
<1>7. \A q \in 1 .. Len(l) : q <= Len(h) /\ l[q].term = h[q].term => Share(l, h, q)
  <2>1. m.term \in Nat /\ currentTerm[i] \in Nat
    BY <1>1
  <2> QED
    BY <1>1, <1>4, <1>5, <2>1, SameTermShare
<1>8. /\ Share(merged, h, prev + Len(entries))
      /\ merged = l \/ Len(merged) = prev + Len(entries)
      /\ \A n \in Nat : Share(l, h, n) => Share(merged, h, n)
  BY <1>1, <1>2, <1>4, <1>6, <1>7, MergeShares
<1>9. IsLog(merged)
  <2>1. prev <= Len(l)
    BY <1>1, <1>2, LastIndexIsLength DEF PrevMatches, IsLog
  <2> QED
    BY <1>1, <2>1, MergeIsLog
<1> HIDE DEF merged
<1>10. merged \in Seq(Entry)
  BY <1>9 DEF IsLog
<1>11. prev + Len(entries) \in Nat
  BY <1>1
<1> QED
  BY <1>1, <1>2, <1>3, <1>8, <1>9, <1>10, <1>11 DEF i, l, h, entries, prev

\* The logs of leaders after a step: those that lead then, and the others as
\* they were.
LEMMA HistoryGrows ==
    ASSUME NoRestart, RaftInv, RaftInv', [Next]_vars, NEW L \in Histories, History(L)
    PROVE  \E N \in Histories :
              /\ \A i \in Node : state'[i] = Leader => N[currentTerm'[i]] = log'[i]
              /\ \A t \in Nat : \/ N[t] = L[t]
                                \/ \E i \in Node : state'[i] = Leader /\ currentTerm'[i] = t
<1> DEFINE Leads(i, t) == state'[i] = Leader /\ currentTerm'[i] = t
           now == [t \in Nat |-> IF \E i \in Node : Leads(i, t)
                                 THEN log'[CHOOSE i \in Node : Leads(i, t)] ELSE L[t]]
<1>1. \A i \in Node : log'[i] \in Seq(Entry) /\ currentTerm'[i] \in Nat
  BY DEF RaftInv, TypeInv, TypeOK
<1>2. now \in Histories
  <2>1. ASSUME NEW t \in Nat
        PROVE  now[t] \in Seq(Entry)
    BY <1>1, HistoryLogs
  <2> QED
    BY <2>1 DEF Histories
<1>3. PICK N \in Histories : N = now
  BY <1>2
<1>4. ASSUME NEW i \in Node, state'[i] = Leader
      PROVE  N[currentTerm'[i]] = log'[i]
  <2> DEFINE t == currentTerm'[i]
  <2>1. Leads(i, t) /\ t \in Nat
    BY <1>1, <1>4
  <2>2. \A j \in Node : Leads(j, t) => j = i
    BY <1>4, OneLeaderNext DEF OneLeader
  <2>3. (CHOOSE j \in Node : Leads(j, t)) = i
    BY <2>1, <2>2
  <2> HIDE DEF Leads
  <2> QED
    BY <1>3, <2>1, <2>3
<1>5. ASSUME NEW t \in Nat, ~ \E i \in Node : Leads(i, t)
      PROVE  N[t] = L[t]
  BY <1>3, <1>5
<1> QED
  BY <1>4, <1>5

\* What is said of a leader's log in the step: it grows, or the leader has just
\* won the term, of which there was nothing.
LEMMA LeaderLog ==
    ASSUME NoRestart, RaftInv, RaftInv', [Next]_vars, NEW L \in Histories, History(L),
           NEW i \in Node, state'[i] = Leader
    PROVE  LET t == currentTerm'[i]
           IN  /\ t \in Nat /\ (\E e \in elections' : e.term = t) /\ Share(log'[i], L[t], Len(L[t]))
               /\ WonTerm(t) => state[i] = Leader /\ currentTerm[i] = t
<1> DEFINE t == currentTerm'[i]
<1>1. t \in Nat /\ (\E e \in elections' : e.term = t) /\ log'[i] \in Seq(Entry) /\ log[i] \in Seq(Entry)
  BY OneLeaderNext DEF OneLeader, WonTerm, RaftInv, TypeInv, TypeOK
<1>2. CASE state[i] = Leader /\ currentTerm[i] = t
  <2>1. L[t] = log[i]
    BY <1>2 DEF History
  <2>2. CASE log'[i] = log[i]
    BY <1>1, <1>2, <2>1, <2>2 DEF Share
  <2>3. ASSUME NEW c \in Command, log'[i] = Append(log[i], NextEntry(log[i], currentTerm[i], c))
        PROVE  Share(log'[i], L[t], Len(L[t]))
    BY <1>1, <1>2, <2>1, <2>3 DEF Share
  <2>4. ASSUME NEW m \in appendReqs, m.dst = i, Merges(m)
        PROVE  FALSE
    BY <2>4, Merged DEF Follower, Leader
  <2> QED
    BY <1>1, <1>2, <2>2, <2>3, <2>4, LogChange DEF RaftInv
<1>3. ASSUME NEW voters, Wins(i, voters)
      PROVE  ~WonTerm(t) /\ Share(log'[i], L[t], Len(L[t]))
  <2>1. ~WonTerm(t)
    BY <1>3, WinsFirst DEF Wins
  <2>2. L[t] = <<>>
    BY <1>1, <2>1 DEF History
  <2> QED
    BY <1>1, <2>1, <2>2 DEF Share
<1>4. ASSUME NEW c \in Node, NEW voters, Wins(c, voters), c # i
      PROVE  state[i] = Leader /\ currentTerm[i] = t
  BY <1>4, WinsFirst DEF Wins
<1> QED
  BY <1>1, <1>2, <1>3, <1>4, WinStep DEF RaftInv

LEMMA ElectionsKept ==
    ASSUME NoRestart, RaftInv, RaftInv', [Next]_vars, NEW t, WonTerm(t)
    PROVE  WonTerm(t)'
<1>1. elections \subseteq elections'
  BY WinStep, WinsFirst DEF RaftInv
<1> QED
  BY <1>1 DEF WonTerm

LEMMA HistoryStep ==
    ASSUME NoRestart, RaftInv, RaftInv', [Next]_vars, NEW L \in Histories, History(L)
    PROVE  \E N \in Histories : Extends(L, N) /\ History(N)'
<1>1. PICK N \in Histories :
         /\ \A i \in Node : state'[i] = Leader => N[currentTerm'[i]] = log'[i]
         /\ \A t \in Nat : \/ N[t] = L[t]
                           \/ \E i \in Node : state'[i] = Leader /\ currentTerm'[i] = t
  BY HistoryGrows
<1>2. Extends(L, N)
  <2> SUFFICES ASSUME NEW t \in Nat
               PROVE  Share(N[t], L[t], Len(L[t]))
    BY DEF Extends
  <2>1. CASE N[t] = L[t]
    BY <2>1, HistoryLogs DEF Share
  <2>2. ASSUME NEW i \in Node, state'[i] = Leader, currentTerm'[i] = t
        PROVE  Share(N[t], L[t], Len(L[t]))
    BY <1>1, <2>2, LeaderLog
  <2> QED
    BY <1>1, <2>1, <2>2
<1>3. \A i \in Node : /\ log[i] \in Seq(Entry) /\ log'[i] \in Seq(Entry)
                      /\ currentTerm[i] \in Nat /\ currentTerm'[i] \in Nat
                      /\ currentTerm[i] <= currentTerm'[i]
  BY TermsGrow DEF RaftInv, TypeInv, TypeOK
<1>4. ASSUME NEW p \in Node
      PROVE  FromLeaders(N, log'[p], currentTerm'[p])
  <2>1. FromLeaders(L, log[p], currentTerm[p])
    BY DEF History
  <2>2. FromLeaders(N, log[p], currentTerm'[p])
    BY <1>2, <1>3, <2>1, FromLater
  <2>3. ASSUME NEW c \in Command, state'[p] = Leader, currentTerm'[p] = currentTerm[p],
               log'[p] = Append(log[p], NextEntry(log[p], currentTerm[p], c))
        PROVE  FromLeaders(N, log'[p], currentTerm'[p])
    <3> DEFINE e == NextEntry(log[p], currentTerm[p], c)
    <3>1. e \in Entry /\ e.term = currentTerm'[p]
      <4>1. LastIndex(log[p]) \in Nat
        BY LogsAreLogs, LastIndexIsLength DEF RaftInv
      <4> QED
        BY <1>3, <2>3, <4>1 DEF NextEntry, Entry
    <3>2. N[currentTerm'[p]] = Append(log[p], e)
      BY <1>1, <2>3
    <3> HIDE DEF e
    <3> QED
      BY <1>3, <2>2, <2>3, <3>1, <3>2, FromAppend DEF e
  <2>4. ASSUME NEW m \in appendReqs, m.dst = p, Merges(m)
        PROVE  FromLeaders(N, log'[p], currentTerm'[p])
    <3>1. /\ m.term \in Nat /\ currentTerm'[p] = m.term
          /\ Share(log'[p], L[m.term], m.prevLogIndex + Len(m.entries))
          /\ log'[p] = log[p] \/ Len(log'[p]) = m.prevLogIndex + Len(m.entries)
      BY <2>4, Merged
    <3>2. CASE log'[p] = log[p]
      BY <2>2, <3>2
    <3>3. CASE Len(log'[p]) = m.prevLogIndex + Len(m.entries)
      <4>1. L[m.term] \in Seq(Entry) /\ FromLeaders(L, L[m.term], m.term)
        BY <3>1, HistoryLogs DEF History
      <4>2. FromLeaders(L, log'[p], m.term)
        BY <1>3, <3>1, <3>3, <4>1, FromShared
      <4> QED
        BY <1>2, <1>3, <3>1, <4>2, FromLater
    <3> QED
      BY <3>1, <3>2, <3>3
  <2> QED
    BY <2>2, <2>3, <2>4, LogChange DEF RaftInv
<1>5. ASSUME NEW t \in Nat
      PROVE  FromLeaders(N, N[t], t)
  <2>1. CASE N[t] = L[t]
    <3>1. L[t] \in Seq(Entry) /\ FromLeaders(L, L[t], t)
      BY HistoryLogs DEF History
    <3> QED
      BY <1>2, <2>1, <3>1, FromLater
  <2> QED
    BY <1>1, <1>4, <2>1
<1>6. ASSUME NEW t \in Nat, N[t] # <<>>
      PROVE  WonTerm(t)'
  <2>1. CASE N[t] = L[t]
    BY <1>6, <2>1, ElectionsKept DEF History
  <2>2. ASSUME NEW i \in Node, state'[i] = Leader, currentTerm'[i] = t
        PROVE  WonTerm(t)'
    BY <2>2, LeaderLog DEF WonTerm
  <2> QED
    BY <1>1, <2>1, <2>2
<1>7. ASSUME NEW m \in appendReqs'
      PROVE  SliceOf(m, N[m.term])
  <2>1. m \in AppendReq /\ m.term \in Nat
    BY DEF RaftInv, TypeInv, TypeOK, AppendReq
  <2>2. CASE m \in appendReqs
    <3>1. SliceOf(m, L[m.term])
      BY <2>2 DEF History
    <3>2. L[m.term] \in Seq(Entry) /\ N[m.term] \in Seq(Entry)
      BY <2>1, HistoryLogs
    <3> QED
      BY <1>2, <2>1, <3>1, <3>2, SliceLater DEF Extends
  <2>3. ASSUME NEW i \in Node, NEW S \in SUBSET Peers(i), SendHeartbeats(i, S),
               m \notin appendReqs
        PROVE  SliceOf(m, N[m.term])
    <3>1. m.term = currentTerm[i] /\ SliceOf(m, log[i])
      BY <2>3, SentSlice
    <3>2. state'[i] = Leader /\ currentTerm'[i] = currentTerm[i] /\ log'[i] = log[i]
      BY <2>3 DEF SendHeartbeats, termVars, logVars
    <3>3. N[m.term] = log[i]
      BY <1>1, <3>1, <3>2
    <3> QED
      BY <3>1, <3>3
  <2> QED
    BY <2>2, <2>3, RequestStep DEF RaftInv
<1>8. History(N)'
  BY <1>1, <1>4, <1>5, <1>6, <1>7 DEF History
<1> QED
  BY <1>2, <1>8

-----------------------------------------------------------------------------
(* The bound on terms.                                                     *)

BoundInv ==
    /\ \A i \in Node : /\ currentTerm[i] <= MaxTerm
                       /\ state[i] # Follower => currentTerm[i] > 0
    /\ \A m \in voteReqs \cup appendReqs : m.term <= MaxTerm
    /\ \A m \in voteReps \cup appendReps : m.term <= MaxTerm
    /\ \A e \in elections : e.term > 0

LEMMA BoundInit == Init => BoundInv
BY RaftAssumption DEF Init, BoundInv

LEMMA BoundStep ==
    ASSUME NoRestart, TypeInv, BoundInv, [Next]_vars
    PROVE  BoundInv'
<1> DEFINE Terms == \A i \in Node : /\ currentTerm'[i] <= MaxTerm
                                    /\ state'[i] # Follower => currentTerm'[i] > 0
           Requests == \A m \in voteReqs' \cup appendReqs' : m.term <= MaxTerm
           Replies == \A m \in voteReps' \cup appendReps' : m.term <= MaxTerm
           Wins0 == \A e \in elections' : e.term > 0
<1>0. currentTerm \in [Node -> Nat] /\ state \in [Node -> {Follower, Candidate, Leader}]
      /\ MaxTerm \in Nat
  BY RaftAssumption DEF TypeInv, TypeOK
<1>1. ASSUME UNCHANGED termVars
      PROVE  Terms
  BY <1>1 DEF termVars, BoundInv
<1>2. ASSUME NEW i \in Node, NEW t \in Nat, t <= MaxTerm, StepDown(i, t)
      PROVE  Terms
  BY <1>0, <1>2 DEF StepDown, BoundInv
<1>3. ASSUME NEW i \in Node, NEW S \in SUBSET Peers(i), StartElection(i, S)
      PROVE  BoundInv'
  <2>1. Terms
    BY <1>0, <1>3 DEF StartElection, BoundInv
  <2>2. Requests
    BY <1>0, <1>3 DEF StartElection, BoundInv
  <2> QED
    BY <1>3, <2>1, <2>2 DEF StartElection, BoundInv
<1>4. ASSUME NEW m \in voteReqs, RequestVote(m)
      PROVE  BoundInv'
  <2>1. m.dst \in Node /\ m.term \in Nat /\ m.term <= MaxTerm
    BY DEF TypeInv, TypeOK, VoteReq, BoundInv
  <2>2. Terms
    BY <1>0, <1>4, <2>1 DEF RequestVote, BoundInv
  <2>3. Replies
    BY <1>4, <2>1, <2>2 DEF RequestVote, BoundInv
  <2> QED
    BY <1>4, <2>2, <2>3 DEF RequestVote, BoundInv
<1>5. ASSUME NEW m \in voteReps, VoteReply(m)
      PROVE  BoundInv'
  <2>1. m.dst \in Node /\ m.term \in Nat /\ m.term <= MaxTerm
    BY DEF TypeInv, TypeOK, VoteRep, BoundInv
  <2>2. CASE StepDown(m.dst, m.term) /\ elections' = elections
    <3>1. Terms
      BY <1>2, <2>1, <2>2
    <3> QED
      BY <1>5, <2>2, <3>1 DEF VoteReply, BoundInv
  <2>3. CASE UNCHANGED termVars /\ elections' = elections
    BY <1>1, <1>5, <2>3 DEF VoteReply, BoundInv
  <2>4. ASSUME NEW voters, state[m.dst] = Candidate, BecomeLeader(m.dst, voters),
               currentTerm' = currentTerm
        PROVE  BoundInv'
    <3>1. currentTerm[m.dst] > 0
      BY <2>1, <2>4 DEF BoundInv, Candidate, Follower
    <3>2. Terms
      BY <1>0, <2>1, <2>4, <3>1 DEF BecomeLeader, BoundInv
    <3>3. Wins0
      BY <2>4, <3>1 DEF BecomeLeader, BoundInv
    <3> QED
      BY <1>5, <3>2, <3>3 DEF VoteReply, BoundInv
  <2> QED
    BY <1>5, <2>2, <2>3, <2>4 DEF VoteReply, Awaits
<1>6. ASSUME NEW i \in Node, NEW S \in SUBSET Peers(i), SendHeartbeats(i, S)
      PROVE  BoundInv'
  <2>1. Requests
    BY <1>6 DEF SendHeartbeats, BoundInv
  <2> QED
    BY <1>1, <1>6, <2>1 DEF SendHeartbeats, BoundInv, termVars
<1>7. ASSUME NEW m \in appendReqs, AppendEntries(m)
      PROVE  BoundInv'
  <2>1. m.dst \in Node /\ m.term \in Nat /\ m.term <= MaxTerm
    BY DEF TypeInv, TypeOK, AppendReq, BoundInv
  <2>2. Terms
    <3>1. CASE UNCHANGED termVars
      BY <1>1, <3>1
    <3>2. CASE Follow(m.dst, m.src, m.term)
      BY <1>0, <2>1, <3>2 DEF Follow, BoundInv
    <3> QED
      BY <1>7, <3>1, <3>2 DEF AppendEntries
  <2>3. Replies
    BY <1>7, <2>1 DEF AppendEntries, BoundInv
  <2> QED
    BY <1>7, <2>2, <2>3 DEF AppendEntries, BoundInv
<1>8. ASSUME NEW m \in appendReps, AppendReply(m)
      PROVE  BoundInv'
  <2>1. m.dst \in Node /\ m.term \in Nat /\ m.term <= MaxTerm
    BY DEF TypeInv, TypeOK, AppendRep, BoundInv
  <2>2. Terms
    BY <1>1, <1>2, <1>8, <2>1 DEF AppendReply
  <2> QED
    BY <1>8, <2>2 DEF AppendReply, BoundInv
<1>9. ASSUME NEW i \in Node, Restart(i)
      PROVE  FALSE
  BY <1>9 DEF Restart, NoRestart
<1>10. CASE RPCFails
  <2>1. UNCHANGED termVars /\ elections' = elections
        /\ voteReqs' \subseteq voteReqs /\ voteReps' \subseteq voteReps
        /\ appendReqs' \subseteq appendReqs /\ appendReps' \subseteq appendReps
    BY <1>10 DEF RPCFails
  <2> QED
    BY <1>1, <2>1 DEF BoundInv
<1>11. ASSUME \/ \E i \in Node : TimerFires(i) \/ \E c \in Command : Start(i, c)
              \/ \E i \in Killable : Stop(i)
              \/ UNCHANGED vars
       PROVE  BoundInv'
  <2>1. UNCHANGED <<termVars, netVars, elections>>
    BY <1>11 DEF TimerFires, Start, Stop, vars
  <2> QED
    BY <2>1 DEF BoundInv, termVars, netVars
<1> QED
  BY <1>3, <1>4, <1>5, <1>6, <1>7, <1>8, <1>9, <1>10, <1>11 DEF Next

-----------------------------------------------------------------------------
(* What later leaders keep.                                                *)

\* A leader of term T may rely on an entry of term s that a majority holds: no
\* term lies between the two, or no term is to come.
MayRely(T, s) == s >= T - 1 \/ T = MaxTerm

\* All of a majority are in Q, or have not gone beyond term T.
Backed(T, Q) == IsMajority({v \in Node : v \in Q \/ currentTerm[v] <= T})

\* Later leaders hold what the leader of term T has up to entry k, the nodes in
\* Q hold it, and those who got the vote of one in Q are not behind it.
KeptFor(L, T, k, Q) ==
    /\ \A U \in Nat : U > T /\ WonTerm(U) => Share(L[U], L[T], k)
    /\ \A p \in Q : currentTerm[p] >= T /\ Share(log[p], L[T], k)
    /\ \A c \in Node : \A v \in Q :
          state[c] = Candidate /\ currentTerm[c] > T /\ VotedNow(v, c)
          => LogNotBehind(log[c], k, L[T][k].term)

LEMMA UpToDateNotBehind ==
    ASSUME NEW l, IsLog(l), NEW h, IsLog(h), NEW k \in Nat, NEW s \in Nat,
           UpToDate(l, Len(h), TermAt(h, Len(h))), LogNotBehind(l, k, s)
    PROVE  LogNotBehind(h, k, s)
<1>1. /\ Len(l) \in Nat /\ Len(h) \in Nat /\ LastIndex(l) = Len(l)
      /\ TermAt(l, Len(l)) \in Nat /\ TermAt(h, Len(h)) \in Nat
  BY LastIndexIsLength, TermType DEF IsLog
<1> QED
  BY <1>1 DEF UpToDate, LastTerm, LogNotBehind

\* A candidate that is not behind a kept entry has it.
LEMMA CandidateHasIt ==
    ASSUME RaftInv, BoundInv, NEW L \in Histories, History(L),
           NEW T \in Nat, NEW k \in 1 .. Len(L[T]), MayRely(T, L[T][k].term),
           NEW Q, KeptFor(L, T, k, Q),
           NEW c \in Node, currentTerm[c] > T, LogNotBehind(log[c], k, L[T][k].term)
    PROVE  Share(log[c], L[T], k)
<1>1. /\ currentTerm[c] \in Nat /\ currentTerm[c] <= MaxTerm /\ MaxTerm \in Nat
      /\ log[c] \in Seq(Entry) /\ FromLeaders(L, log[c], currentTerm[c])
  BY RaftAssumption DEF RaftInv, TypeInv, TypeOK, BoundInv, History
<1>2. L[T][k].term >= T - 1
  BY <1>1 DEF MayRely
<1>3. /\ \A t \in Nat : FromLeaders(L, L[t], t)
      /\ \A U \in Nat : U > T /\ L[U] # <<>> => Share(L[U], L[T], k)
  BY DEF History, KeptFor
<1> QED
  BY <1>1, <1>2, <1>3, NotBehindShare

\* A request of a later term, or of term T, leaves in its receiver's log what
\* later leaders keep.
LEMMA MergeKeepsIt ==
    ASSUME RaftInv, NEW L \in Histories, History(L), NEW T \in Nat, NEW k \in 1 .. Len(L[T]),
           \A U \in Nat : U > T /\ WonTerm(U) => Share(L[U], L[T], k),
           NEW m \in appendReqs, Merges(m), T <= m.term,
           NEW n \in Nat, n <= k, Share(log[m.dst], L[T], n)
    PROVE  Share(log'[m.dst], L[T], n)
<1>1. /\ m.term \in Nat /\ WonTerm(m.term) /\ m.dst \in Node
      /\ log'[m.dst] \in Seq(Entry)
      /\ Share(log[m.dst], L[m.term], n) => Share(log'[m.dst], L[m.term], n)
  BY Merged
<1>2. /\ Len(L[T]) \in Nat /\ Len(L[m.term]) \in Nat /\ Len(log[m.dst]) \in Nat
      /\ Len(log'[m.dst]) \in Nat /\ k \in Nat
  BY <1>1, HistoryLogs, LogEntries DEF RaftInv
<1>3. Share(L[m.term], L[T], n)
  <2>1. CASE m.term = T
    BY <1>2, <2>1 DEF Share
  <2>2. CASE m.term > T
    <3>1. Share(L[m.term], L[T], k)
      BY <1>1, <2>2
    <3> QED
      BY <1>2, <3>1, ShareLess
  <2> QED
    BY <1>1, <2>1, <2>2
<1>4. Share(log[m.dst], L[m.term], n)
  BY <1>2, <1>3 DEF Share
<1> QED
  BY <1>1, <1>2, <1>3, <1>4 DEF Share

\* A log that grows, in any other way, keeps all it had.
LEMMA LogKeepsIt ==
    ASSUME NoRestart, RaftInv, RaftInv', [Next]_vars, NEW L \in Histories, History(L),
           NEW T \in Nat, NEW k \in 1 .. Len(L[T]),
           \A U \in Nat : U > T /\ WonTerm(U) => Share(L[U], L[T], k),
           NEW p \in Node, T <= currentTerm[p], NEW n \in Nat, n <= k, Share(log[p], L[T], n)
    PROVE  Share(log'[p], L[T], n)
<1>1. log[p] \in Seq(Entry) /\ Len(log[p]) \in Nat /\ currentTerm[p] \in Nat
  BY LogEntries DEF RaftInv, TypeInv, TypeOK
<1>2. ASSUME NEW e, log'[p] = Append(log[p], e)
      PROVE  Share(log'[p], L[T], n)
  <2>1. Len(log'[p]) = Len(log[p]) + 1 /\ \A q \in 1 .. Len(log[p]) : log'[p][q] = log[p][q]
    BY <1>1, <1>2
  <2> QED
    BY <1>1, <2>1 DEF Share
<1>3. ASSUME NEW m \in appendReqs, m.dst = p, Merges(m)
      PROVE  Share(log'[p], L[T], n)
  <2>1. m.term \in Nat /\ T <= m.term
    BY <1>1, <1>3, Merged
  <2> QED
    BY <1>3, <2>1, MergeKeepsIt
<1> QED
  BY <1>2, <1>3, LogChange DEF RaftInv

\* What is kept stays kept, for as long as a majority backs it.
LEMMA KeptForStep ==
    ASSUME NoRestart, RaftInv, RaftInv', BoundInv, [Next]_vars,
           NEW L \in Histories, History(L), NEW N \in Histories, History(N)', Extends(L, N),
           NEW T \in Nat, NEW k \in 1 .. Len(L[T]), MayRely(T, L[T][k].term),
           NEW Q \in SUBSET Node, Backed(T, Q), KeptFor(L, T, k, Q)
    PROVE  KeptFor(N, T, k, Q)'
<1>1. /\ Len(L[T]) \in Nat /\ Len(N[T]) \in Nat /\ k \in Nat
      /\ Share(N[T], L[T], Len(L[T])) /\ N[T][k] = L[T][k]
  BY HistoryLogs DEF Extends, Share
<1>2. ASSUME NEW l, Share(l, L[T], k)
      PROVE  Share(l, N[T], k)
  BY <1>1, <1>2 DEF Share
<1>3. \A p \in Node : /\ log[p] \in Seq(Entry) /\ IsLog(log[p]) /\ currentTerm[p] \in Nat
                      /\ currentTerm'[p] \in Nat /\ currentTerm[p] <= currentTerm'[p]
                      /\ FromLeaders(L, log[p], currentTerm[p])
  BY TermsGrow, LogsAreLogs DEF RaftInv, TypeInv, TypeOK, History
<1>4. ASSUME NEW U \in Nat, U > T, WonTerm(U)'
      PROVE  Share(N[U], N[T], k)
  <2>1. CASE WonTerm(U)
    <3>1. Share(L[U], L[T], k) /\ Share(N[U], L[U], Len(L[U])) /\ Len(L[U]) \in Nat
          /\ Len(N[U]) \in Nat
      BY <1>4, <2>1, HistoryLogs DEF KeptFor, Extends
    <3>2. Share(N[U], L[T], k)
      BY <1>1, <3>1 DEF Share
    <3> QED
      BY <1>2, <3>2
  <2>2. CASE ~WonTerm(U)
    <3>1. PICK c \in Node, voters \in SUBSET Node : Wins(c, voters)
      BY <1>4, <2>2, WinStep DEF WonTerm, RaftInv
    <3>2. U = currentTerm[c] /\ state'[c] = Leader /\ currentTerm'[c] = currentTerm[c]
          /\ log'[c] = log[c]
      BY <1>4, <2>2, <3>1, WinsFirst DEF WonTerm, Wins, logVars
    <3>3. N[U] = log[c]
      BY <3>2 DEF History
    <3> DEFINE B == {v \in Node : v \in Q \/ currentTerm[v] <= T}
    <3>4. PICK v \in Node : v \in voters /\ v \in B
      <4>1. IsMajority(voters) /\ IsMajority(B) /\ B \in SUBSET Node
        BY <3>1 DEF Wins, Backed
      <4> HIDE DEF B
      <4> QED
        BY <4>1, MajoritiesMeet
    <3>5. VotedNow(v, c) /\ state[c] = Candidate
      BY <3>1, <3>4 DEF Wins
    <3>6. currentTerm[v] >= currentTerm[c]
      BY <3>5, VoterTerm DEF RaftInv, Candidate, Follower
    <3>7. v \in Q
      BY <1>3, <1>4, <3>2, <3>4, <3>6
    <3>8. LogNotBehind(log[c], k, L[T][k].term)
      BY <1>4, <3>2, <3>5, <3>7 DEF KeptFor
    <3>9. Share(log[c], L[T], k)
      BY <1>4, <3>2, <3>8, CandidateHasIt
    <3> QED
      BY <1>2, <3>3, <3>9
  <2> QED
    BY <2>1, <2>2
<1>5. ASSUME NEW p \in Q
      PROVE  currentTerm'[p] >= T /\ Share(log'[p], N[T], k)
  <2>1. p \in Node /\ currentTerm[p] >= T /\ Share(log[p], L[T], k)
    BY DEF KeptFor
  <2>2. Share(log'[p], L[T], k)
    <3>1. \A U \in Nat : U > T /\ WonTerm(U) => Share(L[U], L[T], k)
      BY DEF KeptFor
    <3>2. T <= currentTerm[p] /\ k <= k
      BY <1>1, <1>3, <2>1
    <3> QED
      BY <1>1, <2>1, <3>1, <3>2, LogKeepsIt
  <2> QED
    BY <1>2, <1>3, <2>1, <2>2
<1>6. ASSUME NEW c \in Node, NEW v \in Q, state'[c] = Candidate, currentTerm'[c] > T,
             VotedNow(v, c)'
      PROVE  LogNotBehind(log'[c], k, N[T][k].term)
  <2> DEFINE s == L[T][k].term
  <2>1. v \in Node /\ s \in Nat /\ Share(log[v], L[T], k)
    BY HistoryLogs DEF KeptFor
  <2>2. LogNotBehind(log[v], k, s)
    <3>1. \A t \in Nat : FromLeaders(L, L[t], t)
      BY DEF History
    <3> QED
      BY <1>3, <2>1, <3>1, ShareNotBehind
  <2> HIDE DEF s
  <2>3. /\ log'[c] = log[c]
        /\ \/ v = c
           \/ /\ state[c] = Candidate /\ currentTerm'[c] = currentTerm[c]
              /\ \/ VotedNow(v, c)
                 \/ UpToDate(log[v], Len(log[c]), TermAt(log[c], Len(log[c])))
    BY <1>6, <2>1, VotedStep DEF RaftInv
  <2>4. CASE v = c
    BY <1>1, <2>2, <2>3, <2>4 DEF s
  <2>5. CASE state[c] = Candidate /\ currentTerm[c] > T /\ VotedNow(v, c)
    BY <1>1, <2>3, <2>5 DEF KeptFor
  <2>6. CASE UpToDate(log[v], Len(log[c]), TermAt(log[c], Len(log[c])))
    <3>1. LogNotBehind(log[c], k, s)
      BY <1>1, <1>3, <2>1, <2>2, <2>6, UpToDateNotBehind
    <3> QED
      BY <1>1, <2>3, <3>1 DEF s
  <2> QED
    BY <1>6, <2>3, <2>4, <2>5, <2>6
<1> QED
  BY <1>4, <1>5, <1>6 DEF KeptFor

-----------------------------------------------------------------------------
(* What a leader may count on.                                             *)

\* Leader i of term T may come to know, or knows already, that a majority holds
\* its entry k; Q are the nodes that have said so.
Chosen(i, k, T, Q) ==
    /\ state[i] = Leader /\ currentTerm[i] = T
    /\ k \in 1 .. Len(log[i]) /\ MayRely(T, log[i][k].term)
    /\ \A p \in Node : p \in Q <=> Acked(i, k, p)
    /\ Backed(T, Q)

KeptInv(L) ==
    \A i \in Node : \A k \in Nat, T \in Nat : \A Q \in SUBSET Node :
        Chosen(i, k, T, Q) => KeptFor(L, T, k, Q)

\* Nobody has gone beyond the term of a leader that a majority has not gone
\* beyond, but with the vote of a node that knows.
FreshKept ==
    \A L : \A i \in Node : \A k \in Nat, T \in Nat :
        /\ History(L) /\ state[i] = Leader /\ currentTerm[i] = T
        /\ k <= Len(log[i]) /\ Backed(T, {i})
        => KeptFor(L, T, k, {i})

LEMMA FreshHolds == RaftInv => FreshKept
<1> SUFFICES ASSUME RaftInv, NEW L, NEW i \in Node, NEW k \in Nat, NEW T \in Nat,
                    History(L), state[i] = Leader, currentTerm[i] = T,
                    k <= Len(log[i]), Backed(T, {i})
             PROVE  KeptFor(L, T, k, {i})
  BY DEF FreshKept
<1>1. \A p \in Node : currentTerm[p] \in Nat
  BY DEF RaftInv, TypeInv, TypeOK
<1>2. ASSUME NEW U \in Nat, U > T, WonTerm(U)
      PROVE  FALSE
  <2>1. PICK e \in elections : e.term = U
    BY <1>2 DEF WonTerm
  <2>2. e.leader \in Node /\ e.voters \in SUBSET Node /\ IsMajority(e.voters)
    BY DEF RaftInv, TypeInv, TypeOK, VoteInv
  <2> DEFINE B == {v \in Node : v \in {i} \/ currentTerm[v] <= T}
  <2>3. PICK v \in Node : v \in e.voters /\ v \in B
    <3>1. IsMajority(B) /\ B \in SUBSET Node
      BY DEF Backed
    <3> HIDE DEF B
    <3> QED
      BY <2>2, <3>1, MajoritiesMeet
  <2>4. VoteIsFor(v, U, e.leader)
    BY <2>1, <2>3 DEF VoteIsFor
  <2>5. currentTerm[v] >= U
    BY <2>2, <2>4 DEF RaftInv, VoteInv
  <2> QED
    BY <1>1, <1>2, <2>3, <2>5
<1>3. currentTerm[i] >= T /\ Share(log[i], L[T], k)
  BY LogEntries DEF History, Share, RaftInv
<1>4. ASSUME NEW c \in Node, state[c] = Candidate, currentTerm[c] > T, VotedNow(i, c)
      PROVE  FALSE
  BY <1>1, <1>4, VoterTerm DEF RaftInv, Candidate, Follower
<1> QED
  BY <1>2, <1>3, <1>4 DEF KeptFor

\* VoterTerm, of the state after a step.
VotersReached ==
    \A c, v \in Node : state[c] # Follower /\ VotedNow(v, c)
                       => currentTerm[v] >= currentTerm[c]

LEMMA VotersReachedNext == RaftInv' => VotersReached'
<1>1. RaftInv => VotersReached
  BY VoterTerm DEF RaftInv, VotersReached
<1> QED
  BY <1>1, PTL

LEMMA FreshNext == RaftInv' => FreshKept'
BY FreshHolds, PTL

LEMMA KeptInit ==
    ASSUME Init, NEW L
    PROVE  KeptInv(L)
BY DEF Init, KeptInv, Chosen, Leader, Follower

\* Of an entry that is new to its leader only the leader knows.
LEMMA NewlyAcked ==
    ASSUME NoRestart, RaftInv, RaftInv', [Next]_vars, NEW L \in Histories, History(L),
           NEW i \in Node, state'[i] = Leader, NEW k \in Nat \ {0},
           state[i] = Leader /\ currentTerm[i] = currentTerm'[i] => k > Len(log[i]),
           NEW p \in Node, Acked(i, k, p)'
    PROVE  p = i
<1> SUFFICES ASSUME p # i PROVE FALSE
  OBVIOUS
<1>1. CASE state[i] = Leader /\ currentTerm[i] = currentTerm'[i]
  <2>1. k > Len(log[i]) /\ Len(log[i]) \in Nat /\ L[currentTerm[i]] = log[i]
    BY <1>1, LogEntries DEF RaftInv, History
  <2>2. CASE matchIndex[i][p] >= k
    <3>1. matchIndex[i][p] <= Len(log[i]) /\ matchIndex[i][p] \in Nat
      BY <1>1 DEF RaftInv, HoldInv, Held, Peers, TypeInv, TypeOK
    <3> QED
      BY <2>1, <2>2, <3>1
  <2>3. ASSUME NEW m \in appendReps, m.success, m.dst = i, m.reqTerm = currentTerm[i],
               m.matched >= k
        PROVE  FALSE
    <3>1. m.matched <= Len(log[i]) /\ m.matched \in Nat
      BY <1>1, <2>3 DEF RaftInv, HoldInv, Held, TypeInv, TypeOK, AppendRep
    <3> QED
      BY <2>1, <2>3, <3>1
  <2>4. ASSUME NEW m \in appendReqs, m.term = currentTerm[i], Merges(m),
               m.prevLogIndex + Len(m.entries) >= k
        PROVE  FALSE
    <3>1. m.prevLogIndex + Len(m.entries) <= Len(log[i])
          /\ m.prevLogIndex + Len(m.entries) \in Nat
      BY <2>1, <2>4, Merged DEF History, SliceOf
    <3> QED
      BY <2>1, <2>4, <3>1
  <2>5. \/ Acked(i, k, p)
        \/ \E m \in appendReqs : /\ m.src = i /\ m.dst = p /\ m.term = currentTerm[i]
                                 /\ m.prevLogIndex + Len(m.entries) >= k
                                 /\ Merges(m)
    BY <1>1, AckedStep DEF RaftInv
  <2> QED
    BY <2>2, <2>3, <2>4, <2>5 DEF Acked
<1>2. CASE ~(state[i] = Leader /\ currentTerm[i] = currentTerm'[i])
  <2>1. ~WonTerm(currentTerm'[i])
    BY <1>2, LeaderLog
  <2>2. PICK c \in Node, voters \in SUBSET Node : Wins(c, voters)
    BY <1>2, WinStep DEF RaftInv
  <2>3. c = i
    <3> SUFFICES ASSUME c # i PROVE FALSE
      OBVIOUS
    <3>1. state'[i] = state[i] /\ currentTerm' = currentTerm
      BY <2>2, WinsFirst DEF Wins
    <3> QED
      BY <1>2, <3>1
  <2>4. /\ matchIndex'[i][p] = 0 /\ appendReps' = appendReps
    BY <2>2, <2>3 DEF Wins, BecomeLeader, RaftInv, TypeInv, TypeOK
  <2>5. \A m \in appendReps : m.dst = i => m.reqTerm # currentTerm'[i]
    BY <2>1 DEF RaftInv, HoldInv, Won, WonTerm
  <2> QED
    BY <2>4, <2>5 DEF Acked
<1> QED
  BY <1>1, <1>2

LEMMA KeptStep ==
    ASSUME NoRestart, RaftInv, RaftInv', BoundInv, [Next]_vars,
           NEW L \in Histories, History(L), NEW N \in Histories, History(N)', Extends(L, N),
           KeptInv(L)
    PROVE  KeptInv(N)'
<1> SUFFICES ASSUME NEW i \in Node, NEW k \in Nat, NEW T \in Nat, NEW Q \in SUBSET Node,
                    Chosen(i, k, T, Q)'
             PROVE  KeptFor(N, T, k, Q)'
  BY DEF KeptInv
<1>1. /\ state'[i] = Leader /\ currentTerm'[i] = T
      /\ k \in 1 .. Len(log'[i]) /\ MayRely(T, log'[i][k].term)
      /\ \A p \in Node : p \in Q <=> Acked(i, k, p)'
      /\ IsMajority({v \in Node : v \in Q \/ currentTerm'[v] <= T})
  BY DEF Chosen, Backed
<1>2. \A v \in Node : /\ currentTerm[v] \in Nat /\ currentTerm'[v] \in Nat
                      /\ currentTerm[v] <= currentTerm'[v] /\ Len(log[v]) \in Nat
  BY TermsGrow, LogEntries DEF RaftInv, TypeInv, TypeOK
<1>3. Len(log'[i]) \in Nat /\ k \in Nat \ {0} /\ N[T] = log'[i] /\ Len(L[T]) \in Nat
  BY <1>1, HistoryLogs DEF History
<1>4. CASE state[i] = Leader /\ currentTerm[i] = T /\ k <= Len(log[i])
  <2>1. L[T] = log[i] /\ k \in 1 .. Len(L[T]) /\ L[T][k] = log'[i][k]
    <3>1. L[T] = log[i] /\ Share(N[T], L[T], Len(L[T]))
      BY <1>4 DEF History, Extends
    <3> QED
      BY <1>3, <1>4, <3>1 DEF Share
  <2>2. PICK R \in SUBSET Node : R = {p \in Node : Acked(i, k, p)}
    OBVIOUS
  \* Who knows now and did not has taken a request in.
  <2>3. ASSUME NEW q \in Q, q \notin R
        PROVE  \E m \in appendReqs : /\ m.dst = q /\ m.term = T /\ Merges(m)
                                     /\ m.prevLogIndex + Len(m.entries) >= k
    <3>1. Acked(i, k, q)' /\ ~Acked(i, k, q)
      BY <1>1, <2>2, <2>3
    <3> QED
      BY <1>1, <1>3, <1>4, <3>1, AckedStep DEF RaftInv
  <2>4. Backed(T, R)
    <3> DEFINE A == {v \in Node : v \in Q \/ currentTerm'[v] <= T}
               B == {v \in Node : v \in R \/ currentTerm[v] <= T}
    <3>1. ASSUME NEW v \in A
          PROVE  v \in B
      <4>1. CASE v \in Q /\ v \notin R
        BY <2>3, <4>1, Merged
      <4>2. CASE v \in R
        BY <4>2
      <4>3. CASE currentTerm'[v] <= T
        BY <1>2, <4>3
      <4> QED
        BY <4>1, <4>2, <4>3
    <3>2. A \in SUBSET Node /\ B \in SUBSET Node /\ IsMajority(A)
      BY <1>1
    <3> HIDE DEF A, B
    <3>3. IsMajority(B)
      BY <3>1, <3>2, MajorityGrows
    <3> QED
      BY <3>3 DEF B, Backed
  <2>5. KeptFor(L, T, k, R)
    <3>1. Chosen(i, k, T, R)
      BY <1>1, <1>4, <2>1, <2>2, <2>4 DEF Chosen
    <3> QED
      BY <3>1 DEF KeptInv
  <2>6. KeptFor(N, T, k, R)'
    <3>1. MayRely(T, L[T][k].term)
      BY <1>1, <2>1
    <3> QED
      BY <2>1, <2>4, <2>5, <3>1, KeptForStep
  <2>7. ASSUME NEW q \in Q, q \notin R
        PROVE  currentTerm'[q] = T /\ Share(log'[q], N[T], k)
    <3>1. PICK m \in appendReqs : /\ m.dst = q /\ m.term = T /\ Merges(m)
                                  /\ m.prevLogIndex + Len(m.entries) >= k
      BY <2>3, <2>7
    <3>2. currentTerm'[q] = T /\ Share(log'[q], L[T], m.prevLogIndex + Len(m.entries))
          /\ m.prevLogIndex + Len(m.entries) \in Nat
      BY <3>1, Merged
    <3>3. Share(N[T], L[T], Len(L[T]))
      BY DEF Extends
    <3> QED
      BY <1>3, <3>1, <3>2, <3>3 DEF Share
  <2>8. ASSUME NEW q \in Q, q \notin R, NEW c \in Node, state'[c] = Candidate,
               currentTerm'[c] > T, VotedNow(q, c)'
        PROVE  FALSE
    <3>1. currentTerm'[q] >= currentTerm'[c]
      <4>1. VotersReached'
        BY VotersReachedNext
      <4> QED
        BY <2>8, <4>1 DEF VotersReached, Candidate, Follower
    <3> QED
      BY <1>2, <2>7, <2>8, <3>1
  <2> QED
    BY <2>6, <2>7, <2>8, <1>2 DEF KeptFor
<1>5. CASE ~(state[i] = Leader /\ currentTerm[i] = T /\ k <= Len(log[i]))
  <2>1. ASSUME NEW p \in Q
        PROVE  p = i
    BY <1>1, <1>2, <1>3, <1>5, <2>1, NewlyAcked
  <2>2. i \in Q
    BY <1>1 DEF Acked
  <2>3. Q = {i}
    BY <2>1, <2>2
  <2>4. Backed(T, {i})'
    BY <1>1, <2>3 DEF Backed
  <2>5. FreshKept'
    BY FreshNext
  <2>6. KeptFor(N, T, k, {i})'
    <3>1. \A j \in Node : \A n \in Nat, U \in Nat :
             /\ History(N)' /\ state'[j] = Leader /\ currentTerm'[j] = U
             /\ n <= Len(log'[j]) /\ Backed(U, {j})'
             => KeptFor(N, U, n, {j})'
      BY <2>5 DEF FreshKept
    <3>2. k <= Len(log'[i])
      BY <1>1, <1>3
    <3> QED
      BY <1>1, <2>4, <3>1, <3>2
  <2> QED
    BY <2>3, <2>6
<1> QED
  BY <1>4, <1>5

-----------------------------------------------------------------------------
(* What is committed.                                                      *)

\* A majority holds entry k of the leader of term T, and later leaders do.
Durable(L, T, k) ==
    /\ k \in 1 .. Len(L[T]) /\ MayRely(T, L[T][k].term)
    /\ \E Q \in SUBSET Node : IsMajority(Q) /\ KeptFor(L, T, k, Q)

\* The durable entries that commit indexes rest on, by the term of the leader.
Marks == [Nat -> SUBSET Nat]

\* The first c entries of a log, as of term t, rest on a mark.
Known(L, D, t, l, c) ==
    c = 0 \/ \E T \in Nat : /\ T <= t /\ Share(l, L[T], c)
                            /\ \E k \in D[T] : c <= k

\* What is committed or announced as such is known, and the state machine of a
\* node has been given exactly that, from the node's log.
CommitInv(L, D) ==
    /\ \A T \in Nat : \A k \in D[T] : Durable(L, T, k)
    /\ \A p \in Node :
          /\ lastApplied[p] = commitIndex[p] /\ Len(applied[p]) = commitIndex[p]
          /\ Known(L, D, currentTerm[p], log[p], commitIndex[p])
          /\ \A k \in 1 .. commitIndex[p] : applied[p][k] = log[p][k].command
    /\ \A m \in appendReqs :
          /\ m.leaderCommit <= m.prevLogIndex + Len(m.entries)
          /\ Known(L, D, m.term, L[m.term], m.leaderCommit)

\* A leader only counts on what it may rely on.
CountsSafe ==
    \A i \in Node :
        /\ state[i] = Leader /\ state'[i] = Leader /\ currentTerm'[i] = currentTerm[i]
        /\ commitIndex'[i] > commitIndex[i]
        => MayRely(currentTerm[i], log[i][commitIndex'[i]].term)

\* The first entries of a log that rest on a mark do so in a later history, of
\* every log that has them.
LEMMA KnownLater ==
    ASSUME NEW L \in Histories, NEW N \in Histories, Extends(L, N),
           NEW D \in Marks, NEW E \in Marks, \A T \in Nat : D[T] \subseteq E[T],
           NEW t \in Nat, NEW u \in Nat, t <= u, NEW c \in Nat, NEW l, NEW g,
           Known(L, D, t, l, c), Share(g, l, c), Len(l) \in Nat, Len(g) \in Nat
    PROVE  Known(N, E, u, g, c)
<1>1. CASE c = 0
  BY <1>1 DEF Known
<1>2. ASSUME NEW T \in Nat, T <= t, Share(l, L[T], c), NEW k \in D[T], c <= k
      PROVE  Known(N, E, u, g, c)
  <2>1. Share(N[T], L[T], Len(L[T])) /\ Len(N[T]) \in Nat /\ Len(L[T]) \in Nat
    BY HistoryLogs DEF Extends
  <2>2. Share(g, N[T], c)
    BY <1>2, <2>1 DEF Share
  <2>3. T <= u /\ k \in E[T]
    BY <1>2
  <2> QED
    BY <1>2, <2>2, <2>3 DEF Known
<1> QED
  BY <1>1, <1>2 DEF Known

LEMMA KnownShort ==
    ASSUME NEW L, NEW D, NEW t, NEW l, Len(l) \in Nat, NEW c \in Nat, Known(L, D, t, l, c)
    PROVE  c <= Len(l)
BY DEF Known, Share

\* What a node has committed is in its log after the step too.
LEMMA CommittedKept ==
    ASSUME NoRestart, RaftInv, RaftInv', [Next]_vars, NEW L \in Histories, History(L),
           NEW D \in Marks, CommitInv(L, D), NEW p \in Node
    PROVE  Share(log'[p], log[p], commitIndex[p])
<1>1. /\ Len(log[p]) \in Nat /\ Len(log'[p]) \in Nat /\ commitIndex[p] \in Nat
      /\ currentTerm[p] \in Nat
  BY LogEntries DEF RaftInv, TypeInv, TypeOK
<1>2. Known(L, D, currentTerm[p], log[p], commitIndex[p])
  BY DEF CommitInv
<1>3. CASE commitIndex[p] = 0
  BY <1>1, <1>3 DEF Share
<1>4. ASSUME NEW T \in Nat, T <= currentTerm[p], Share(log[p], L[T], commitIndex[p]),
             NEW k \in D[T], commitIndex[p] <= k
      PROVE  Share(log'[p], log[p], commitIndex[p])
  <2>1. Durable(L, T, k)
    BY DEF CommitInv
  <2>2. /\ k \in 1 .. Len(L[T]) /\ Len(L[T]) \in Nat
        /\ \A U \in Nat : U > T /\ WonTerm(U) => Share(L[U], L[T], k)
    BY <2>1, HistoryLogs DEF Durable, KeptFor
  <2>3. Share(log'[p], L[T], commitIndex[p])
    BY <1>1, <1>4, <2>2, LogKeepsIt
  <2> QED
    BY <1>1, <1>4, <2>2, <2>3 DEF Share
<1> QED
  BY <1>2, <1>3, <1>4 DEF Known

\* An entry that a leader commits is durable.
LEMMA CommitDurable ==
    ASSUME RaftInv, NEW L \in Histories, History(L), KeptInv(L),
           NEW p \in Node, state[p] = Leader, NEW k \in 1 .. Len(log[p]),
           MayRely(currentTerm[p], log[p][k].term),
           IsMajority({q \in Node : Acked(p, k, q)})
    PROVE  Durable(L, currentTerm[p], k)
<1>1. PICK T \in Nat : T = currentTerm[p]
  BY DEF RaftInv, TypeInv, TypeOK
<1>2. PICK Q \in SUBSET Node : Q = {q \in Node : Acked(p, k, q)}
  OBVIOUS
<1>3. Backed(T, Q)
  <2> DEFINE B == {v \in Node : v \in Q \/ currentTerm[v] <= T}
  <2>1. Q \subseteq B /\ B \in SUBSET Node
    OBVIOUS
  <2> HIDE DEF B
  <2>2. IsMajority(B)
    BY <1>2, <2>1, MajorityGrows
  <2> QED
    BY <2>2 DEF B, Backed
<1>4. L[T] = log[p] /\ k \in Nat
  BY <1>1, LogEntries DEF History, RaftInv
<1>5. KeptFor(L, T, k, Q)
  <2>1. Chosen(p, k, T, Q)
    BY <1>1, <1>2, <1>3 DEF Chosen
  <2> QED
    BY <1>4, <2>1 DEF KeptInv
<1> QED
  BY <1>1, <1>2, <1>4, <1>5 DEF Durable

LEMMA DurableStep ==
    ASSUME NoRestart, RaftInv, RaftInv', BoundInv, [Next]_vars,
           NEW L \in Histories, History(L), NEW N \in Histories, History(N)', Extends(L, N),
           NEW T \in Nat, NEW k \in Nat, Durable(L, T, k)
    PROVE  Durable(N, T, k)'
<1>1. PICK Q \in SUBSET Node : IsMajority(Q) /\ KeptFor(L, T, k, Q)
  BY DEF Durable
<1>2. Backed(T, Q)
  <2> DEFINE B == {v \in Node : v \in Q \/ currentTerm[v] <= T}
  <2>1. Q \subseteq B /\ B \in SUBSET Node
    OBVIOUS
  <2> HIDE DEF B
  <2>2. IsMajority(B)
    BY <1>1, <2>1, MajorityGrows
  <2> QED
    BY <2>2 DEF B, Backed
<1>3. k \in 1 .. Len(L[T]) /\ MayRely(T, L[T][k].term)
  BY DEF Durable
<1>4. KeptFor(N, T, k, Q)'
  BY <1>1, <1>2, <1>3, KeptForStep
<1>5. k \in 1 .. Len(N[T]) /\ N[T][k] = L[T][k]
  <2>1. Share(N[T], L[T], Len(L[T])) /\ Len(L[T]) \in Nat /\ Len(N[T]) \in Nat
    BY HistoryLogs DEF Extends
  <2> QED
    BY <1>3, <2>1 DEF Share
<1> QED
  BY <1>1, <1>3, <1>4, <1>5 DEF Durable

\* applyCommitted, asked for no less than it has applied.
LEMMA AppliedTo ==
    ASSUME TypeInv, NEW p \in Node, NEW g, IsLog(g), NEW commit \in Nat,
           lastApplied[p] <= commit, commit <= Len(g), ApplyCommitted(p, g, commit)
    PROVE  /\ lastApplied'[p] = commit /\ Len(applied'[p]) = commit
           /\ \A k \in 1 .. commit : applied'[p][k] = IF k <= lastApplied[p]
                                                     THEN applied[p][k] ELSE g[k].command
<1>1. /\ lastApplied \in [Node -> Nat] /\ applied \in [Node -> Seq(Command)]
      /\ Len(applied[p]) = lastApplied[p] /\ Len(g) \in Nat
  BY DEF TypeInv, TypeOK, AppliedExactly, IsLog
<1>2. /\ Len(applied'[p]) = lastApplied'[p]
      /\ \A k \in 1 .. Len(applied'[p]) :
            IF k <= Len(applied[p]) THEN applied'[p][k] = applied[p][k]
            ELSE k \in 1 .. Len(g) /\ applied'[p][k] = g[k].command
  BY <1>1, ApplyCommittedStep
<1>3. lastApplied'[p] = commit
  BY <1>1 DEF ApplyCommitted
<1> QED
  BY <1>1, <1>2, <1>3

\* What a step commits on a node is known, and it is what the node applies.
LEMMA CommitNode ==
    ASSUME NoRestart, RaftInv, RaftInv', BoundInv, [Next]_vars, CountsSafe,
           NEW L \in Histories, History(L), NEW N \in Histories, History(N)', Extends(L, N),
           KeptInv(L), NEW D \in Marks, CommitInv(L, D), NEW E \in Marks,
           \A T \in Nat : D[T] \subseteq E[T],
           \A T \in Nat, k \in Nat : Durable(L, T, k) => k \in E[T],
           NEW p \in Node
    PROVE  /\ lastApplied'[p] = commitIndex'[p] /\ Len(applied'[p]) = commitIndex'[p]
           /\ Known(N, E, currentTerm'[p], log'[p], commitIndex'[p])
           /\ \A k \in 1 .. commitIndex'[p] : applied'[p][k] = log'[p][k].command
           /\ commitIndex'[p] >= commitIndex[p]
<1> DEFINE c == commitIndex[p]
           d == commitIndex'[p]
           l == log[p]
           g == log'[p]
           Result == /\ lastApplied'[p] = d /\ Len(applied'[p]) = d
                     /\ Known(N, E, currentTerm'[p], g, d)
                     /\ \A k \in 1 .. d : applied'[p][k] = g[k].command
                     /\ d >= c
<1>1. /\ Len(l) \in Nat /\ Len(g) \in Nat /\ c \in Nat /\ d \in Nat /\ IsLog(g)
      /\ currentTerm[p] \in Nat /\ currentTerm'[p] \in Nat /\ currentTerm[p] <= currentTerm'[p]
  <2>1. IsLog(g)
    <3>1. g \in Seq(Entry) /\ \A k \in 1 .. Len(g) : g[k].index = k
      BY DEF RaftInv, TypeInv, TypeOK, IndexIsPosition
    <3> QED
      BY <3>1 DEF IsLog
  <2>2. /\ Len(l) \in Nat /\ currentTerm[p] \in Nat /\ currentTerm[p] <= currentTerm'[p]
    BY LogEntries, TermsGrow DEF RaftInv
  <2>3. Len(g) \in Nat /\ c \in Nat /\ d \in Nat /\ currentTerm'[p] \in Nat
    BY <2>1 DEF RaftInv, TypeInv, TypeOK, IsLog
  <2> QED
    BY <2>1, <2>2, <2>3
<1>2. /\ lastApplied[p] = c /\ Len(applied[p]) = c /\ Known(L, D, currentTerm[p], l, c)
      /\ \A k \in 1 .. c : applied[p][k] = l[k].command
  BY DEF CommitInv
<1>3. Share(g, l, c)
  BY CommittedKept
<1>4. Known(N, E, currentTerm'[p], g, c)
  BY <1>1, <1>2, <1>3, KnownLater
<1> HIDE DEF c, d, l, g
<1>5. ASSUME lastApplied'[p] = lastApplied[p], applied'[p] = applied[p], d = c
      PROVE  Result
  BY <1>1, <1>2, <1>3, <1>4, <1>5 DEF Share
<1>6. ASSUME ApplyCommitted(p, g, d), d >= c, d <= Len(g), Known(N, E, currentTerm'[p], g, d)
      PROVE  Result
  <2>1. /\ lastApplied'[p] = d /\ Len(applied'[p]) = d
        /\ \A k \in 1 .. d : applied'[p][k] = IF k <= c THEN applied[p][k] ELSE g[k].command
    BY <1>1, <1>2, <1>6, AppliedTo DEF RaftInv
  <2>2. ASSUME NEW k \in 1 .. d
        PROVE  applied'[p][k] = g[k].command
    <3>1. CASE k <= c
      BY <1>1, <1>2, <1>3, <2>1, <3>1 DEF Share
    <3>2. CASE ~(k <= c)
      BY <2>1, <3>2
    <3> QED
      BY <3>1, <3>2
  <2> QED
    BY <1>6, <2>1, <2>2
<1>7. ASSUME NEW m \in appendReqs, m.dst = p, Merges(m)
      PROVE  Result
  <2> DEFINE h    == L[m.term]
             last == m.prevLogIndex + Len(m.entries)
  <2>1. /\ m.term \in Nat /\ last \in Nat /\ currentTerm'[p] = m.term /\ Share(g, h, last)
        /\ Len(h) \in Nat /\ m.leaderCommit \in Nat
    BY <1>7, Merged, HistoryLogs DEF g, RaftInv, TypeInv, TypeOK, AppendReq
  <2>2. /\ d = (IF m.leaderCommit <= c THEN c
                ELSE IF m.leaderCommit > LastIndex(g) THEN LastIndex(g) ELSE m.leaderCommit)
        /\ ApplyCommitted(p, g, d)
    <3>1. log \in [Node -> Seq(Entry)] /\ commitIndex \in [Node -> Nat]
      BY DEF RaftInv, TypeInv, TypeOK
    <3>2. log'[p] = MergeEntries(log[p], m.entries)
      BY <1>7, <3>1 DEF Merges
    <3> QED
      BY <1>7, <3>1, <3>2 DEF Merges, c, d, g
  <2>3. m.leaderCommit <= last /\ Known(L, D, m.term, h, m.leaderCommit)
    BY DEF CommitInv
  <2>4. LastIndex(g) = Len(g) /\ last <= Len(g)
    BY <1>1, <2>1, LastIndexIsLength DEF IsLog, Share
  <2>5. c <= Len(g)
    BY <1>3 DEF Share
  <2> HIDE DEF h, last
  <2>6. CASE m.leaderCommit <= c
    <3>1. d = c
      BY <2>2, <2>6
    <3> QED
      BY <1>1, <1>4, <1>6, <2>2, <2>5, <3>1
  <2>7. CASE ~(m.leaderCommit <= c)
    <3>1. d = m.leaderCommit /\ d >= c /\ d <= Len(g) /\ d <= last
      BY <1>1, <2>1, <2>2, <2>3, <2>4, <2>7
    <3>2. Share(g, h, d)
      BY <1>1, <2>1, <3>1, ShareLess
    <3>3. Known(N, E, currentTerm'[p], g, d)
      <4>1. m.term <= m.term
        BY <2>1
      <4>2. Known(N, E, m.term, g, d)
        BY <1>1, <2>1, <2>3, <3>1, <3>2, <4>1, KnownLater
      <4> QED
        BY <2>1, <4>2
    <3> QED
      BY <1>6, <2>2, <3>1, <3>3
  <2> QED
    BY <2>6, <2>7
<1>8. ASSUME state[p] = Leader, state'[p] = Leader, currentTerm'[p] = currentTerm[p], g = l,
             ApplyCommitted(p, l, d),
             \/ d = c
             \/ d > c /\ d <= Len(l) /\ IsMajority({q \in Node : Acked(p, d, q)})
      PROVE  Result
  <2>1. CASE d = c
    <3>1. c <= Len(g)
      BY <1>3 DEF Share
    <3> QED
      BY <1>1, <1>4, <1>6, <1>8, <2>1, <3>1
  <2>2. CASE d > c /\ d <= Len(l) /\ IsMajority({q \in Node : Acked(p, d, q)})
    <3>1. d \in 1 .. Len(l)
      BY <1>1, <2>2
    <3>2. MayRely(currentTerm[p], l[d].term)
      BY <1>8, <2>2 DEF CountsSafe, c, d, l
    <3>3. Durable(L, currentTerm[p], d)
      BY <1>8, <2>2, <3>1, <3>2, CommitDurable DEF l
    <3>4. d \in E[currentTerm[p]]
      BY <1>1, <3>3
    <3>5. Share(g, N[currentTerm[p]], d)
      <4>1. N[currentTerm[p]] = g
        BY <1>8 DEF History, g
      <4> QED
        BY <1>1, <1>8, <2>2, <4>1 DEF Share
    <3>6. Known(N, E, currentTerm'[p], g, d)
      <4>1. currentTerm[p] <= currentTerm'[p] /\ d <= d
        BY <1>1
      <4> QED
        BY <1>1, <3>4, <3>5, <4>1 DEF Known
    <3> QED
      BY <1>1, <1>6, <1>8, <2>2, <3>6
  <2> QED
    BY <1>8, <2>1, <2>2
<1> HIDE DEF Result
<1>9. Result
  <2>1. \/ UNCHANGED <<commitIndex[p], lastApplied[p], applied[p]>>
        \/ \E m \in appendReqs : m.dst = p /\ Merges(m)
        \/ /\ state[p] = Leader /\ state'[p] = Leader
           /\ currentTerm'[p] = currentTerm[p] /\ log'[p] = log[p]
           /\ ApplyCommitted(p, log[p], commitIndex'[p])
           /\ \/ commitIndex'[p] = commitIndex[p]
              \/ /\ commitIndex'[p] > commitIndex[p] /\ commitIndex'[p] <= Len(log[p])
                 /\ IsMajority({q \in Node : Acked(p, commitIndex'[p], q)})
    BY CommitChange DEF RaftInv
  <2> QED
    BY <1>5, <1>7, <1>8, <2>1 DEF c, d, l, g
<1> QED
  BY <1>9 DEF Result, c, d, g

LEMMA CommitStep ==
    ASSUME NoRestart, RaftInv, RaftInv', BoundInv, [Next]_vars, CountsSafe,
           NEW L \in Histories, History(L), NEW N \in Histories, History(N)', Extends(L, N),
           KeptInv(L), NEW D \in Marks, CommitInv(L, D)
    PROVE  \E E \in Marks : CommitInv(N, E)'
<1>1. PICK E \in Marks : E = [T \in Nat |-> {k \in Nat : Durable(N, T, k)'}]
  BY DEF Marks
<1>2. \A T \in Nat, k \in Nat : Durable(L, T, k) => k \in E[T]
  BY <1>1, DurableStep
<1>3. \A T \in Nat : D[T] \subseteq E[T]
  <2> SUFFICES ASSUME NEW T \in Nat, NEW k \in D[T]
               PROVE  k \in E[T]
    OBVIOUS
  <2>1. k \in Nat
    BY DEF Marks
  <2>2. Durable(L, T, k)
    BY DEF CommitInv
  <2> QED
    BY <1>2, <2>1, <2>2
<1>4. ASSUME NEW p \in Node
      PROVE  /\ lastApplied'[p] = commitIndex'[p] /\ Len(applied'[p]) = commitIndex'[p]
             /\ Known(N, E, currentTerm'[p], log'[p], commitIndex'[p])
             /\ \A k \in 1 .. commitIndex'[p] : applied'[p][k] = log'[p][k].command
  BY <1>2, <1>3, CommitNode
<1>5. ASSUME NEW m \in appendReqs'
      PROVE  /\ m.leaderCommit <= m.prevLogIndex + Len(m.entries)
             /\ Known(N, E, m.term, N[m.term], m.leaderCommit)
  <2>1. m.term \in Nat /\ m.leaderCommit \in Nat
    BY DEF RaftInv, TypeInv, TypeOK, AppendReq
  <2>2. /\ Len(L[m.term]) \in Nat /\ Len(N[m.term]) \in Nat
        /\ Share(N[m.term], L[m.term], Len(L[m.term]))
    BY <2>1, HistoryLogs DEF Extends
  <2>3. CASE m \in appendReqs
    <3>1. /\ m.leaderCommit <= m.prevLogIndex + Len(m.entries)
          /\ Known(L, D, m.term, L[m.term], m.leaderCommit)
      BY <2>3 DEF CommitInv
    <3>2. m.leaderCommit <= Len(L[m.term])
      BY <2>1, <2>2, <3>1, KnownShort
    <3>3. Share(N[m.term], L[m.term], m.leaderCommit) /\ m.term <= m.term
      BY <2>1, <2>2, <3>2, ShareLess
    <3>4. Known(N, E, m.term, N[m.term], m.leaderCommit)
      BY <1>3, <2>1, <2>2, <3>1, <3>3, KnownLater
    <3> QED
      BY <3>1, <3>4
  <2>4. ASSUME NEW i \in Node, NEW S \in SUBSET Peers(i), SendHeartbeats(i, S),
               m \notin appendReqs
        PROVE  /\ m.leaderCommit <= m.prevLogIndex + Len(m.entries)
               /\ Known(N, E, m.term, N[m.term], m.leaderCommit)
    <3>1. /\ m.term = currentTerm[i] /\ m.leaderCommit = commitIndex[i]
          /\ m.prevLogIndex + Len(m.entries) = Len(log[i])
      BY <2>4, SentSlice
    <3>2. /\ state'[i] = Leader /\ currentTerm'[i] = currentTerm[i] /\ log'[i] = log[i]
          /\ commitIndex'[i] = commitIndex[i]
      BY <2>4 DEF SendHeartbeats, termVars, logVars
    <3>3. N[m.term] = log[i]
      BY <3>1, <3>2 DEF History
    <3>4. Known(N, E, m.term, N[m.term], m.leaderCommit)
      BY <1>4, <3>1, <3>2, <3>3
    <3>5. m.leaderCommit <= Len(log[i])
      BY <2>1, <2>2, <3>3, <3>4, KnownShort
    <3> QED
      BY <3>1, <3>4, <3>5
  <2> QED
    BY <2>3, <2>4, RequestStep DEF RaftInv
<1>6. ASSUME NEW T \in Nat, NEW k \in E[T]
      PROVE  Durable(N, T, k)'
  BY <1>1
<1>7. CommitInv(N, E)'
  BY <1>4, <1>5, <1>6 DEF CommitInv
<1> QED
  BY <1>7

-----------------------------------------------------------------------------
(* What follows of all this for state machines and leaders.                *)

\* Two marks that cover position k stand for one entry there.
LEMMA MarksAgree ==
    ASSUME NEW L \in Histories, History(L), NEW T \in Nat, NEW U \in Nat, T <= U,
           NEW i \in Nat, NEW j \in Nat, Durable(L, T, i), Durable(L, U, j)
    PROVE  \A k \in 1 .. i : k <= j => L[T][k] = L[U][k]
<1>1. CASE T = U
  BY <1>1
<1>2. CASE T < U
  <2>1. Len(L[U]) \in Nat /\ j \in 1 .. Len(L[U])
    BY HistoryLogs DEF Durable
  <2>2. L[U] # <<>>
    BY <2>1
  <2>3. WonTerm(U)
    BY <2>2 DEF History
  <2>4. Share(L[U], L[T], i)
    BY <1>2, <2>3 DEF Durable, KeptFor
  <2> QED
    BY <2>4 DEF Share
<1> QED
  BY <1>1, <1>2

LEMMA CommitSafe ==
    ASSUME RaftInv, NEW L \in Histories, History(L), NEW D \in Marks, CommitInv(L, D)
    PROVE  StateMachineSafety
<1> SUFFICES ASSUME NEW i \in Node, NEW j \in Node, NEW k \in 1 .. Len(applied[i]),
                    k <= Len(applied[j])
             PROVE  applied[i][k] = applied[j][k]
  BY DEF StateMachineSafety
<1> DEFINE c == commitIndex[i]
           d == commitIndex[j]
<1>1. /\ c \in Nat /\ d \in Nat /\ k \in 1 .. c /\ k \in 1 .. d
      /\ applied[i][k] = log[i][k].command /\ applied[j][k] = log[j][k].command
  BY DEF CommitInv, RaftInv, TypeInv, TypeOK
<1>2. PICK T \in Nat : /\ Share(log[i], L[T], c) /\ \E a \in D[T] : c <= a
  BY <1>1 DEF CommitInv, Known
<1>3. PICK a \in D[T] : c <= a
  BY <1>2
<1>4. PICK U \in Nat : /\ Share(log[j], L[U], d) /\ \E b \in D[U] : d <= b
  BY <1>1 DEF CommitInv, Known
<1>5. PICK b \in D[U] : d <= b
  BY <1>4
<1>6. a \in Nat /\ b \in Nat /\ Durable(L, T, a) /\ Durable(L, U, b)
  BY DEF Marks, CommitInv
<1>7. k \in 1 .. a /\ k \in 1 .. b
  BY <1>1, <1>3, <1>5, <1>6
<1>8. L[T][k] = L[U][k]
  <2>1. CASE T <= U
    BY <1>6, <1>7, <2>1, MarksAgree
  <2>2. CASE U <= T
    BY <1>6, <1>7, <2>2, MarksAgree
  <2> QED
    BY <2>1, <2>2
<1>9. log[i][k] = L[T][k] /\ log[j][k] = L[U][k]
  BY <1>1, <1>2, <1>4 DEF Share
<1> QED
  BY <1>1, <1>8, <1>9

LEMMA KeptComplete ==
    ASSUME RaftInv, NEW L \in Histories, History(L), KeptInv(L)
    PROVE  LeaderCompleteness
<1> SUFFICES ASSUME NEW i \in Node, NEW j \in Node, NEW k \in 1 .. Len(log[i]),
                    state[i] = Leader, state[j] = Leader, currentTerm[j] > currentTerm[i],
                    log[i][k].term >= currentTerm[i] - 1,
                    IsMajority({i} \cup {p \in Peers(i) : matchIndex[i][p] >= k})
             PROVE  Has(log[j], k) /\ log[j][k] = log[i][k]
  BY DEF LeaderCompleteness
<1> DEFINE R == {i} \cup {p \in Peers(i) : matchIndex[i][p] >= k}
           A == {q \in Node : Acked(i, k, q)}
<1>1. /\ currentTerm[i] \in Nat /\ currentTerm[j] \in Nat /\ Len(log[i]) \in Nat
      /\ L[currentTerm[i]] = log[i] /\ L[currentTerm[j]] = log[j]
  BY LogEntries DEF RaftInv, History
<1>2. IsMajority(A)
  <2>1. R \subseteq A /\ R \in SUBSET Node /\ A \in SUBSET Node /\ IsMajority(R)
    BY DEF Acked, Peers
  <2> HIDE DEF R, A
  <2> QED
    BY <2>1, MajorityGrows
<1>3. MayRely(currentTerm[i], log[i][k].term)
  BY <1>1 DEF MayRely
<1>4. Durable(L, currentTerm[i], k)
  BY <1>2, <1>3, CommitDurable
<1>5. WonTerm(currentTerm[j])
  BY OneLeaderHolds DEF OneLeader
<1>6. Share(log[j], log[i], k)
  BY <1>1, <1>4, <1>5 DEF Durable, KeptFor
<1> QED
  BY <1>1, <1>6 DEF Share, Has

\* What a step commits, and what it does to what was committed.
LEMMA CommitKeeps ==
    ASSUME NoRestart, RaftInv, RaftInv', [Next]_vars, NEW L \in Histories, History(L),
           NEW D \in Marks, CommitInv(L, D), NEW p \in Node
    PROVE  /\ commitIndex'[p] >= commitIndex[p]
           /\ commitIndex[p] <= Len(log'[p])
           /\ SubSeq(log'[p], 1, commitIndex[p]) = SubSeq(log[p], 1, commitIndex[p])
<1> DEFINE c == commitIndex[p]
           l == log[p]
           g == log'[p]
<1>1. Share(g, l, c)
  BY CommittedKept
<1>2. c \in Nat /\ l \in Seq(Entry) /\ g \in Seq(Entry) /\ commitIndex'[p] \in Nat
  BY DEF RaftInv, TypeInv, TypeOK
<1>3. commitIndex'[p] >= c
  <2>1. ASSUME NEW m \in appendReqs, m.dst = p, Merges(m)
        PROVE  commitIndex'[p] >= c
    <3>1. IsLog(g) /\ m.leaderCommit \in Nat
      BY <2>1, Merged DEF RaftInv, TypeInv, TypeOK, AppendReq
    <3>2. LastIndex(g) = Len(g) /\ Len(g) \in Nat
      BY <3>1, LastIndexIsLength DEF IsLog
    <3>3. commitIndex'[p] = (IF m.leaderCommit <= c THEN c
                             ELSE IF m.leaderCommit > LastIndex(g) THEN LastIndex(g)
                             ELSE m.leaderCommit)
      <4>1. log \in [Node -> Seq(Entry)] /\ commitIndex \in [Node -> Nat]
        BY DEF RaftInv, TypeInv, TypeOK
      <4>2. log'[p] = MergeEntries(log[p], m.entries)
        BY <2>1, <4>1 DEF Merges
      <4> QED
        BY <2>1, <4>1, <4>2 DEF Merges
    <3> QED
      BY <1>1, <1>2, <3>1, <3>2, <3>3 DEF Share
  <2>2. \/ commitIndex'[p] = commitIndex[p]
        \/ \E m \in appendReqs : m.dst = p /\ Merges(m)
        \/ commitIndex'[p] > commitIndex[p]
    <3>1. TypeInv
      BY DEF RaftInv
    <3> QED
      BY <3>1, CommitChange
  <2> QED
    BY <1>2, <2>1, <2>2
<1> HIDE DEF c, l, g
<1>4. SubSeq(g, 1, c) = SubSeq(l, 1, c)
  <2>1. c <= Len(g) /\ c <= Len(l) /\ \A q \in 1 .. c : g[q] = l[q]
    BY <1>1 DEF Share
  <2>2. SubSeq(g, 1, c) = [q \in 1 .. c |-> g[q]]
    BY <1>2, <2>1
  <2>3. SubSeq(l, 1, c) = [q \in 1 .. c |-> l[q]]
    BY <1>2, <2>1
  <2> QED
    BY <2>1, <2>2, <2>3
<1> QED
  BY <1>1, <1>3, <1>4 DEF Share, c, l, g

-----------------------------------------------------------------------------
(* The induction, for what leaders know and for what they commit.          *)

KeptState == \E L \in Histories : History(L) /\ KeptInv(L)

CommitState ==
    \E L \in Histories : History(L) /\ KeptInv(L) /\ \E D \in Marks : CommitInv(L, D)

LEMMA CommitInit == Init => KeptState /\ CommitState
<1> SUFFICES ASSUME Init PROVE KeptState /\ CommitState
  OBVIOUS
<1>1. PICK L \in Histories : L = [t \in Nat |-> <<>>]
  BY EmptySeq DEF Histories
<1>2. PICK D \in Marks : D = [t \in Nat |-> {}]
  BY DEF Marks
<1>3. History(L)
  BY <1>1 DEF Init, History, FromLeaders, Leader, Follower
<1>4. KeptInv(L)
  BY KeptInit
<1>5. CommitInv(L, D)
  <2>1. \A T \in Nat : D[T] = {}
    BY <1>2
  <2> QED
    BY <2>1 DEF Init, CommitInv, Known
<1> QED
  BY <1>3, <1>4, <1>5 DEF KeptState, CommitState

LEMMA KeptStateStep ==
    ASSUME NoRestart, RaftInv, BoundInv, KeptState, [Next]_vars
    PROVE  RaftInv' /\ BoundInv' /\ KeptState'
<1>1. RaftInv' /\ BoundInv'
  BY RaftInvStep, BoundStep DEF RaftInv
<1>2. PICK L \in Histories : History(L) /\ KeptInv(L)
  BY DEF KeptState
<1>3. PICK N \in Histories : Extends(L, N) /\ History(N)'
  BY <1>1, <1>2, HistoryStep
<1>4. KeptInv(N)'
  BY <1>1, <1>2, <1>3, KeptStep
<1> QED
  BY <1>1, <1>3, <1>4 DEF KeptState

LEMMA CommitStateStep ==
    ASSUME NoRestart, RaftInv, BoundInv, CommitState, [Next]_vars, CountsSafe
    PROVE  RaftInv' /\ BoundInv' /\ CommitState'
<1>1. RaftInv' /\ BoundInv'
  BY RaftInvStep, BoundStep DEF RaftInv
<1>2. PICK L \in Histories : /\ History(L) /\ KeptInv(L)
                             /\ \E D \in Marks : CommitInv(L, D)
  BY DEF CommitState
<1>3. PICK D \in Marks : CommitInv(L, D)
  BY <1>2
<1>4. PICK N \in Histories : Extends(L, N) /\ History(N)'
  BY <1>1, <1>2, HistoryStep
<1>5. KeptInv(N)'
  BY <1>1, <1>2, <1>4, KeptStep
<1>6. \E E \in Marks : CommitInv(N, E)'
  BY <1>1, <1>2, <1>3, <1>4, CommitStep
<1> QED
  BY <1>1, <1>4, <1>5, <1>6 DEF CommitState

\* What CommitState says of a state, and of a step from it.
CommitHolds(i) ==
    /\ commitIndex'[i] >= commitIndex[i]
    /\ commitIndex[i] <= Len(log'[i])
    /\ SubSeq(log'[i], 1, commitIndex[i]) = SubSeq(log[i], 1, commitIndex[i])

LEMMA CommitStateSafe ==
    ASSUME RaftInv, CommitState
    PROVE  StateMachineSafety
BY CommitSafe DEF CommitState

LEMMA CommitStateKeeps ==
    ASSUME NoRestart, RaftInv, CommitState, [Next]_vars
    PROVE  \A i \in Node : CommitHolds(i)
<1>1. RaftInv'
  BY RaftInvStep
<1> QED
  BY <1>1, CommitKeeps DEF CommitState, CommitHolds

\* Of three terms a leader may rely on any.
LEMMA FewAreSafe ==
    ASSUME NoRestart, MaxTerm <= 3, RaftInv, BoundInv, CommitState, [Next]_vars
    PROVE  CountsSafe
<1> SUFFICES ASSUME NEW i \in Node, state[i] = Leader, state'[i] = Leader,
                    commitIndex'[i] > commitIndex[i]
             PROVE  MayRely(currentTerm[i], log[i][commitIndex'[i]].term)
  BY DEF CountsSafe
<1> DEFINE k == commitIndex'[i]
<1>1. PICK L \in Histories : History(L)
  BY DEF CommitState
<1>2. k <= Len(log[i])
  <2>1. ASSUME NEW m \in appendReqs, m.dst = i, Merges(m)
        PROVE  FALSE
    BY <1>1, <2>1, Merged DEF Follower, Leader
  <2>2. commitIndex[i] \in Nat
    BY DEF RaftInv, TypeInv, TypeOK
  <2>3. \/ commitIndex'[i] = commitIndex[i]
        \/ \E m \in appendReqs : m.dst = i /\ Merges(m)
        \/ k <= Len(log[i])
    <3>1. TypeInv
      BY DEF RaftInv
    <3> QED
      BY <3>1, CommitChange
  <2> QED
    BY <2>1, <2>2, <2>3
<1>3. /\ commitIndex[i] \in Nat /\ k \in Nat /\ Len(log[i]) \in Nat /\ currentTerm[i] \in Nat
      /\ currentTerm[i] <= MaxTerm /\ MaxTerm \in Nat
  <2>1. RaftInv'
    BY RaftInvStep
  <2> QED
    BY <2>1, LogEntries, RaftAssumption DEF RaftInv, TypeInv, TypeOK, BoundInv
<1>4. k \in 1 .. Len(log[i])
  BY <1>2, <1>3
<1> HIDE DEF k
<1>5. log[i][k].term \in Nat /\ Share(log[i], L[log[i][k].term], k)
  BY <1>1, <1>4, LogEntries DEF RaftInv, History, FromLeaders
<1>6. log[i][k].term > 0
  <2>1. L[log[i][k].term] # <<>>
    BY <1>4, <1>5 DEF Share
  <2>2. WonTerm(log[i][k].term)
    BY <1>1, <1>5, <2>1 DEF History
  <2> QED
    BY <2>2 DEF WonTerm, BoundInv
<1>7. MayRely(currentTerm[i], log[i][k].term)
  BY <1>3, <1>5, <1>6 DEF MayRely
<1> QED
  BY <1>7 DEF k

\* Without restarts an entry that a leader of its own term or of the next knows
\* on a majority is in the log of every leader of a later term, however many
\* terms there are and whatever calls are lost, late or answered out of order.
THEOREM CompletenessCorrect == ASSUME NoRestart PROVE Spec => []LeaderCompleteness
<1> DEFINE IInv == RaftInv /\ BoundInv /\ KeptState
<1>1. Init => IInv
  BY RaftInvInit, BoundInit, CommitInit
<1>2. IInv /\ [Next]_vars => IInv'
  BY KeptStateStep
<1>3. IInv => LeaderCompleteness
  BY KeptComplete DEF KeptState
<1> QED
  BY <1>1, <1>2, <1>3, PTL DEF Spec

\* Without restarts no two state machines are given different commands in the
\* first three terms, with the commit rule the code has.  (In the fourth they
\* can be, as the run raft_old_term_commit shows.)
THEOREM StateMachinesAgreeThreeTerms ==
    ASSUME NoRestart, MaxTerm <= 3 PROVE Spec => []StateMachineSafety
<1> DEFINE IInv == RaftInv /\ BoundInv /\ CommitState
<1>1. Init => IInv
  BY RaftInvInit, BoundInit, CommitInit
<1>2. IInv /\ [Next]_vars => IInv'
  BY FewAreSafe, CommitStateStep
<1>3. IInv => StateMachineSafety
  BY CommitStateSafe
<1> QED
  BY <1>1, <1>2, <1>3, PTL DEF Spec

\* Nor is anything committed in them changed, cut off or taken back.
THEOREM CommittedStaysThreeTerms ==
    ASSUME NoRestart, MaxTerm <= 3 PROVE Spec => CommittedIsKept
<1> DEFINE IInv == RaftInv /\ BoundInv /\ CommitState
<1>1. Init => IInv
  BY RaftInvInit, BoundInit, CommitInit
<1>2. IInv /\ [Next]_vars => IInv'
  BY FewAreSafe, CommitStateStep
<1>3. IInv /\ [Next]_vars => [\A i \in Node : CommitHolds(i)]_vars
  BY CommitStateKeeps
<1>4. Spec => [][\A i \in Node : CommitHolds(i)]_vars
  BY <1>1, <1>2, <1>3, PTL DEF Spec
<1> QED
  BY <1>4 DEF CommittedIsKept, CommitHolds
=============================================================================
