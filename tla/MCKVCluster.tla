----------------------------- MODULE MCKVCluster -----------------------------
(***************************************************************************)
(* Instances of KVCluster for TLC.                                         *)
(***************************************************************************)
EXTENDS KVCluster, TLC

CONSTANTS n1, n2, n3, c1, c2, k1, k2, v

ThreeNodes == {n1, n2, n3}
TwoNodes   == {n1, n2}
OneNode    == {n1}
LastNode   == {n3}
NoNode     == {}
TwoKeys    == {k1, k2}
OneValue   == {v}

PutAndPut == {[client |-> c1, key |-> k1, value |-> v],
              [client |-> c2, key |-> k2, value |-> v]}

\* The nodes that may lead are interchangeable, and so are the clients, each
\* with its key.
Interchangeable ==
    Permutations({n1, n2}) \cup
    {(c1 :> c2 @@ c2 :> c1 @@ k1 :> k2 @@ k2 :> k1)}

Requests == {cl \in Client : request[cl].stage \notin {"none", "done"}}

Elections == voteReqs \cup voteReps \cup {i \in Node : electing[i]}

\* A scenario played slowly: one call or election about to start at a time,
\* and one client.  While a node is stopped, and after a crash, there is one
\* term and one write only; while a node is stopped there is no election, and
\* while the process ends no request either.  After a crash there is one
\* candidate, and nothing follows a write that failed.
Slow ==
    /\ Cardinality(Elections) + Cardinality(appendReqs) + Cardinality(appendReps) <= 1
    /\ Cardinality(Requests) <= 1
    /\ crashes > 0 \/ (\E i \in Node : stopped[i])
       => \A i \in Node : currentTerm[i] <= 1 /\ Len(log[i]) <= 1
    /\ (\E i \in Node : stopped[i]) => crashes = 0 /\ Elections = {}
    /\ crashes > 0 => /\ \A i \in Node : ~gap[i]
                      /\ Cardinality({i \in Node : votedFor[i] = i}) <= 1
    /\ (\E i \in Node : exit[i] # "no") => Requests = {}
=============================================================================
