------------------------------ MODULE MCRaft ------------------------------
(***************************************************************************)
(* Instances of Raft for TLC.                                              *)
(***************************************************************************)
EXTENDS Raft, TLC

CONSTANTS n1, n2, n3, x, y

ThreeNodes == {n1, n2, n3}
TwoNodes   == {n1, n2}
NoNode     == {}
OneNode    == {n1}

OneCommand  == {x}
TwoCommands == {x, y}

\* The two nodes whose timers may expire are interchangeable, and so are the
\* commands.
Symmetric == Permutations({n1, n2}) \cup Permutations({x, y})

\* A scenario played slowly: one call of any kind, or one election about to
\* start, at a time.
OneAtATime ==
    Cardinality(voteReqs) + Cardinality(voteReps) + Cardinality(appendReqs)
      + Cardinality(appendReps) + Cardinality({i \in Node : electing[i]}) <= 1
=============================================================================
