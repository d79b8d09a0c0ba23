------------------------------- MODULE MCEventBus -------------------------------
(***************************************************************************)
(* Instances of EventBus for TLC.                                          *)
(***************************************************************************)
EXTENDS EventBus, TLC

CONSTANTS n1, n2, c1, c2

OneNode    == {n1}
TwoNodes   == {n1, n2}
OneClient  == {c1}
TwoClients == {c1, c2}

\* Nodes and clients differ in nothing but their names.
Interchangeable == Permutations({n1, n2}) \cup Permutations({c1, c2})
=================================================================================
