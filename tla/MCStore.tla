-------------------------------- MODULE MCStore --------------------------------
(***************************************************************************)
(* Instances of Store for TLC.                                             *)
(***************************************************************************)
EXTENDS Store, TLC

CONSTANTS w1, w2, w3, k1, k2, v1, v2

TwoWriters   == {w1, w2}
ThreeWriters == {w1, w2, w3}
OneKey       == {k1}
TwoKeys      == {k1, k2}
OneValue     == {v1}
TwoValues    == {v1, v2}
AllTears     == {"header", "body"}
NoTears      == {}

\* Writers, keys and values differ in nothing but their names.
Interchangeable ==
    Permutations({w1, w2, w3}) \cup Permutations({k1, k2})
      \cup Permutations({v1, v2})
================================================================================
