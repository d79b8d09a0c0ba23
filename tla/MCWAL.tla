-------------------------------- MODULE MCWAL --------------------------------
(***************************************************************************)
(* Instances of WAL for TLC.                                               *)
(***************************************************************************)
EXTENDS WAL, TLC

CONSTANTS w1, w2, w3, r

TwoWriters   == {w1, w2}
ThreeWriters == {w1, w2, w3}
OneRecord    == {r}

BodyTears == {"body"}
AllTears  == {"header", "body"}
NoTears   == {}

\* Writers differ in nothing but their names.
Interchangeable == Permutations({w1, w2, w3})
=============================================================================
