------------------------------ MODULE Positions ------------------------------
(***************************************************************************)
(* Parts of a sequence: the records that are in a log's file, of those     *)
(* that were written to it.                                                *)
(***************************************************************************)
EXTENDS Integers, Sequences, FiniteSets

\* The k-th position in S.
Nth(S, k) == CHOOSE p \in S : Cardinality({q \in S : q <= p}) = k

\* The elements of s at the positions in S, in order.
Only(s, S) == [k \in 1 .. Cardinality(S) |-> s[Nth(S, k)]]
==============================================================================
