------------------------------ MODULE DurableMap ------------------------------
(***************************************************************************)
(* What the store and its write-ahead log promise together: a journal of   *)
(* writes that only grows, and a map that shows a prefix of it, write by   *)
(* write.  A restart may show more of the journal and never less.          *)
(***************************************************************************)
EXTENDS Integers, Sequences

CONSTANTS Key, Value, None

VARIABLES
    journal,  \* the durable writes
    shown,    \* how many of them the map shows
    data      \* the map

vars == <<journal, shown, data>>

\* A write puts a value or, with None, deletes the key.
Write == [key : Key, value : Value \cup {None}]

Applied(m, r) == [m EXCEPT ![r.key] = r.value]

\* The map after the writes of s: the last one of a key counts.
MapOf(s) ==
    [k \in Key |->
        LET on == {i \in DOMAIN s : s[i].key = k}
        IN  IF on = {} THEN None
            ELSE s[CHOOSE i \in on : \A j \in on : j <= i].value]

Extends(t, s) == Len(s) <= Len(t) /\ SubSeq(t, 1, Len(s)) = s

Init == journal = <<>> /\ shown = 0 /\ data = [k \in Key |-> None]

Persist ==
    /\ journal' # journal /\ Extends(journal', journal)
    /\ UNCHANGED <<shown, data>>

Show ==
    /\ shown < Len(journal)
    /\ shown' = shown + 1
    /\ data' = Applied(data, journal[shown + 1])
    /\ UNCHANGED journal

Recover ==
    /\ shown' = Len(journal)
    /\ data' = MapOf(journal)
    /\ UNCHANGED journal

Next == Persist \/ Show \/ Recover

Spec == Init /\ [][Next]_vars
===============================================================================
