------------------------------- MODULE AgreedLog -------------------------------
(***************************************************************************)
(* What the nodes of one process promise together: there is one sequence   *)
(* of commands that only grows, and every node is given a prefix of it.    *)
(* It lasts as long as the process does.                                   *)
(***************************************************************************)
EXTENDS Integers, Sequences

CONSTANT Node

VARIABLES
    agreed,  \* the commands agreed upon
    given    \* what each node's state machine has been given

vars == <<agreed, given>>

\* Sequence t begins with s.
Begins(s, t) == Len(s) <= Len(t) /\ \A k \in 1 .. Len(s) : s[k] = t[k]

Nothing == agreed = <<>> /\ given = [i \in Node |-> <<>>]

Init == Nothing

\* Node i is given commands, old ones or new ones.
Give(i) ==
    /\ Begins(agreed, agreed')
    /\ Begins(given[i], given'[i]) /\ Begins(given'[i], agreed')
    /\ \A j \in Node \ {i} : given'[j] = given[j]

\* The process ends and is started again.
Forget == Nothing'

Next == (\E i \in Node : Give(i)) \/ Forget

Spec == Init /\ [][Next]_vars
================================================================================
