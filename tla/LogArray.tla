------------------------------ MODULE LogArray ------------------------------
(***************************************************************************)
(* One node's log as log.go keeps it: a slice of an array that other       *)
(* slices share.  EntriesFrom copies nothing, so a call that sendHeartbeats*)
(* makes reads the array while json.Marshal encodes it, in a goroutine     *)
(* that does not hold r.mu.  Meanwhile the node may follow another leader  *)
(* (rival) and merge its entries: TruncateFrom only shortens the slice, and*)
(* the next append writes into the same array while there is room in it.   *)
(*                                                                         *)
(* Every critical section of r.mu is one step, but for the loop of         *)
(* AppendEntries, which takes one step for each new entry; an element is   *)
(* read or written whole.                                                  *)
(***************************************************************************)
EXTENDS RaftLog, FiniteSets

CONSTANTS
    MaxTerm,  \* bound: the terms of leaders
    MaxLen,   \* bound: the lengths of the two logs
    MaxCalls  \* bound: calls under way at once

ASSUME LogArrayAssumption ==
    MaxTerm \in Nat /\ MaxLen \in Nat /\ MaxCalls \in Nat

VARIABLES
    arrays,   \* the arrays the log has had, the last one in use, each as far
              \* as it was written
    len, cap, \* the length and the capacity of r.log.Entries
    term, leading,
    rival,    \* the last other leader: its term and its log
    merge,    \* the entries AppendEntries is merging, if it is
    calls     \* calls under way, with what is marshalled of their entries

slice == <<arrays, len, cap>>
vars == <<slice, term, leading, rival, merge, calls>>

\* r.log.Entries.
Log == IF len = 0 THEN <<>> ELSE SubSeq(arrays[Len(arrays)], 1, len)

Entry(l, t) == NextEntry(l, t, t)

\* a with e written at position n, which is at most one past its end.
Written(a, n, e) ==
    [k \in 1 .. (IF n > Len(a) THEN n ELSE Len(a)) |-> IF k = n THEN e ELSE a[k]]

\* append(r.log.Entries[:n], e), which goes to an array of twice the size when
\* this one is full: 1, 2, 4, 8 entries.
AppendAt(n, e) ==
    /\ len' = n + 1
    /\ IF n = cap
       THEN /\ arrays' = Append(arrays, Append(Log, e))
            /\ cap' = IF cap = 0 THEN 1 ELSE 2 * cap
       ELSE /\ arrays' = [arrays EXCEPT ![Len(arrays)] = Written(@, n + 1, e)]
            /\ UNCHANGED cap

-----------------------------------------------------------------------------
Init ==
    /\ arrays = <<>> /\ len = 0 /\ cap = 0
    /\ term = 0 /\ leading = FALSE
    /\ rival = [term |-> 0, log |-> <<>>]
    /\ merge = {} /\ calls = {}

Unlocked == merge = {}

Elected ==
    /\ Unlocked /\ ~leading
    /\ \E t \in (term + 1) .. MaxTerm : t > rival.term /\ term' = t
    /\ leading' = TRUE
    /\ UNCHANGED <<slice, rival, merge, calls>>

Start ==
    /\ Unlocked /\ leading /\ len < MaxLen
    /\ AppendAt(len, Entry(Log, term))
    /\ UNCHANGED <<term, leading, rival, merge, calls>>

\* A call of sendHeartbeats holds a slice of the array and reads it later.
Send(next) ==
    /\ Unlocked /\ leading /\ Cardinality(calls) < MaxCalls
    /\ calls' = calls \cup
         {[array |-> Len(arrays), next |-> next, term |-> term,
           held |-> EntriesFrom(Log, next), sent |-> <<>>]}
    /\ UNCHANGED <<slice, term, leading, rival, merge>>

Marshal(c) ==
    LET k == Len(c.sent)
    IN  /\ k < Len(c.held)
        /\ calls' = (calls \ {c}) \cup
             {[c EXCEPT !.sent = Append(@, arrays[c.array][c.next + k])]}
        /\ UNCHANGED <<slice, term, leading, rival, merge>>

Return(c) ==
    /\ Len(c.sent) = Len(c.held)
    /\ calls' = calls \ {c}
    /\ UNCHANGED <<slice, term, leading, rival, merge>>

-----------------------------------------------------------------------------
(* Another leader and the merge of its entries.                            *)

\* Terms that do not fall, from low to high.
Runs(low, high, n) ==
    {f \in [1 .. n -> low .. high] : \A k \in 2 .. n : f[k - 1] <= f[k]}

\* Another node leads: it holds what this one does up to some index, and then
\* entries of terms that this node has not been in.  (LogMatching allows it
\* entries of lower terms too, which this node never held at those indexes.
\* The loop asks only whether two terms differ, so the higher ones stand for
\* them.)
RivalElected ==
    \E t \in (term + 1) .. MaxTerm, k \in 0 .. len : \E n \in 0 .. (MaxLen - k) :
    \E f \in Runs(term + 1, t, n) :
        /\ Unlocked /\ t > rival.term
        /\ rival' = [term |-> t,
                     log  |-> SubSeq(Log, 1, k) \o
                              [q \in 1 .. n |-> [index |-> k + q, term |-> f[q],
                                                 command |-> f[q]]]]
        /\ UNCHANGED <<slice, term, leading, merge, calls>>

RivalStart ==
    /\ Len(rival.log) < MaxLen /\ rival.term > 0
    /\ rival' = [rival EXCEPT !.log = Append(@, Entry(@, rival.term))]
    /\ UNCHANGED <<slice, term, leading, merge, calls>>

\* Mutant of IsOld: a call of an older term is not refused.
NeverOld(t) == FALSE

IsOld(t) == t < term

\* AppendEntries up to its loop, called with the rival's entries from prev + 1
\* to last: an early call, a late one or the same one again.
Follow(prev, last) ==
    /\ Unlocked /\ rival.term > 0 /\ ~IsOld(rival.term)
    /\ PrevMatches(Log, prev, TermAt(rival.log, prev))
    /\ term' = IF rival.term > term THEN rival.term ELSE term
    /\ leading' = FALSE
    /\ merge' = {[before |-> Log, entries |-> SubSeq(rival.log, prev + 1, last),
                  done |-> 0]}
    /\ UNCHANGED <<slice, rival, calls>>

\* Mutant of Conflicts: the terms are not compared.
Exists(e) == Has(Log, e.index)

\* There is an entry of another term where e goes.
Conflicts(e) == Has(Log, e.index) /\ Log[e.index].term # e.term

\* Mutant of TruncateFrom: the entry at index stays.
TruncateAfter(index) == index

\* The length to which r.log.TruncateFrom shortens the slice.
TruncateFrom(index) == index - 1

\* One iteration of the loop.
MergeNext ==
    /\ \E m \in merge :
          /\ m.done < Len(m.entries)
          /\ merge' = {[m EXCEPT !.done = @ + 1]}
          /\ LET e == m.entries[m.done + 1]
             IN  IF Conflicts(e) THEN AppendAt(TruncateFrom(e.index), e)
                 ELSE IF ~Has(Log, e.index) THEN AppendAt(len, e)
                 ELSE UNCHANGED slice
    /\ UNCHANGED <<term, leading, rival, calls>>

MergeEnds ==
    /\ \E m \in merge : m.done = Len(m.entries)
    /\ merge' = {}
    /\ UNCHANGED <<slice, term, leading, rival, calls>>

-----------------------------------------------------------------------------
Next ==
    \/ Elected \/ Start
    \/ \E next \in 1 .. (len + 1) : Send(next)
    \/ \E c \in calls : Marshal(c) \/ Return(c)
    \/ RivalElected \/ RivalStart
    \/ \E prev \in 0 .. Len(rival.log) :
          \E last \in prev .. Len(rival.log) : Follow(prev, last)
    \/ MergeNext \/ MergeEnds

Spec == Init /\ [][Next]_vars

-----------------------------------------------------------------------------
(* Properties.                                                             *)

LogEntry == [index : Nat, term : Nat, command : Nat]

\* Type correctness: the slice fits its array and the array its capacity, and
\* no call has marshalled more than it holds.
TypeOK ==
    /\ arrays \in Seq(Seq(LogEntry))
    /\ len \in Nat /\ cap \in Nat
    /\ IF arrays = <<>> THEN len = 0 /\ cap = 0
       ELSE len <= Len(arrays[Len(arrays)]) /\ Len(arrays[Len(arrays)]) <= cap
    /\ term \in 0 .. MaxTerm /\ leading \in BOOLEAN
    /\ rival \in [term : 0 .. MaxTerm, log : Seq(LogEntry)]
    /\ merge \subseteq [before : Seq(LogEntry), entries : Seq(LogEntry), done : Nat]
    /\ \A m \in merge : m.done <= Len(m.entries)
    /\ calls \subseteq [array : Nat, next : Nat \ {0}, term : Nat,
                        held : Seq(LogEntry), sent : Seq(LogEntry)]
    /\ \A c \in calls : Len(c.sent) <= Len(c.held)

\* Between any two iterations of the loop, however the entries of two leaders
\* have been cut and appended so far, every entry stands at the position its
\* Index names and the terms do not fall along the log nor exceed the node's:
\* the last term, by which isCandidateLogUpToDate compares logs (vote.go:55-73),
\* is the highest in it (append_entries.go:83-96, log.go:62-68).
InOrder ==
    \A k \in 1 .. len :
        /\ Log[k].index = k /\ Log[k].term <= term
        /\ k > 1 => Log[k - 1].term <= Log[k].term

\* After every iteration of the loop the log is what MergeEntries, which Raft
\* uses in its place, makes of the entries done so far: a late call with
\* fewer entries cuts nothing off, a conflict cuts off everything from there
\* on, and no write into a shared array reaches the slice in use
\* (append_entries.go:82-96).
LoopIsMerge ==
    \A m \in merge : Log = MergeEntries(m.before, SubSeq(m.entries, 1, m.done))

\* c has marshalled what the log held when the call was made.
IsAsHeld(c) == c.sent = SubSeq(c.held, 1, Len(c.sent))

\* As long as the node is in the term of a call, the entries marshalled for it
\* are those the log held when it was made: a leader only appends, beyond the
\* slice or into a new array (append_entries.go:166-185, log.go:26-36).
SentInTerm == \A c \in calls : c.term = term => IsAsHeld(c)

\* The README calls the store data-race free ("`go test -race`"): what a call
\* marshals does not depend on what the node does meanwhile
\* (append_entries.go:166-185).
SentAsHeld == \A c \in calls : IsAsHeld(c)
=============================================================================
