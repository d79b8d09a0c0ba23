------------------------------ MODULE RaftLog ------------------------------
(***************************************************************************)
(* The in-memory log of a Raft node (internal/raft/log.go) and the two     *)
(* computations on logs its handlers make: the up-to-date test of a vote   *)
(* request (vote.go) and the merge of replicated entries                   *)
(* (append_entries.go).  A log is a sequence of entries; every entry also  *)
(* carries the Index the leader gave it, and the code mixes the two:       *)
(* LastIndex reads the stored Index of the last entry, while Get,          *)
(* EntriesFrom and TruncateFrom count positions.                           *)
(***************************************************************************)
EXTENDS Integers, Sequences

\* Get's second result: there is an entry at this position.
Has(l, index) == index # 0 /\ index <= Len(l)

\* The Term of the entry Get returns, which is the zero LogEntry when there
\* is none.
TermAt(l, index) == IF Has(l, index) THEN l[index].term ELSE 0

LastIndex(l) == IF l = <<>> THEN 0 ELSE l[Len(l)].index

LastTerm(l) == TermAt(l, LastIndex(l))

EntriesFrom(l, index) ==
    IF Has(l, index) THEN SubSeq(l, index, Len(l)) ELSE <<>>

NextEntry(l, term, command) ==
    [index |-> LastIndex(l) + 1, term |-> term, command |-> command]

\* Mutant of UpToDate: of two logs that end in the same term the shorter one
\* will do.
AnyLengthUpToDate(l, lastIndex, lastTerm) == lastTerm >= LastTerm(l)

\* A log that ends in (lastTerm, lastIndex) may lead a node that holds l.
UpToDate(l, lastIndex, lastTerm) ==
    \/ lastTerm > LastTerm(l)
    \/ lastTerm = LastTerm(l) /\ lastIndex >= LastIndex(l)

\* Mutant of PrevMatches: the term of the previous entry is not compared.
PrevExists(l, prevIndex, prevTerm) == prevIndex <= LastIndex(l)

\* The entry before the replicated ones is in l, with the leader's term.
PrevMatches(l, prevIndex, prevTerm) ==
    \/ prevIndex = 0
    \/ /\ prevIndex <= LastIndex(l)
       /\ Has(l, prevIndex)
       /\ l[prevIndex].term = prevTerm

(***************************************************************************)
(* The loop of AppendEntries over the new entries.  It skips an entry that *)
(* l already holds with the same term; at the first one that is missing or *)
(* has another term it cuts l there and appends that entry and every later *)
(* one.  Agrees says that the loop has skipped every entry up to position  *)
(* p.  The entries are consecutive and start at most one past the end of   *)
(* l; LogArray compares this with the loop itself.                         *)
(***************************************************************************)
Agrees(l, entries, p) ==
    \A q \in entries[1].index .. p :
        /\ Has(l, q)
        /\ l[q].term = entries[q - entries[1].index + 1].term

\* Mutant of MergeEntries: the log is cut at the first new entry even if it
\* agrees with the new ones.
CutAndAppend(l, entries) ==
    IF entries = <<>> THEN l
    ELSE SubSeq(l, 1, entries[1].index - 1) \o entries

\* Mutant of MergeEntries: entries are appended without cutting off those
\* they conflict with.
AppendUncut(l, entries) ==
    IF entries = <<>> THEN l
    ELSE IF Agrees(l, entries, entries[1].index + Len(entries) - 1) THEN l
    ELSE l \o entries

MergeEntries(l, entries) ==
    IF entries = <<>> THEN l ELSE
    LET first == entries[1].index
        last  == first + Len(entries) - 1
    IN  IF Agrees(l, entries, last) THEN l
        ELSE [p \in 1 .. last |-> IF Agrees(l, entries, p)
                                  THEN l[p] ELSE entries[p - first + 1]]
=============================================================================
