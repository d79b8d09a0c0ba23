---------------------------- MODULE LogArrayProofs ----------------------------
(***************************************************************************)
(* Proofs about LogArray, for every length of the logs, every number of    *)
(* terms and of calls under way.                                           *)
(***************************************************************************)
EXTENDS LogArray, TLAPS, SequenceTheorems

-----------------------------------------------------------------------------
(* The inductive invariant.                                                *)

\* A log whose entries stand at the positions their Index names.
IsLog(l) == l \in Seq(LogEntry) /\ \A k \in 1 .. Len(l) : l[k].index = k

\* Entries that follow each other, from a position that b has or ends before.
Continue(b, entries) ==
    \A k \in 1 .. Len(entries) :
        /\ entries[k].index = entries[1].index + k - 1
        /\ entries[1].index \in 1 .. Len(b) + 1

LogInv ==
    /\ TypeOK
    /\ IsLog(Log) /\ IsLog(rival.log)
    /\ \A m \in merge : IsLog(m.before) /\ Continue(m.before, m.entries)
    /\ LoopIsMerge

\* What a call holds was written in its array.
Fits(c) ==
    \A k \in 1 .. Len(c.held) :
        /\ c.array \in 1 .. Len(arrays)
        /\ c.next + k - 1 <= Len(arrays[c.array])

\* It is there still, in the slice in use if the array is the last.
Holds(c) ==
    \A k \in 1 .. Len(c.held) :
        /\ c.array = Len(arrays) => c.next + k - 1 <= len
        /\ c.held[k] = arrays[c.array][c.next + k - 1]

\* A node makes calls in terms it leads, and is no rival of its own: while it
\* is in the term of a call it leads, and merges nothing.
CallInv ==
    /\ leading => merge = {} /\ rival.term # term
    /\ \A c \in calls : Fits(c) /\ c.term <= term
    /\ \A c \in calls : c.term = term => leading /\ Holds(c) /\ IsAsHeld(c)

Inv == LogInv /\ CallInv

-----------------------------------------------------------------------------
(* The slice.                                                              *)

LEMMA PrefixIs ==
    ASSUME NEW a \in Seq(LogEntry), NEW n \in 0 .. Len(a)
    PROVE  /\ SubSeq(a, 1, n) \in Seq(LogEntry) /\ Len(SubSeq(a, 1, n)) = n
           /\ \A k \in 1 .. n : SubSeq(a, 1, n)[k] = a[k]
<1>1. \A k \in 1 .. n : a[k] \in LogEntry
  OBVIOUS
<1> QED
  BY <1>1

\* The first part of TypeOK, and the rest of it.
SliceOK ==
    /\ arrays \in Seq(Seq(LogEntry))
    /\ len \in Nat /\ cap \in Nat
    /\ IF arrays = <<>> THEN len = 0 /\ cap = 0
       ELSE len <= Len(arrays[Len(arrays)]) /\ Len(arrays[Len(arrays)]) <= cap

MergeOK ==
    /\ merge \subseteq [before : Seq(LogEntry), entries : Seq(LogEntry), done : Nat]
    /\ \A m \in merge : m.done <= Len(m.entries)

RestOK ==
    /\ term \in 0 .. MaxTerm /\ leading \in BOOLEAN
    /\ rival \in [term : 0 .. MaxTerm, log : Seq(LogEntry)]

CallsOK ==
    /\ calls \subseteq [array : Nat, next : Nat \ {0}, term : Nat,
                        held : Seq(LogEntry), sent : Seq(LogEntry)]
    /\ \A c \in calls : Len(c.sent) <= Len(c.held)

LEMMA TypeParts == TypeOK <=> SliceOK /\ RestOK /\ MergeOK /\ CallsOK
BY DEF TypeOK, SliceOK, RestOK, MergeOK, CallsOK

LEMMA LogIsSlice ==
    ASSUME SliceOK
    PROVE  /\ Log \in Seq(LogEntry) /\ Len(Log) = len
           /\ \A k \in 1 .. len : Log[k] = arrays[Len(arrays)][k]
<1>1. CASE len = 0
  BY <1>1 DEF Log
<1>2. CASE len # 0
  <2>1. arrays[Len(arrays)] \in Seq(LogEntry) /\ len \in 0 .. Len(arrays[Len(arrays)])
    BY <1>2 DEF SliceOK
  <2> QED
    BY <1>2, <2>1, PrefixIs DEF Log
<1> QED
  BY <1>1, <1>2

\* append(r.log.Entries[:n], e) leaves the first n entries and e, wherever it
\* writes it.
LEMMA WrittenIs ==
    ASSUME NEW a \in Seq(LogEntry), NEW n \in 1 .. Len(a) + 1, NEW e \in LogEntry
    PROVE  /\ Written(a, n, e) \in Seq(LogEntry)
           /\ Len(Written(a, n, e)) = IF n > Len(a) THEN n ELSE Len(a)
           /\ \A k \in 1 .. Len(a) : k # n => Written(a, n, e)[k] = a[k]
           /\ Written(a, n, e)[n] = e
<1> DEFINE m == IF n > Len(a) THEN n ELSE Len(a)
           f == [k \in 1 .. m |-> IF k = n THEN e ELSE a[k]]
<1>1. m \in Nat /\ n \in 1 .. m /\ \A k \in 1 .. m : k # n => k \in 1 .. Len(a)
  OBVIOUS
<1>2. Written(a, n, e) = f
  BY DEF Written
<1> HIDE DEF m
<1>3. f \in [1 .. m -> LogEntry]
  <2>1. \A k \in 1 .. m : k # n => a[k] \in LogEntry
    BY <1>1
  <2> QED
    BY <2>1
<1>4. f \in Seq(LogEntry) /\ Len(f) = m
  BY <1>1, <1>3
<1> QED
  BY <1>1, <1>2, <1>4 DEF m

\* append(r.log.Entries[:n], e) leaves the first n entries and e, wherever it
\* writes it.
LEMMA AppendAtIs ==
    ASSUME SliceOK, NEW n \in 0 .. len, NEW e \in LogEntry, AppendAt(n, e)
    PROVE  /\ SliceOK' /\ Log' \in Seq(LogEntry) /\ Len(Log') = n + 1
           /\ \A k \in 1 .. n : Log'[k] = Log[k]
           /\ Log'[n + 1] = e
<1>1. /\ Log \in Seq(LogEntry) /\ Len(Log) = len /\ len \in Nat /\ cap \in Nat
      /\ \A k \in 1 .. len : Log[k] = arrays[Len(arrays)][k]
      /\ arrays \in Seq(Seq(LogEntry)) /\ n \in Nat /\ n <= len /\ len <= cap
      /\ cap # 0 => /\ Len(arrays) \in 1 .. Len(arrays)
                    /\ arrays[Len(arrays)] \in Seq(LogEntry)
                    /\ len <= Len(arrays[Len(arrays)])
                    /\ Len(arrays[Len(arrays)]) <= cap
  <2>1. /\ len \in Nat /\ cap \in Nat /\ arrays \in Seq(Seq(LogEntry))
        /\ IF arrays = <<>> THEN len = 0 /\ cap = 0
           ELSE len <= Len(arrays[Len(arrays)]) /\ Len(arrays[Len(arrays)]) <= cap
    BY DEF SliceOK
  <2>2. arrays # <<>> => /\ Len(arrays) \in 1 .. Len(arrays)
                         /\ arrays[Len(arrays)] \in Seq(LogEntry)
                         /\ Len(arrays[Len(arrays)]) \in Nat
    BY <2>1
  <2> QED
    BY <2>1, <2>2, LogIsSlice
<1> DEFINE Top(a) == /\ arrays' \in Seq(Seq(LogEntry)) /\ arrays' # <<>>
                     /\ arrays'[Len(arrays')] = a /\ a \in Seq(LogEntry)
                     /\ cap' \in Nat /\ Len(a) <= cap' /\ n + 1 <= Len(a)
                     /\ a[n + 1] = e /\ \A k \in 1 .. n : a[k] = Log[k]
<1>0. PICK a : Top(a)
  <2>1. CASE n = cap
    <3> DEFINE a == Append(Log, e)
    <3>1. /\ n = cap /\ n = len /\ arrays' = Append(arrays, a)
          /\ cap' = IF cap = 0 THEN 1 ELSE 2 * cap
      BY <1>1, <2>1 DEF AppendAt
    <3>2. /\ a \in Seq(LogEntry) /\ Len(a) = n + 1 /\ a[n + 1] = e
          /\ \A k \in 1 .. n : a[k] = Log[k]
      BY <1>1, <3>1
    <3> HIDE DEF a
    <3>3. /\ arrays' \in Seq(Seq(LogEntry)) /\ Len(arrays') = Len(arrays) + 1
          /\ arrays'[Len(arrays) + 1] = a /\ Len(arrays) \in Nat
      BY <1>1, <3>1, <3>2
    <3>4. cap' \in Nat /\ n + 1 <= cap'
      <4>1. cap \in Nat /\ n = cap /\ cap' = IF cap = 0 THEN 1 ELSE 2 * cap
        BY <1>1, <3>1
      <4>2. CASE cap = 0
        BY <4>1, <4>2
      <4>3. CASE cap # 0
        <5>1. cap' = cap + cap /\ cap >= 1
          BY <4>1, <4>3
        <5> QED
          BY <4>1, <5>1
      <4> QED
        BY <4>2, <4>3
    <3>5. Top(a)
      BY <1>1, <3>2, <3>3, <3>4
    <3> QED
      BY <3>5
  <2>2. CASE n # cap
    <3> DEFINE g == Len(arrays)
               a == Written(arrays[g], n + 1, e)
    <3>1. n < cap /\ arrays' = [arrays EXCEPT ![g] = a] /\ cap' = cap
      BY <1>1, <2>2 DEF AppendAt
    <3>2. /\ g \in 1 .. Len(arrays) /\ arrays[g] \in Seq(LogEntry)
          /\ len <= Len(arrays[g]) /\ Len(arrays[g]) <= cap /\ Len(arrays[g]) \in Nat
          /\ n + 1 \in 1 .. Len(arrays[g]) + 1
      BY <1>1, <3>1
    <3>3. /\ a \in Seq(LogEntry) /\ a[n + 1] = e
          /\ Len(a) = IF n + 1 > Len(arrays[g]) THEN n + 1 ELSE Len(arrays[g])
          /\ \A k \in 1 .. Len(arrays[g]) : k # n + 1 => a[k] = arrays[g][k]
      BY <3>2, WrittenIs
    <3> HIDE DEF a
    <3>4. arrays' \in Seq(Seq(LogEntry)) /\ Len(arrays') = g /\ arrays'[g] = a
      BY <1>1, <3>1, <3>2, <3>3
    <3>5. ASSUME NEW k \in 1 .. n
          PROVE  a[k] = Log[k]
      <4>1. k \in 1 .. len /\ k \in 1 .. Len(arrays[g]) /\ k # n + 1
        BY <1>1, <3>2
      <4> QED
        BY <1>1, <3>3, <4>1
    <3>6. Top(a)
      BY <1>1, <3>1, <3>2, <3>3, <3>4, <3>5
    <3> QED
      BY <3>6
  <2> QED
    BY <2>1, <2>2
<1>2. len' = n + 1
  BY DEF AppendAt
<1>3. SliceOK'
  BY <1>1, <1>0, <1>2 DEF SliceOK
<1>4. Log' = SubSeq(a, 1, n + 1)
  BY <1>1, <1>0, <1>2 DEF Log
<1>5. n + 1 \in 0 .. Len(a)
  BY <1>1, <1>0
<1> QED
  BY <1>1, <1>0, <1>3, <1>4, <1>5, PrefixIs

-----------------------------------------------------------------------------
(* The merge, one entry at a time.                                         *)

\* l is b with the entries up to index j merged into it.
Merged(b, es, j, l) ==
    /\ Agrees(b, es, j) => l = b
    /\ ~Agrees(b, es, j) =>
          /\ l \in Seq(LogEntry) /\ Len(l) = j
          /\ \A p \in 1 .. j : l[p] = IF Agrees(b, es, p) THEN b[p]
                                      ELSE es[p - es[1].index + 1]

\* What MergeEntries makes of the first d entries, in terms of all of them.
LEMMA MergeIs ==
    ASSUME NEW b, IsLog(b), NEW es \in Seq(LogEntry), Continue(b, es),
           NEW d \in 0 .. Len(es), Len(es) # 0
    PROVE  Merged(b, es, es[1].index + d - 1, MergeEntries(b, SubSeq(es, 1, d)))
<1> DEFINE f == es[1].index
           ds == SubSeq(es, 1, d)
           A(p) == Agrees(b, es, p)
           l == MergeEntries(b, ds)
<1>1. /\ f \in 1 .. Len(b) + 1 /\ f \in Nat /\ d \in Nat /\ Len(b) \in Nat
      /\ Len(es) \in Nat /\ 1 \in 1 .. Len(es) /\ b \in Seq(LogEntry)
  BY DEF Continue, IsLog, LogEntry
<1>2. /\ ds \in Seq(LogEntry) /\ Len(ds) = d
      /\ \A k \in 1 .. d : ds[k] = es[k]
  BY PrefixIs
<1>3. CASE d = 0
  <2>1. ds = <<>>
    BY <1>2, <1>3
  <2>2. l = b
    BY <2>1 DEF MergeEntries
  <2>3. A(f + d - 1)
    BY <1>1, <1>3 DEF Agrees
  <2> QED
    BY <2>2, <2>3 DEF Merged
<1>4. CASE d # 0
  <2>1. ds # <<>> /\ ds[1].index = f
    BY <1>1, <1>2, <1>4
  <2>2. ASSUME NEW p \in 1 .. f + d - 1
        PROVE  Agrees(b, ds, p) = A(p)
    <3>1. ASSUME NEW q \in f .. p
          PROVE  ds[q - f + 1] = es[q - f + 1]
      <4>1. q - f + 1 \in 1 .. d
        BY <1>1
      <4> QED
        BY <1>2, <4>1
    <3> QED
      BY <2>1, <3>1, Zenon DEF Agrees
  <2>3. f + d - 1 \in 1 .. f + d - 1 /\ f + d - 1 \in Nat
    BY <1>1, <1>4
  <2> DEFINE g == [p \in 1 .. f + d - 1 |-> IF A(p) THEN b[p] ELSE es[p - f + 1]]
  <2>4. l = IF A(f + d - 1) THEN b ELSE g
    <3> DEFINE h == [p \in 1 .. f + d - 1 |->
                        IF Agrees(b, ds, p) THEN b[p] ELSE ds[p - f + 1]]
    <3>1. l = IF Agrees(b, ds, f + d - 1) THEN b ELSE h
      BY <1>2, <2>1, Zenon DEF MergeEntries
    <3>2. ASSUME NEW p \in 1 .. f + d - 1
          PROVE  (IF Agrees(b, ds, p) THEN b[p] ELSE ds[p - f + 1])
                    = IF A(p) THEN b[p] ELSE es[p - f + 1]
      <4>1. CASE A(p)
        BY <2>2, <4>1, Zenon
      <4>2. CASE ~A(p)
        <5>1. p \in f .. p
          BY <1>1, <4>2 DEF Agrees
        <5>2. p - f + 1 \in 1 .. d
          BY <1>1, <5>1
        <5> QED
          BY <1>2, <2>2, <4>2, <5>2, Zenon
      <4> QED
        BY <4>1, <4>2
    <3>3. h = g
      BY <3>2, Zenon
    <3> QED
      BY <2>2, <2>3, <3>1, <3>3, Zenon
  <2>5. ASSUME ~A(f + d - 1)
        PROVE  g \in Seq(LogEntry)
    <3>1. ASSUME NEW p \in 1 .. f + d - 1
          PROVE  (IF A(p) THEN b[p] ELSE es[p - f + 1]) \in LogEntry
      <4>1. CASE A(p)
        <5>1. p \in 1 .. Len(b)
          <6>1. CASE p < f
            BY <1>1, <6>1
          <6>2. CASE p >= f
            BY <1>1, <4>1, <6>2 DEF Agrees, Has
          <6> QED
            BY <1>1, <6>1, <6>2
        <5>2. b[p] \in LogEntry
          BY <1>1, <5>1
        <5> QED
          BY <4>1, <5>2
      <4>2. CASE ~A(p)
        <5>1. p \in f .. p
          BY <1>1, <4>2 DEF Agrees
        <5>2. p - f + 1 \in 1 .. Len(es)
          BY <1>1, <5>1
        <5>3. es[p - f + 1] \in LogEntry
          BY <5>2
        <5> QED
          BY <4>2, <5>3
      <4> QED
        BY <4>1, <4>2
    <3>2. g \in [1 .. f + d - 1 -> LogEntry]
      BY <3>1, Zenon
    <3> QED
      BY <2>3, <3>2
  <2>6. Len(g) = f + d - 1
    BY <2>3
  <2>7. A(f + d - 1) => l = b
    BY <2>4
  <2>8. ~A(f + d - 1) =>
           /\ l \in Seq(LogEntry) /\ Len(l) = f + d - 1
           /\ \A p \in 1 .. f + d - 1 :
                 l[p] = IF A(p) THEN b[p] ELSE es[p - f + 1]
    BY <2>4, <2>5, <2>6, Zenon
  <2> HIDE DEF l, ds
  <2> QED
    BY <2>7, <2>8, Zenon DEF Merged, l, ds
<1> QED
  BY <1>1, <1>3, <1>4

\* n is l after an iteration of the loop for e.
OneMore(l, e, n) ==
    LET differs == ~Has(l, e.index) \/ l[e.index].term # e.term
    IN  /\ e.index \in 1 .. Len(l) + 1
        /\ differs => /\ n \in Seq(LogEntry) /\ Len(n) = e.index
                      /\ \A k \in 1 .. e.index - 1 : n[k] = l[k]
                      /\ n[e.index] = e
        /\ ~differs => n = l

\* One iteration of the loop makes of what MergeEntries makes of the first d
\* entries what it makes of the first d + 1.
LEMMA MergeOneMore ==
    ASSUME NEW b, IsLog(b), NEW es \in Seq(LogEntry), Continue(b, es),
           NEW d \in 0 .. Len(es) - 1
    PROVE  OneMore(MergeEntries(b, SubSeq(es, 1, d)), es[d + 1],
                   MergeEntries(b, SubSeq(es, 1, d + 1)))
<1> DEFINE f == es[1].index
           A(p) == Agrees(b, es, p)
           l == MergeEntries(b, SubSeq(es, 1, d))
           n == MergeEntries(b, SubSeq(es, 1, d + 1))
           e == es[d + 1]
           i == f + d
<1>1. /\ f \in 1 .. Len(b) + 1 /\ f \in Nat /\ d \in Nat /\ Len(b) \in Nat
      /\ Len(es) \in Nat /\ 1 \in 1 .. Len(es) /\ d + 1 \in 1 .. Len(es)
      /\ b \in Seq(LogEntry)
  BY DEF Continue, IsLog, LogEntry
<1>2. e.index = i /\ i \in Nat /\ i >= 1
  BY <1>1 DEF Continue
<1>3. /\ A(i - 1) => l = b
      /\ ~A(i - 1) =>
            /\ l \in Seq(LogEntry) /\ Len(l) = i - 1
            /\ \A p \in 1 .. i - 1 : l[p] = IF A(p) THEN b[p] ELSE es[p - f + 1]
  <2>1. d \in 0 .. Len(es) /\ Len(es) # 0
    BY <1>1
  <2>2. Merged(b, es, f + d - 1, l)
    BY <2>1, MergeIs, Zenon
  <2>3. f + d - 1 = i - 1
    <3> HIDE DEF f
    <3> QED
      BY <1>1
  <2> QED
    BY <2>2, <2>3, Zenon DEF Merged
<1>4. /\ A(i) => n = b
      /\ ~A(i) =>
            /\ n \in Seq(LogEntry) /\ Len(n) = i
            /\ \A p \in 1 .. i : n[p] = IF A(p) THEN b[p] ELSE es[p - f + 1]
  <2>1. d + 1 \in 0 .. Len(es) /\ Len(es) # 0
    BY <1>1
  <2>2. f + (d + 1) - 1 = i
    <3> HIDE DEF f
    <3> QED
      BY <1>1
  <2>3. Merged(b, es, f + (d + 1) - 1, n)
    BY <2>1, MergeIs, Zenon
  <2> QED
    BY <2>2, <2>3, Zenon DEF Merged
<1>5. \A p, q \in Nat : A(q) /\ p <= q => A(p)
  BY <1>1 DEF Agrees
<1>6. A(i) <=> A(i - 1) /\ Has(b, i) /\ b[i].term = e.term
  <2>1. i - f + 1 = d + 1
    BY <1>1
  <2>2. f .. i = (f .. i - 1) \cup {i}
    BY <1>1
  <2> QED
    BY <2>1, <2>2 DEF Agrees
<1>7. A(i - 1) => i - 1 <= Len(b)
  BY <1>1 DEF Agrees, Has
<1>8. ~A(i) => n[i] = e
  <2>1. i - f + 1 = d + 1 /\ i \in 1 .. i
    <3> HIDE DEF f
    <3> QED
      BY <1>1
  <2> QED
    BY <1>4, <2>1
<1> HIDE DEF A, l, n, e, i
<1>9. CASE A(i - 1)
  <2>1. l = b
    BY <1>3, <1>9
  <2>2. CASE A(i)
    BY <1>1, <1>2, <1>4, <1>6, <1>7, <1>9, <2>1, <2>2 DEF OneMore, l, n, e
  <2>3. CASE ~A(i)
    <3>1. ASSUME NEW k \in 1 .. i - 1
          PROVE  n[k] = l[k]
      <4>1. k \in 1 .. i /\ A(k)
        BY <1>2, <1>5, <1>9
      <4> QED
        BY <1>4, <2>1, <2>3, <4>1
    <3>2. i \in 1 .. Len(l) + 1
      BY <1>1, <1>2, <1>7, <1>9, <2>1
    <3>3. n \in Seq(LogEntry) /\ Len(n) = i /\ n[i] = e
      BY <1>4, <1>8, <2>3
    <3>4. ~Has(l, e.index) \/ l[e.index].term # e.term
      BY <1>2, <1>6, <1>9, <2>1, <2>3
    <3> QED
      BY <1>2, <3>1, <3>2, <3>3, <3>4 DEF OneMore, l, n, e
  <2> QED
    BY <2>2, <2>3
<1>10. CASE ~A(i - 1)
  <2>1. ~A(i)
    BY <1>6, <1>10
  <2>2. /\ l \in Seq(LogEntry) /\ Len(l) = i - 1
        /\ \A p \in 1 .. i - 1 : l[p] = IF A(p) THEN b[p] ELSE es[p - f + 1]
    BY <1>3, <1>10
  <2>3. /\ n \in Seq(LogEntry) /\ Len(n) = i
        /\ \A p \in 1 .. i : n[p] = IF A(p) THEN b[p] ELSE es[p - f + 1]
    BY <1>4, <2>1
  <2>4. ASSUME NEW k \in 1 .. i - 1
        PROVE  n[k] = l[k]
    <3>1. k \in 1 .. i
      BY <1>2
    <3> QED
      BY <2>2, <2>3, <3>1
  <2>5. i \in 1 .. Len(l) + 1 /\ ~Has(l, i)
    BY <1>2, <2>2 DEF Has
  <2>6. n[i] = e
    BY <1>8, <2>1
  <2> QED
    BY <1>2, <2>3, <2>4, <2>5, <2>6 DEF OneMore, l, n, e
<1> QED
  BY <1>9, <1>10

-----------------------------------------------------------------------------
(* What an append does to the log, and to the arrays that calls read.      *)

LEMMA EntryIs ==
    ASSUME NEW l, IsLog(l), NEW t \in Nat
    PROVE  /\ Entry(l, t) \in LogEntry /\ Entry(l, t).index = Len(l) + 1
           /\ Entry(l, t).term = t
<1>1. LastIndex(l) = Len(l)
  <2>1. l \in Seq(LogEntry) /\ Len(l) \in Nat
    BY DEF IsLog
  <2>2. CASE l = <<>>
    BY <2>2 DEF LastIndex
  <2>3. CASE l # <<>>
    <3>1. Len(l) \in 1 .. Len(l)
      BY <2>1, <2>3
    <3> QED
      BY <2>3, <3>1 DEF LastIndex, IsLog
  <2> QED
    BY <2>2, <2>3
<1>2. Len(l) \in Nat
  BY DEF IsLog
<1> QED
  BY <1>1, <1>2 DEF Entry, NextEntry, LogEntry

LEMMA LogStaysLog ==
    ASSUME SliceOK, IsLog(Log), NEW n \in 0 .. len, NEW e \in LogEntry,
           e.index = n + 1, AppendAt(n, e)
    PROVE  SliceOK' /\ IsLog(Log')
<1>1. /\ SliceOK' /\ Log' \in Seq(LogEntry) /\ Len(Log') = n + 1
      /\ \A k \in 1 .. n : Log'[k] = Log[k]
      /\ Log'[n + 1] = e
  BY AppendAtIs
<1>2. n \in Nat /\ len \in Nat /\ n <= len /\ Len(Log) = len
  BY LogIsSlice DEF SliceOK
<1>3. ASSUME NEW k \in 1 .. n + 1
      PROVE  Log'[k].index = k
  <2>1. CASE k = n + 1
    BY <1>1, <2>1
  <2>2. CASE k # n + 1
    <3>1. k \in 1 .. n /\ k \in 1 .. Len(Log)
      BY <1>2, <2>2
    <3> QED
      BY <1>1, <3>1 DEF IsLog
  <2> QED
    BY <2>1, <2>2
<1> QED
  BY <1>1, <1>3 DEF IsLog

\* No array shrinks, and but for the element written none changes.
LEMMA ArraysGrow ==
    ASSUME SliceOK, NEW n \in 0 .. len, NEW e \in LogEntry, AppendAt(n, e)
    PROVE  /\ Len(arrays) \in Nat /\ Len(arrays') \in Nat
           /\ Len(arrays) <= Len(arrays')
           /\ \A g \in 1 .. Len(arrays) :
                 /\ Len(arrays[g]) \in Nat /\ Len(arrays'[g]) \in Nat
                 /\ Len(arrays[g]) <= Len(arrays'[g])
                 /\ \A k \in 1 .. Len(arrays[g]) :
                       \/ g = Len(arrays') /\ k = n + 1
                       \/ arrays'[g][k] = arrays[g][k]
<1>1. arrays \in Seq(Seq(LogEntry)) /\ Len(arrays) \in Nat
  BY DEF SliceOK
<1>2. n \in Nat /\ len \in Nat /\ cap \in Nat /\ n <= len
  BY DEF SliceOK
<1>3. \A g \in 1 .. Len(arrays) : arrays[g] \in Seq(LogEntry)
  BY <1>1
<1>4. CASE n = cap
  <2>1. /\ arrays' = Append(arrays, Append(Log, e))
    BY <1>4 DEF AppendAt
  <2>2. Len(arrays') = Len(arrays) + 1 /\ \A g \in 1 .. Len(arrays) : arrays'[g] = arrays[g]
    BY <1>1, <2>1
  <2>3. \A g \in 1 .. Len(arrays) : Len(arrays[g]) \in Nat
    BY <1>3
  <2> QED
    BY <1>1, <2>2, <2>3
<1>5. CASE n # cap
  <2> DEFINE h == Len(arrays)
             a == Written(arrays[h], n + 1, e)
  <2>1. arrays' = [arrays EXCEPT ![h] = a]
    BY <1>5 DEF AppendAt
  <2>2. h \in 1 .. h /\ n + 1 \in 1 .. Len(arrays[h]) + 1
    <3>1. arrays # <<>>
      <4>1. SUFFICES ASSUME arrays = <<>> PROVE FALSE
        OBVIOUS
      <4>2. len = 0 /\ cap = 0
        BY <4>1 DEF SliceOK
      <4> QED
        BY <1>2, <1>5, <4>2
    <3>2. h \in 1 .. h /\ len <= Len(arrays[h])
      BY <1>1, <3>1 DEF SliceOK
    <3>3. Len(arrays[h]) \in Nat
      BY <1>3, <3>2
    <3> QED
      BY <1>2, <3>2, <3>3
  <2>3. /\ a \in Seq(LogEntry)
        /\ Len(a) = IF n + 1 > Len(arrays[h]) THEN n + 1 ELSE Len(arrays[h])
        /\ \A k \in 1 .. Len(arrays[h]) : k # n + 1 => a[k] = arrays[h][k]
    BY <1>3, <2>2, WrittenIs
  <2> HIDE DEF a
  <2>4. Len(arrays') = h /\ \A g \in 1 .. h : arrays'[g] = IF g = h THEN a ELSE arrays[g]
    BY <1>1, <2>1, <2>2
  <2>5. ASSUME NEW g \in 1 .. h
        PROVE  /\ Len(arrays[g]) \in Nat /\ Len(arrays'[g]) \in Nat
               /\ Len(arrays[g]) <= Len(arrays'[g])
               /\ \A k \in 1 .. Len(arrays[g]) :
                     \/ g = Len(arrays') /\ k = n + 1
                     \/ arrays'[g][k] = arrays[g][k]
    <3>1. Len(arrays[g]) \in Nat
      BY <1>3
    <3>2. CASE g = h
      BY <1>2, <2>2, <2>3, <2>4, <3>1, <3>2
    <3>3. CASE g # h
      BY <2>4, <3>1, <3>3
    <3> QED
      BY <3>2, <3>3
  <2> QED
    BY <1>1, <2>4, <2>5
<1> QED
  BY <1>4, <1>5

IsCall(c) == c \in [array : Nat, next : Nat \ {0}, term : Nat,
                    held : Seq(LogEntry), sent : Seq(LogEntry)]

LEMMA FitsStill ==
    ASSUME SliceOK, NEW n \in 0 .. len, NEW e \in LogEntry, AppendAt(n, e),
           NEW c, IsCall(c), Fits(c)
    PROVE  Fits(c)'
<1>1. c.array \in Nat /\ c.next \in Nat /\ Len(c.held) \in Nat
  BY DEF IsCall
<1>2. ASSUME NEW k \in 1 .. Len(c.held)
      PROVE  /\ c.array \in 1 .. Len(arrays')
             /\ c.next + k - 1 <= Len(arrays'[c.array])
  <2>1. c.array \in 1 .. Len(arrays) /\ c.next + k - 1 <= Len(arrays[c.array])
    BY DEF Fits
  <2>2. /\ Len(arrays) \in Nat /\ Len(arrays') \in Nat
        /\ Len(arrays) <= Len(arrays')
        /\ Len(arrays[c.array]) \in Nat /\ Len(arrays'[c.array]) \in Nat
        /\ Len(arrays[c.array]) <= Len(arrays'[c.array])
    BY <2>1, ArraysGrow
  <2> QED
    BY <1>1, <2>1, <2>2
<1> QED
  BY <1>2, Zenon DEF Fits

\* What Start appends goes beyond what any call of the term holds.
LEMMA HoldsStill ==
    ASSUME SliceOK, NEW e \in LogEntry, AppendAt(len, e),
           NEW c, IsCall(c), Fits(c), Holds(c)
    PROVE  Holds(c)'
<1>1. c.array \in Nat /\ c.next \in Nat /\ Len(c.held) \in Nat /\ c.next >= 1
  BY DEF IsCall
<1>2. len \in Nat /\ len' = len + 1
  BY DEF SliceOK, AppendAt
<1>3. ASSUME NEW k \in 1 .. Len(c.held)
      PROVE  /\ c.array = Len(arrays') => c.next + k - 1 <= len'
             /\ c.held[k] = arrays'[c.array][c.next + k - 1]
  <2> DEFINE p == c.next + k - 1
  <2>1. /\ c.array \in 1 .. Len(arrays) /\ p <= Len(arrays[c.array])
        /\ c.array = Len(arrays) => p <= len
        /\ c.held[k] = arrays[c.array][p]
    BY DEF Fits, Holds
  <2>2. len \in 0 .. len
    BY <1>2
  <2>3. /\ Len(arrays) \in Nat /\ Len(arrays') \in Nat
        /\ Len(arrays) <= Len(arrays') /\ Len(arrays[c.array]) \in Nat
        /\ \A q \in 1 .. Len(arrays[c.array]) :
              \/ c.array = Len(arrays') /\ q = len + 1
              \/ arrays'[c.array][q] = arrays[c.array][q]
    BY <2>1, <2>2, ArraysGrow
  <2>4. p \in Nat /\ p \in 1 .. Len(arrays[c.array])
    BY <1>1, <2>1, <2>3
  <2>5. c.array = Len(arrays') => c.array = Len(arrays)
    BY <1>1, <2>1, <2>3
  <2>6. c.array = Len(arrays') => p <= len /\ p # len + 1
    BY <1>2, <2>1, <2>4, <2>5
  <2> HIDE DEF p
  <2>7. arrays'[c.array][p] = arrays[c.array][p]
    BY <2>3, <2>4, <2>6
  <2>8. c.array = Len(arrays') => p <= len'
    BY <1>2, <2>4, <2>6
  <2> QED
    BY <2>1, <2>7, <2>8 DEF p
<1> QED
  BY <1>3, Zenon DEF Holds

-----------------------------------------------------------------------------
(* Every step keeps the invariant.                                         *)

\* The invariant, with what TypeOK says part by part.
Parts ==
    /\ SliceOK /\ RestOK /\ MergeOK /\ CallsOK
    /\ IsLog(Log) /\ IsLog(rival.log)
    /\ \A m \in merge : IsLog(m.before) /\ Continue(m.before, m.entries)
    /\ LoopIsMerge /\ CallInv

LEMMA InvParts == (Inv <=> Parts) /\ (Inv' <=> Parts')
BY DEF Inv, LogInv, Parts, TypeOK, SliceOK, RestOK, MergeOK, CallsOK

LEMMA SliceKept ==
    ASSUME UNCHANGED slice
    PROVE  /\ Log' = Log /\ SliceOK' = SliceOK
           /\ \A c : Fits(c)' = Fits(c) /\ Holds(c)' = Holds(c)
<1>1. arrays' = arrays /\ len' = len /\ cap' = cap
  BY DEF slice
<1> QED
  BY <1>1 DEF Log, SliceOK, Fits, Holds

LEMMA InitInv == Init => Inv
<1> SUFFICES ASSUME Init PROVE Inv
  OBVIOUS
<1> USE DEF Init
<1>1. Log = <<>>
  BY DEF Log
<1>2. <<>> \in Seq(LogEntry) /\ Len(<<>>) = 0 /\ <<>> \in Seq(Seq(LogEntry))
  OBVIOUS
<1>3. IsLog(<<>>)
  BY <1>2 DEF IsLog
<1>4. SliceOK
  BY <1>2 DEF SliceOK
<1>5. RestOK /\ MergeOK /\ CallsOK
  <2>1. 0 \in 0 .. MaxTerm
    BY LogArrayAssumption
  <2>2. rival \in [term : 0 .. MaxTerm, log : Seq(LogEntry)]
    BY <1>2, <2>1
  <2> QED
    BY <2>1, <2>2 DEF RestOK, MergeOK, CallsOK
<1>6. LoopIsMerge /\ CallInv
  BY DEF LoopIsMerge, CallInv
<1>7. IsLog(rival.log)
  BY <1>3
<1> QED
  BY <1>1, <1>3, <1>4, <1>5, <1>6, <1>7, InvParts DEF Parts

LEMMA ElectedKeeps == ASSUME Inv, Elected PROVE Inv'
<1> USE InvParts DEF Parts
<1>1. /\ merge = {} /\ leading' = TRUE /\ UNCHANGED <<slice, rival, merge, calls>>
      /\ term' \in (term + 1) .. MaxTerm /\ term' > rival.term
  BY DEF Elected, Unlocked
<1>2. RestOK'
  BY <1>1, LogArrayAssumption DEF RestOK
<1>3. CallInv'
  <2>1. term \in Nat /\ term' \in Nat /\ term < term' /\ rival.term \in Nat
    BY <1>1, LogArrayAssumption DEF RestOK
  <2>2. \A c \in calls' : Fits(c)' /\ c.term < term' /\ c.term # term'
    BY <1>1, <2>1, SliceKept DEF CallInv, CallsOK
  <2>3. merge' = {} /\ rival'.term # term' /\ leading'
    BY <1>1, <2>1
  <2>4. \A c \in calls' : c.term \in Nat
    BY <1>1 DEF CallsOK
  <2> QED
    BY <2>1, <2>2, <2>3, <2>4 DEF CallInv
<1>4. MergeOK' /\ CallsOK' /\ LoopIsMerge'
  BY <1>1 DEF MergeOK, CallsOK, LoopIsMerge
<1>5. SliceOK' /\ IsLog(Log)' /\ IsLog(rival.log)'
  BY <1>1, SliceKept DEF IsLog
<1>6. \A m \in merge' : IsLog(m.before) /\ Continue(m.before, m.entries)
  BY <1>1
<1> QED
  BY <1>2, <1>3, <1>4, <1>5, <1>6

LEMMA StartKeeps == ASSUME Inv, Start PROVE Inv'
<1> USE InvParts DEF Parts
<1> DEFINE e == Entry(Log, term)
<1>1. /\ merge = {} /\ leading /\ AppendAt(len, e)
      /\ UNCHANGED <<term, leading, rival, merge, calls>>
  BY DEF Start, Unlocked
<1>2. e \in LogEntry /\ e.index = len + 1 /\ len \in 0 .. len
  <2>1. Len(Log) = len /\ len \in Nat /\ term \in Nat
    BY LogIsSlice, LogArrayAssumption DEF SliceOK, RestOK
  <2> QED
    BY <2>1, EntryIs
<1> HIDE DEF e
<1>3. SliceOK' /\ IsLog(Log)'
  BY <1>1, <1>2, LogStaysLog
<1>4. RestOK' /\ MergeOK' /\ CallsOK' /\ LoopIsMerge' /\ IsLog(rival.log)'
  BY <1>1 DEF RestOK, MergeOK, CallsOK, LoopIsMerge, IsLog
<1>5. CallInv'
  <2>1. \A c \in calls : Fits(c)' /\ c.term <= term'
    <3> SUFFICES ASSUME NEW c \in calls PROVE Fits(c)' /\ c.term <= term'
      OBVIOUS
    <3>1. Fits(c) /\ c.term <= term /\ IsCall(c)
      BY DEF CallInv, CallsOK, IsCall
    <3> QED
      BY <1>1, <1>2, <3>1, FitsStill
  <2>2. ASSUME NEW c \in calls, c.term = term'
        PROVE  leading' /\ Holds(c)' /\ IsAsHeld(c)
    <3>1. Fits(c) /\ Holds(c) /\ IsAsHeld(c) /\ IsCall(c)
      BY <1>1, <2>2 DEF CallInv, CallsOK, IsCall
    <3> QED
      BY <1>1, <1>2, <3>1, HoldsStill
  <2>3. calls' = calls /\ merge' = {} /\ rival'.term # term'
    BY <1>1 DEF CallInv
  <2> QED
    BY <2>1, <2>2, <2>3, Zenon DEF CallInv, IsAsHeld
<1>6. \A m \in merge' : IsLog(m.before) /\ Continue(m.before, m.entries)
  BY <1>1
<1> QED
  BY <1>3, <1>4, <1>5, <1>6

LEMMA SendKeeps == ASSUME Inv, NEW next \in 1 .. (len + 1), Send(next) PROVE Inv'
<1> USE InvParts DEF Parts
<1> DEFINE c == [array |-> Len(arrays), next |-> next, term |-> term,
                 held |-> EntriesFrom(Log, next), sent |-> <<>>]
<1>1. /\ leading /\ calls' = calls \cup {c}
      /\ UNCHANGED <<slice, term, leading, rival, merge>>
  BY DEF Send
<1>2. /\ Log \in Seq(LogEntry) /\ Len(Log) = len /\ len \in Nat /\ next \in Nat
      /\ next >= 1 /\ arrays \in Seq(Seq(LogEntry))
      /\ \A k \in 1 .. len : Log[k] = arrays[Len(arrays)][k]
      /\ len # 0 => /\ Len(arrays) \in 1 .. Len(arrays)
                    /\ len <= Len(arrays[Len(arrays)])
                    /\ Len(arrays[Len(arrays)]) \in Nat
  <2>1. len # 0 => /\ arrays # <<>> /\ arrays \in Seq(Seq(LogEntry))
                   /\ len <= Len(arrays[Len(arrays)])
    BY DEF SliceOK
  <2>2. len \in Nat /\ arrays \in Seq(Seq(LogEntry))
    BY DEF SliceOK
  <2>3. len # 0 => /\ Len(arrays) \in 1 .. Len(arrays)
                   /\ Len(arrays[Len(arrays)]) \in Nat
    BY <2>1
  <2> QED
    BY <2>1, <2>2, <2>3, LogIsSlice
<1>3. /\ c.held \in Seq(LogEntry)
      /\ \A k \in 1 .. Len(c.held) :
            next + k - 1 \in 1 .. len /\ c.held[k] = Log[next + k - 1]
  <2>1. CASE Has(Log, next)
    <3>1. c.held = SubSeq(Log, next, len) /\ next <= len
      BY <1>2, <2>1 DEF EntriesFrom, Has
    <3>2. /\ SubSeq(Log, next, len) \in Seq(LogEntry)
          /\ Len(SubSeq(Log, next, len)) = len - next + 1
          /\ \A k \in 1 .. len - next + 1 :
                SubSeq(Log, next, len)[k] = Log[next + k - 1]
      <4>1. \A k \in next .. len : Log[k] \in LogEntry
        BY <1>2
      <4> QED
        BY <1>2, <3>1, <4>1
    <3> HIDE DEF c
    <3> QED
      BY <1>2, <3>1, <3>2
  <2>2. CASE ~Has(Log, next)
    BY <2>2 DEF EntriesFrom
  <2> QED
    BY <2>1, <2>2
<1>4. /\ c.array = Len(arrays) /\ c.next = next /\ c.term = term /\ c.sent = <<>>
      /\ IsCall(c) /\ Len(c.sent) <= Len(c.held)
  <2>1. Len(arrays) \in Nat /\ term \in Nat /\ next \in Nat \ {0}
    BY <1>2, LogArrayAssumption DEF RestOK
  <2>2. <<>> \in Seq(LogEntry) /\ Len(<<>>) = 0 /\ Len(c.held) \in Nat
    BY <1>3
  <2> QED
    BY <1>3, <2>1, <2>2 DEF IsCall
<1> HIDE DEF c
<1>5. Fits(c) /\ Holds(c) /\ IsAsHeld(c)
  <2>1. ASSUME NEW k \in 1 .. Len(c.held)
        PROVE  /\ c.array \in 1 .. Len(arrays)
               /\ c.next + k - 1 <= Len(arrays[c.array])
               /\ c.next + k - 1 <= len
               /\ c.held[k] = arrays[c.array][c.next + k - 1]
    <3> DEFINE p == next + k - 1
    <3>1. p \in 1 .. len /\ c.held[k] = Log[p]
      BY <1>3
    <3>2. len # 0 /\ p <= len /\ p \in Nat
      BY <1>2, <3>1
    <3>3. /\ Log[p] = arrays[Len(arrays)][p] /\ Len(arrays) \in 1 .. Len(arrays)
          /\ len <= Len(arrays[Len(arrays)]) /\ Len(arrays[Len(arrays)]) \in Nat
      BY <1>2, <3>1, <3>2
    <3>4. p <= Len(arrays[Len(arrays)])
      BY <1>2, <3>2, <3>3
    <3> HIDE DEF p
    <3> QED
      BY <1>4, <3>1, <3>2, <3>3, <3>4 DEF p
  <2>2. IsAsHeld(c)
    BY <1>3, <1>4 DEF IsAsHeld
  <2> QED
    BY <2>1, <2>2, Zenon DEF Fits, Holds
<1>6. CallsOK'
  BY <1>1, <1>4 DEF CallsOK, IsCall
<1>7. CallInv'
  <2>1. term' = term /\ leading' /\ merge' = {} /\ rival'.term # term'
    BY <1>1 DEF CallInv
  <2>2. term <= term
    BY LogArrayAssumption DEF RestOK
  <2> QED
    BY <1>1, <1>4, <1>5, <2>1, <2>2, SliceKept DEF CallInv, IsAsHeld
<1>8. /\ SliceOK' /\ RestOK' /\ MergeOK' /\ IsLog(Log)' /\ IsLog(rival.log)'
      /\ LoopIsMerge'
      /\ \A m \in merge' : IsLog(m.before) /\ Continue(m.before, m.entries)
  BY <1>1, SliceKept DEF RestOK, MergeOK, IsLog, LoopIsMerge
<1> QED
  BY <1>6, <1>7, <1>8

LEMMA MarshalKeeps == ASSUME Inv, NEW c \in calls, Marshal(c) PROVE Inv'
<1> USE InvParts DEF Parts
<1> DEFINE k == Len(c.sent)
           x == arrays[c.array][c.next + k]
           d == [c EXCEPT !.sent = Append(@, x)]
<1>1. /\ k < Len(c.held) /\ calls' = (calls \ {c}) \cup {d}
      /\ UNCHANGED <<slice, term, leading, rival, merge>>
  BY DEF Marshal
<1>2. IsCall(c) /\ Fits(c) /\ c.term <= term
  BY DEF CallInv, CallsOK, IsCall
<1>3. k \in Nat /\ k + 1 \in 1 .. Len(c.held) /\ c.next + (k + 1) - 1 = c.next + k
  BY <1>1, <1>2 DEF IsCall
<1>4. c.array \in 1 .. Len(arrays) /\ c.next + k <= Len(arrays[c.array])
  BY <1>2, <1>3 DEF Fits
<1>5. x \in LogEntry
  <2>1. arrays[c.array] \in Seq(LogEntry)
    BY <1>4 DEF SliceOK
  <2>2. c.next + k \in 1 .. Len(arrays[c.array])
    BY <1>2, <1>3, <1>4, <2>1 DEF IsCall
  <2> QED
    BY <2>1, <2>2
<1> HIDE DEF x
<1>6. /\ IsCall(d) /\ d.array = c.array /\ d.next = c.next /\ d.term = c.term
      /\ d.held = c.held /\ d.sent = Append(c.sent, x) /\ Len(d.sent) = k + 1
  <2> DEFINE s == Append(c.sent, x)
  <2>1. c.sent \in Seq(LogEntry)
    BY <1>2 DEF IsCall
  <2>2. s \in Seq(LogEntry) /\ Len(s) = k + 1
    BY <1>5, <2>1
  <2>3. d = [c EXCEPT !.sent = s]
    OBVIOUS
  <2> HIDE DEF s, d
  <2>4. /\ IsCall(d) /\ d.array = c.array /\ d.next = c.next /\ d.term = c.term
        /\ d.held = c.held /\ d.sent = s
    BY <1>2, <2>2, <2>3 DEF IsCall
  <2> QED
    BY <2>2, <2>4 DEF s
<1> HIDE DEF d
<1>7. CallsOK'
  BY <1>1, <1>3, <1>6 DEF CallsOK, IsCall
<1>8. Fits(d)
  BY <1>2, <1>6, Zenon DEF Fits
<1>9. ASSUME c.term = term
      PROVE  leading /\ Holds(d) /\ IsAsHeld(d)
  <2>1. leading /\ Holds(c) /\ c.sent = SubSeq(c.held, 1, k)
    BY <1>9 DEF CallInv, IsAsHeld
  <2>2. Holds(d)
    BY <1>6, <2>1, Zenon DEF Holds
  <2>3. x = c.held[k + 1]
    BY <1>3, <2>1 DEF Holds, x
  <2>4. Append(SubSeq(c.held, 1, k), c.held[k + 1]) = SubSeq(c.held, 1, k + 1)
    <3>1. c.held \in Seq(LogEntry)
      BY <1>2 DEF IsCall
    <3> DEFINE u == SubSeq(c.held, 1, k)
               v == SubSeq(c.held, 1, k + 1)
    <3>2. /\ u \in Seq(LogEntry) /\ Len(u) = k /\ v \in Seq(LogEntry) /\ Len(v) = k + 1
          /\ \A q \in 1 .. k : u[q] = c.held[q]
          /\ \A q \in 1 .. k + 1 : v[q] = c.held[q]
      BY <1>3, <3>1, PrefixIs
    <3>3. c.held[k + 1] \in LogEntry
      BY <1>3, <3>1
    <3> HIDE DEF u, v
    <3>4. Append(u, c.held[k + 1]) \in Seq(LogEntry) /\ Len(Append(u, c.held[k + 1])) = k + 1
      BY <3>2, <3>3
    <3>5. \A q \in 1 .. k + 1 : Append(u, c.held[k + 1])[q] = v[q]
      BY <1>3, <3>2, <3>3
    <3>6. Append(u, c.held[k + 1]) = v
      BY <3>2, <3>4, <3>5, SeqEqual
    <3> QED
      BY <3>6 DEF u, v
  <2> QED
    BY <1>6, <2>1, <2>2, <2>3, <2>4 DEF IsAsHeld
<1>10. CallInv'
  BY <1>1, <1>2, <1>6, <1>8, <1>9, SliceKept DEF CallInv, IsAsHeld
<1>11. /\ SliceOK' /\ RestOK' /\ MergeOK' /\ IsLog(Log)' /\ IsLog(rival.log)'
       /\ LoopIsMerge'
       /\ \A m \in merge' : IsLog(m.before) /\ Continue(m.before, m.entries)
  BY <1>1, SliceKept DEF RestOK, MergeOK, IsLog, LoopIsMerge
<1> QED
  BY <1>7, <1>10, <1>11

LEMMA ReturnKeeps == ASSUME Inv, NEW c \in calls, Return(c) PROVE Inv'
<1> USE InvParts DEF Parts
<1>1. calls' = calls \ {c} /\ UNCHANGED <<slice, term, leading, rival, merge>>
  BY DEF Return
<1>2. CallsOK' /\ CallInv'
  BY <1>1, SliceKept DEF CallsOK, CallInv, IsAsHeld
<1>3. /\ SliceOK' /\ RestOK' /\ MergeOK' /\ IsLog(Log)' /\ IsLog(rival.log)'
      /\ LoopIsMerge'
      /\ \A m \in merge' : IsLog(m.before) /\ Continue(m.before, m.entries)
  BY <1>1, SliceKept DEF RestOK, MergeOK, IsLog, LoopIsMerge
<1> QED
  BY <1>2, <1>3

\* What a step that changes nothing but the rival has to show.
LEMMA RivalKeeps ==
    ASSUME Inv, UNCHANGED <<slice, term, leading, merge, calls>>,
           IsLog(rival'.log), rival' \in [term : 0 .. MaxTerm, log : Seq(LogEntry)],
           leading => rival'.term # term
    PROVE  Inv'
<1> USE InvParts DEF Parts
<1>1. RestOK'
  BY DEF RestOK
<1>2. MergeOK' /\ CallsOK' /\ LoopIsMerge'
  BY SliceKept DEF MergeOK, CallsOK, LoopIsMerge
<1>3. CallInv'
  BY SliceKept DEF CallInv, IsAsHeld
<1>4. SliceOK' /\ IsLog(Log)' /\ IsLog(rival.log)'
  BY SliceKept DEF IsLog
<1> QED
  BY <1>1, <1>2, <1>3, <1>4

LEMMA RivalElectedKeeps == ASSUME Inv, RivalElected PROVE Inv'
<1> USE InvParts DEF Parts
<1>1. PICK t \in (term + 1) .. MaxTerm, k \in 0 .. len : \E n \in 0 .. (MaxLen - k) :
        \E f \in Runs(term + 1, t, n) :
            rival' = [term |-> t,
                      log  |-> SubSeq(Log, 1, k) \o
                               [q \in 1 .. n |-> [index |-> k + q, term |-> f[q],
                                                  command |-> f[q]]]]
  BY DEF RivalElected
<1>2. PICK n \in 0 .. (MaxLen - k) : \E f \in Runs(term + 1, t, n) :
            rival' = [term |-> t,
                      log  |-> SubSeq(Log, 1, k) \o
                               [q \in 1 .. n |-> [index |-> k + q, term |-> f[q],
                                                  command |-> f[q]]]]
  BY <1>1
<1>3. PICK f \in Runs(term + 1, t, n) :
            rival' = [term |-> t,
                      log  |-> SubSeq(Log, 1, k) \o
                               [q \in 1 .. n |-> [index |-> k + q, term |-> f[q],
                                                  command |-> f[q]]]]
  BY <1>2
<1> DEFINE u == SubSeq(Log, 1, k)
           v == [q \in 1 .. n |-> [index |-> k + q, term |-> f[q], command |-> f[q]]]
<1>4. UNCHANGED <<slice, term, leading, merge, calls>>
  BY DEF RivalElected
<1>5. /\ term \in Nat /\ MaxTerm \in Nat /\ MaxLen \in Nat /\ t \in Nat /\ t > term
      /\ t \in 0 .. MaxTerm /\ k \in Nat /\ k <= len /\ len \in Nat /\ n \in Nat
      /\ Log \in Seq(LogEntry) /\ Len(Log) = len
  BY LogIsSlice, LogArrayAssumption DEF RestOK, SliceOK
<1>6. /\ u \in Seq(LogEntry) /\ Len(u) = k
      /\ \A q \in 1 .. k : u[q].index = q
  <2>1. k \in 0 .. Len(Log) /\ \A q \in 1 .. k : q \in 1 .. Len(Log)
    BY <1>5
  <2> QED
    BY <1>5, <2>1, PrefixIs DEF IsLog
<1>7. /\ v \in Seq(LogEntry) /\ Len(v) = n
      /\ \A q \in 1 .. n : v[q].index = k + q
  <2>1. \A q \in 1 .. n : f[q] \in Nat
    BY <1>5 DEF Runs
  <2>2. \A q \in 1 .. n :
           [index |-> k + q, term |-> f[q], command |-> f[q]] \in LogEntry
    BY <1>5, <2>1 DEF LogEntry
  <2>3. v \in [1 .. n -> LogEntry]
    BY <2>2
  <2> QED
    BY <1>5, <2>3
<1> HIDE DEF u, v
<1>8. IsLog(u \o v)
  <2>1. /\ u \o v \in Seq(LogEntry) /\ Len(u \o v) = k + n
        /\ \A q \in 1 .. k + n : (u \o v)[q] = IF q <= k THEN u[q] ELSE v[q - k]
    BY <1>6, <1>7, ConcatProperties
  <2>2. ASSUME NEW q \in 1 .. k + n
        PROVE  (u \o v)[q].index = q
    <3>1. CASE q <= k
      BY <1>5, <1>6, <2>1, <3>1
    <3>2. CASE q > k
      <4>1. (u \o v)[q] = v[q - k] /\ q - k \in 1 .. n
        BY <1>5, <2>1, <3>2
      <4> QED
        BY <1>5, <1>7, <4>1
    <3>3. q <= k \/ q > k
      BY <1>5
    <3> QED
      BY <3>1, <3>2, <3>3
  <2> QED
    BY <2>1, <2>2 DEF IsLog
<1>9. rival' = [term |-> t, log |-> u \o v]
  BY <1>3 DEF u, v
<1>10. rival'.log = u \o v /\ rival'.term = t /\ t # term
  BY <1>5, <1>9
<1>11. rival' \in [term : 0 .. MaxTerm, log : Seq(LogEntry)]
  BY <1>5, <1>8, <1>9 DEF IsLog
<1> QED
  BY <1>4, <1>8, <1>10, <1>11, RivalKeeps

LEMMA RivalStartKeeps == ASSUME Inv, RivalStart PROVE Inv'
<1> USE InvParts DEF Parts
<1> DEFINE e == Entry(rival.log, rival.term)
           l == Append(rival.log, e)
<1>1. /\ rival' = [rival EXCEPT !.log = l]
      /\ UNCHANGED <<slice, term, leading, merge, calls>>
  BY DEF RivalStart
<1>2. /\ e \in LogEntry /\ e.index = Len(rival.log) + 1
      /\ rival.log \in Seq(LogEntry) /\ Len(rival.log) \in Nat
  <2>1. rival.log \in Seq(LogEntry) /\ rival.term \in Nat
    BY LogArrayAssumption DEF RestOK
  <2> QED
    BY <2>1, EntryIs
<1> HIDE DEF e
<1>3. IsLog(l)
  BY <1>2 DEF IsLog
<1>4. l \in Seq(LogEntry)
  BY <1>3 DEF IsLog
<1> HIDE DEF l
<1>5. /\ rival' \in [term : 0 .. MaxTerm, log : Seq(LogEntry)]
      /\ rival'.log = l /\ rival'.term = rival.term
  BY <1>1, <1>4 DEF RestOK
<1>6. leading => rival'.term # term
  BY <1>5 DEF CallInv
<1> QED
  BY <1>1, <1>3, <1>5, <1>6, RivalKeeps

\* What a merge does: the invariant of the calls holds because the node does
\* not lead, and is in no call's term.
LEMMA FollowKeeps ==
    ASSUME Inv, NEW prev \in 0 .. Len(rival.log), NEW last \in prev .. Len(rival.log),
           Follow(prev, last)
    PROVE  Inv'
<1> USE InvParts DEF Parts
<1> DEFINE es == SubSeq(rival.log, prev + 1, last)
           m == [before |-> Log, entries |-> es, done |-> 0]
<1>1. /\ rival.term > 0 /\ ~IsOld(rival.term) /\ leading' = FALSE
      /\ PrevMatches(Log, prev, TermAt(rival.log, prev))
      /\ term' = (IF rival.term > term THEN rival.term ELSE term)
      /\ merge' = {m} /\ UNCHANGED <<slice, rival, calls>>
  BY DEF Follow
<1>2. /\ rival.log \in Seq(LogEntry) /\ Len(rival.log) \in Nat /\ rival.term \in Nat
      /\ rival.term \in 0 .. MaxTerm /\ prev \in Nat /\ last \in Nat /\ prev <= last
      /\ last <= Len(rival.log) /\ Log \in Seq(LogEntry) /\ Len(Log) = len /\ len \in Nat
      /\ term \in Nat /\ MaxTerm \in Nat
  BY LogIsSlice, LogArrayAssumption DEF RestOK, SliceOK
<1>3. /\ es \in Seq(LogEntry) /\ Len(es) = last - prev
      /\ \A k \in 1 .. last - prev : es[k] = rival.log[prev + k]
  <2>1. \A k \in prev + 1 .. last : rival.log[k] \in LogEntry
    BY <1>2
  <2>2. /\ SubSeq(rival.log, prev + 1, last) \in Seq(LogEntry)
        /\ Len(SubSeq(rival.log, prev + 1, last))
              = IF prev + 1 <= last THEN last - (prev + 1) + 1 ELSE 0
        /\ \A k \in 1 .. last - (prev + 1) + 1 :
              SubSeq(rival.log, prev + 1, last)[k] = rival.log[prev + 1 + k - 1]
    BY <1>2, <2>1, SubSeqProperties
  <2>3. \A k \in 1 .. last - prev : k \in 1 .. last - (prev + 1) + 1 /\ prev + 1 + k - 1 = prev + k
    BY <1>2
  <2> HIDE DEF es
  <2> QED
    BY <1>2, <2>2, <2>3 DEF es
<1> HIDE DEF es
<1>4. \A k \in 1 .. Len(es) : es[k].index = prev + k
  <2>1. \A k \in 1 .. Len(es) : prev + k \in 1 .. Len(rival.log)
    BY <1>2, <1>3
  <2> QED
    BY <1>3, <2>1 DEF IsLog
<1>5. prev <= len
  BY <1>1, <1>2 DEF PrevMatches, Has
<1>6. Continue(Log, es)
  <2>1. ASSUME NEW k \in 1 .. Len(es)
        PROVE  /\ es[k].index = es[1].index + k - 1
               /\ es[1].index \in 1 .. Len(Log) + 1
    <3>1. 1 \in 1 .. Len(es)
      BY <1>3
    <3>2. es[1].index = prev + 1 /\ es[k].index = prev + k
      BY <1>4, <3>1
    <3> QED
      BY <1>2, <1>5, <3>2
  <2> QED
    BY <2>1, Zenon DEF Continue
<1>7. m \in [before : Seq(LogEntry), entries : Seq(LogEntry), done : Nat]
  BY <1>2, <1>3
<1>8. MergeOK' /\ \A x \in merge' : IsLog(x.before) /\ Continue(x.before, x.entries)
  <2>1. 0 <= Len(es)
    BY <1>3
  <2> QED
    BY <1>1, <1>6, <1>7, <2>1 DEF MergeOK
<1>9. LoopIsMerge'
  <2>1. SubSeq(es, 1, 0) = <<>>
    BY <1>3
  <2>2. MergeEntries(Log, SubSeq(es, 1, 0)) = Log
    BY <2>1 DEF MergeEntries
  <2> QED
    BY <1>1, <2>2, SliceKept DEF LoopIsMerge
<1>10. RestOK'
  BY <1>1, <1>2 DEF RestOK
<1>11. CallInv'
  <2>1. term' \in Nat /\ term <= term'
    BY <1>1, <1>2
  <2>2. ASSUME NEW c \in calls
        PROVE  Fits(c)' /\ c.term <= term' /\ c.term # term'
    <3>1. Fits(c) /\ c.term <= term /\ c.term \in Nat
      BY DEF CallInv, CallsOK
    <3>2. c.term <= term'
      BY <1>2, <2>1, <3>1
    <3>3. c.term # term'
      <4>1. CASE rival.term > term
        BY <1>1, <1>2, <3>1, <4>1
      <4>2. CASE ~(rival.term > term)
        <5>1. rival.term = term /\ term' = term
          BY <1>1, <1>2, <4>2 DEF IsOld
        <5>2. ~leading
          BY <5>1 DEF CallInv
        <5> QED
          BY <5>1, <5>2 DEF CallInv
      <4> QED
        BY <4>1, <4>2
    <3> QED
      BY <1>1, <3>1, <3>2, <3>3, SliceKept
  <2> QED
    BY <1>1, <2>2 DEF CallInv
<1>12. SliceOK' /\ CallsOK' /\ IsLog(Log)' /\ IsLog(rival.log)'
  BY <1>1, SliceKept DEF CallsOK, IsLog
<1> QED
  BY <1>8, <1>9, <1>10, <1>11, <1>12

LEMMA MergeNextKeeps == ASSUME Inv, MergeNext PROVE Inv'
<1> USE InvParts DEF Parts
<1>1. PICK m \in merge :
          /\ m.done < Len(m.entries)
          /\ merge' = {[m EXCEPT !.done = @ + 1]}
          /\ LET e == m.entries[m.done + 1]
             IN  IF Conflicts(e) THEN AppendAt(TruncateFrom(e.index), e)
                 ELSE IF ~Has(Log, e.index) THEN AppendAt(len, e)
                 ELSE UNCHANGED slice
  BY DEF MergeNext
<1> DEFINE b == m.before
           es == m.entries
           d == m.done
           e == es[d + 1]
           n == MergeEntries(b, SubSeq(es, 1, d + 1))
           q == [m EXCEPT !.done = @ + 1]
<1>2. /\ m \in [before : Seq(LogEntry), entries : Seq(LogEntry), done : Nat]
      /\ IsLog(b) /\ Continue(b, es) /\ es \in Seq(LogEntry) /\ d \in Nat
      /\ d \in 0 .. Len(es) - 1 /\ d + 1 \in 1 .. Len(es) /\ e \in LogEntry
  <2>1. /\ m \in [before : Seq(LogEntry), entries : Seq(LogEntry), done : Nat]
        /\ IsLog(b) /\ Continue(b, es)
    BY DEF MergeOK
  <2>2. es \in Seq(LogEntry) /\ d \in Nat /\ Len(es) \in Nat /\ d < Len(es)
    BY <1>1, <2>1
  <2>3. d \in 0 .. Len(es) - 1 /\ d + 1 \in 1 .. Len(es)
    BY <2>2
  <2>4. e \in LogEntry
    BY <2>2, <2>3
  <2> QED
    BY <2>1, <2>2, <2>3, <2>4
<1>3. Log = MergeEntries(b, SubSeq(es, 1, d)) /\ IsLog(Log)
  BY DEF LoopIsMerge
<1>4. /\ Log \in Seq(LogEntry) /\ Len(Log) = len /\ len \in Nat
  BY LogIsSlice DEF SliceOK
<1>5. /\ q \in [before : Seq(LogEntry), entries : Seq(LogEntry), done : Nat]
      /\ q.before = b /\ q.entries = es /\ q.done = d + 1
  BY <1>2
<1>6. /\ e.index \in 1 .. len + 1
      /\ ~Has(Log, e.index) \/ Log[e.index].term # e.term =>
            /\ n \in Seq(LogEntry) /\ Len(n) = e.index
            /\ \A k \in 1 .. e.index - 1 : n[k] = Log[k]
            /\ n[e.index] = e
      /\ Has(Log, e.index) /\ Log[e.index].term = e.term => n = Log
  <2>1. OneMore(Log, e, n)
    <3> HIDE DEF b, es, d
    <3> QED
      BY <1>2, <1>3, MergeOneMore, Zenon
  <2> HIDE DEF e, n
  <2> QED
    BY <1>4, <2>1 DEF OneMore
<1> HIDE DEF e, n, b, es, d, q
<1>7. /\ SliceOK' /\ IsLog(Log)' /\ Log' = n
      /\ \A c \in calls : Fits(c)'
  <2>1. CASE ~Has(Log, e.index) \/ Log[e.index].term # e.term
    <3> DEFINE p == e.index - 1
    <3>1. e.index \in Nat /\ p \in 0 .. len /\ e.index = p + 1
      BY <1>4, <1>6
    <3>2. AppendAt(p, e)
      <4>1. CASE Conflicts(e)
        BY <1>1, <4>1 DEF TruncateFrom, e, es, d
      <4>2. CASE ~Conflicts(e)
        <5>1. ~Has(Log, e.index)
          BY <2>1, <4>2 DEF Conflicts
        <5>2. p = len
          BY <1>4, <1>6, <5>1 DEF Has
        <5>3. AppendAt(len, e)
          BY <1>1, <4>2, <5>1 DEF e, es, d
        <5> QED
          BY <5>2, <5>3
      <4> QED
        BY <4>1, <4>2
    <3> HIDE DEF p
    <3>3. SliceOK' /\ IsLog(Log')
      BY <1>2, <1>3, <3>1, <3>2, LogStaysLog
    <3>4. /\ Log' \in Seq(LogEntry) /\ Len(Log') = p + 1
          /\ \A k \in 1 .. p : Log'[k] = Log[k]
          /\ Log'[p + 1] = e
      BY <1>2, <3>1, <3>2, AppendAtIs
    <3>5. /\ n \in Seq(LogEntry) /\ Len(n) = p + 1 /\ n[p + 1] = e
          /\ \A k \in 1 .. p : n[k] = Log[k]
      BY <1>6, <2>1, <3>1 DEF p
    <3>6. \A k \in 1 .. p + 1 : Log'[k] = n[k]
      <4>1. \A k \in 1 .. p + 1 : k \in 1 .. p \/ k = p + 1
        BY <3>1
      <4> QED
        BY <3>4, <3>5, <4>1
    <3>7. Log' = n
      BY <3>4, <3>5, <3>6, SeqEqual
    <3>8. \A c \in calls : Fits(c)'
      <4> SUFFICES ASSUME NEW c \in calls PROVE Fits(c)'
        OBVIOUS
      <4>1. Fits(c) /\ IsCall(c)
        BY DEF CallInv, CallsOK, IsCall
      <4> QED
        BY <1>2, <3>1, <3>2, <4>1, FitsStill
    <3> QED
      BY <3>3, <3>7, <3>8
  <2>2. CASE Has(Log, e.index) /\ Log[e.index].term = e.term
    <3>1. UNCHANGED slice
      BY <1>1, <2>2 DEF Conflicts, e, es, d
    <3> QED
      BY <1>3, <1>6, <2>2, <3>1, SliceKept DEF CallInv
  <2> QED
    BY <2>1, <2>2
<1>8. MergeOK' /\ \A x \in merge' : IsLog(x.before) /\ Continue(x.before, x.entries)
  <2>1. d + 1 <= Len(es) /\ merge' = {q}
    BY <1>1, <1>2 DEF q
  <2> QED
    BY <1>2, <1>5, <2>1 DEF MergeOK
<1>9. LoopIsMerge'
  <2>1. merge' = {q}
    BY <1>1 DEF q
  <2>2. Log' = MergeEntries(q.before, SubSeq(q.entries, 1, q.done))
    BY <1>5, <1>7 DEF n
  <2> QED
    BY <2>1, <2>2 DEF LoopIsMerge
<1>10. UNCHANGED <<term, leading, rival, calls>>
  BY DEF MergeNext
<1>11. CallInv'
  <2>1. ~leading
    BY DEF CallInv
  <2> QED
    BY <1>7, <1>10, <2>1 DEF CallInv
<1>12. RestOK' /\ CallsOK' /\ IsLog(rival.log)'
  BY <1>10 DEF RestOK, CallsOK, IsLog
<1> QED
  BY <1>7, <1>8, <1>9, <1>11, <1>12

LEMMA MergeEndsKeeps == ASSUME Inv, MergeEnds PROVE Inv'
<1> USE InvParts DEF Parts
<1>1. merge' = {} /\ UNCHANGED <<slice, term, leading, rival, calls>>
  BY DEF MergeEnds
<1>2. CallInv' /\ CallsOK' /\ MergeOK' /\ LoopIsMerge' /\ RestOK'
  BY <1>1, SliceKept DEF CallInv, IsAsHeld, CallsOK, MergeOK, LoopIsMerge, RestOK
<1>3. SliceOK' /\ IsLog(Log)' /\ IsLog(rival.log)'
  BY <1>1, SliceKept DEF IsLog
<1> QED
  BY <1>1, <1>2, <1>3

LEMMA StutterKeeps == ASSUME Inv, UNCHANGED vars PROVE Inv'
<1> USE InvParts DEF Parts
<1>1. UNCHANGED <<slice, term, leading, rival, merge, calls>>
  BY DEF vars
<1>2. CallInv' /\ CallsOK' /\ MergeOK' /\ LoopIsMerge' /\ RestOK'
  BY <1>1, SliceKept DEF CallInv, IsAsHeld, CallsOK, MergeOK, LoopIsMerge, RestOK
<1>3. SliceOK' /\ IsLog(Log)' /\ IsLog(rival.log)'
  BY <1>1, SliceKept DEF IsLog
<1> QED
  BY <1>1, <1>2, <1>3

-----------------------------------------------------------------------------
(* The theorems.                                                           *)

\* The inductive invariant holds in every reachable state.
THEOREM Invariant == Spec => []Inv
<1>1. Inv /\ [Next]_vars => Inv'
  <2> SUFFICES ASSUME Inv, [Next]_vars PROVE Inv'
    OBVIOUS
  <2>1. CASE Elected
    BY <2>1, ElectedKeeps
  <2>2. CASE Start
    BY <2>2, StartKeeps
  <2>3. CASE \E next \in 1 .. (len + 1) : Send(next)
    BY <2>3, SendKeeps
  <2>4. CASE \E c \in calls : Marshal(c) \/ Return(c)
    BY <2>4, MarshalKeeps, ReturnKeeps
  <2>5. CASE RivalElected
    BY <2>5, RivalElectedKeeps
  <2>6. CASE RivalStart
    BY <2>6, RivalStartKeeps
  <2>7. CASE \E prev \in 0 .. Len(rival.log) :
                \E last \in prev .. Len(rival.log) : Follow(prev, last)
    BY <2>7, FollowKeeps
  <2>8. CASE MergeNext
    BY <2>8, MergeNextKeeps
  <2>9. CASE MergeEnds
    BY <2>9, MergeEndsKeeps
  <2>10. CASE UNCHANGED vars
    BY <2>10, StutterKeeps
  <2> QED
    BY <2>1, <2>2, <2>3, <2>4, <2>5, <2>6, <2>7, <2>8, <2>9, <2>10 DEF Next
<1> QED
  BY <1>1, InitInv, PTL DEF Spec

\* The slice fits its array and the array its capacity, whatever the order of
\* appends, cuts and merges (log.go:26-36, log.go:62-68).
THEOREM TypeCorrect == Spec => []TypeOK
<1>1. Inv => TypeOK
  BY DEF Inv, LogInv
<1> QED
  BY <1>1, Invariant, PTL

\* The loop of AppendEntries computes MergeEntries, for logs and calls of any
\* length: a late call cuts nothing off and the writes into a shared array
\* reach no entry the slice in use has kept (append_entries.go:82-96).
THEOREM MergeCorrect == Spec => []LoopIsMerge
<1>1. Inv => LoopIsMerge
  BY DEF Inv, LogInv
<1> QED
  BY <1>1, Invariant, PTL

\* What is marshalled for a call is what the log held when it was made, as
\* long as the node stays in the call's term (append_entries.go:166-185).
THEOREM SentCorrect == Spec => []SentInTerm
<1>1. Inv => SentInTerm
  BY DEF Inv, CallInv, SentInTerm
<1> QED
  BY <1>1, Invariant, PTL

-----------------------------------------------------------------------------
(* The order of the terms.                                                 *)

\* Terms that do not fall along l, and are t at most.
Ordered(l, t) ==
    \A k \in 1 .. Len(l) :
        l[k].term <= t /\ (k > 1 => l[k - 1].term <= l[k].term)

\* The loop has a log before it that ends in, or goes on over, no higher term
\* than that of the entry it is at.
Joins(m) ==
    m.done < Len(m.entries) =>
        LET p == m.entries[m.done + 1].index - 1
        IN  p > 0 => p <= len /\ Log[p].term <= m.entries[m.done + 1].term

OrderInv ==
    /\ Ordered(Log, term) /\ Ordered(rival.log, rival.term)
    /\ \A m \in merge : Ordered(m.entries, term) /\ Joins(m)

LEMMA OrderInit == Init => OrderInv
<1> SUFFICES ASSUME Init PROVE OrderInv
  OBVIOUS
<1>1. Log = <<>> /\ rival.log = <<>> /\ merge = {}
  BY DEF Init, Log
<1> QED
  BY <1>1 DEF OrderInv, Ordered

LEMMA EntryTyped ==
    ASSUME NEW l \in Seq(LogEntry), NEW k \in 1 .. Len(l)
    PROVE  l[k] \in LogEntry /\ l[k].term \in Nat /\ l[k].index \in Nat
<1>1. l[k] \in LogEntry
  OBVIOUS
<1> QED
  BY <1>1 DEF LogEntry

LEMMA OrderedUpTo ==
    ASSUME NEW l \in Seq(LogEntry), NEW t \in Nat, NEW u \in Nat, t <= u, Ordered(l, t)
    PROVE  Ordered(l, u)
<1>1. \A k \in 1 .. Len(l) : l[k].term \in Nat
  BY EntryTyped
<1> QED
  BY <1>1 DEF Ordered

\* The first n entries of an ordered log and one of no lower term.
LEMMA OrderedThen ==
    ASSUME NEW l \in Seq(LogEntry), NEW t \in Nat, Ordered(l, t),
           NEW n \in 0 .. Len(l), NEW e \in LogEntry, e.term <= t,
           n > 0 => l[n].term <= e.term,
           NEW g, Len(g) = n + 1, \A k \in 1 .. n : g[k] = l[k], g[n + 1] = e
    PROVE  Ordered(g, t)
<1> SUFFICES ASSUME NEW k \in 1 .. n + 1
             PROVE  g[k].term <= t /\ (k > 1 => g[k - 1].term <= g[k].term)
  BY DEF Ordered
<1>1. CASE k = n + 1
  BY <1>1
<1>2. CASE k # n + 1
  <2>1. k \in 1 .. n /\ k \in 1 .. Len(l) /\ (k > 1 => k - 1 \in 1 .. n)
    BY <1>2
  <2> QED
    BY <2>1 DEF Ordered
<1> QED
  BY <1>1, <1>2

LEMMA OrderedAppendAt ==
    ASSUME SliceOK, NEW t \in Nat, Ordered(Log, t), NEW n \in 0 .. len,
           NEW e \in LogEntry, AppendAt(n, e), e.term <= t,
           n > 0 => Log[n].term <= e.term
    PROVE  Ordered(Log', t)
<1>1. /\ Len(Log') = n + 1 /\ Log'[n + 1] = e
      /\ \A k \in 1 .. n : Log'[k] = Log[k]
  BY AppendAtIs
<1>2. Log \in Seq(LogEntry) /\ Len(Log) = len
  BY LogIsSlice
<1> QED
  BY <1>1, <1>2, OrderedThen

\* Nothing that the order is about has changed.
LEMMA OrderKept ==
    ASSUME OrderInv, UNCHANGED <<slice, term, rival>>, merge' \subseteq merge
    PROVE  OrderInv'
<1>1. Log' = Log /\ len' = len
  BY SliceKept DEF slice
<1> QED
  BY <1>1 DEF OrderInv, Joins

LEMMA OrderElected == ASSUME Inv, OrderInv, Elected PROVE OrderInv'
<1> USE InvParts DEF Parts
<1>1. /\ merge' = {} /\ UNCHANGED <<slice, rival>> /\ term' \in (term + 1) .. MaxTerm
  BY DEF Elected, Unlocked
<1>2. term \in Nat /\ term' \in Nat /\ term <= term' /\ Log \in Seq(LogEntry)
  BY <1>1, LogIsSlice, LogArrayAssumption DEF RestOK
<1>3. Ordered(Log, term')
  BY <1>2, OrderedUpTo DEF OrderInv
<1> QED
  BY <1>1, <1>3, SliceKept DEF OrderInv

LEMMA OrderStart == ASSUME Inv, OrderInv, Start PROVE OrderInv'
<1> USE InvParts DEF Parts
<1> DEFINE e == Entry(Log, term)
<1>1. merge' = {} /\ AppendAt(len, e) /\ UNCHANGED <<term, rival>>
  BY DEF Start, Unlocked
<1>2. term \in Nat /\ len \in Nat /\ Log \in Seq(LogEntry) /\ Len(Log) = len
  BY LogIsSlice, LogArrayAssumption DEF RestOK, SliceOK
<1>3. e \in LogEntry /\ e.term = term
  BY <1>2, EntryIs
<1>4. len > 0 => Log[len].term <= e.term
  BY <1>2, <1>3 DEF OrderInv, Ordered
<1> HIDE DEF e
<1>5. Ordered(Log', term)
  BY <1>1, <1>2, <1>3, <1>4, OrderedAppendAt DEF OrderInv
<1> QED
  BY <1>1, <1>5 DEF OrderInv

LEMMA OrderRivalElected == ASSUME Inv, OrderInv, RivalElected PROVE OrderInv'
<1> USE InvParts DEF Parts
<1>1. PICK t \in (term + 1) .. MaxTerm, k \in 0 .. len : \E n \in 0 .. (MaxLen - k) :
        \E f \in Runs(term + 1, t, n) :
            rival' = [term |-> t,
                      log  |-> SubSeq(Log, 1, k) \o
                               [q \in 1 .. n |-> [index |-> k + q, term |-> f[q],
                                                  command |-> f[q]]]]
  BY DEF RivalElected
<1>2. PICK n \in 0 .. (MaxLen - k) : \E f \in Runs(term + 1, t, n) :
            rival' = [term |-> t,
                      log  |-> SubSeq(Log, 1, k) \o
                               [q \in 1 .. n |-> [index |-> k + q, term |-> f[q],
                                                  command |-> f[q]]]]
  BY <1>1
<1>3. PICK f \in Runs(term + 1, t, n) :
            rival' = [term |-> t,
                      log  |-> SubSeq(Log, 1, k) \o
                               [q \in 1 .. n |-> [index |-> k + q, term |-> f[q],
                                                  command |-> f[q]]]]
  BY <1>2
<1> DEFINE u == SubSeq(Log, 1, k)
           v == [q \in 1 .. n |-> [index |-> k + q, term |-> f[q], command |-> f[q]]]
<1>4. UNCHANGED <<slice, term, merge>>
  BY DEF RivalElected
<1>5. /\ term \in Nat /\ MaxTerm \in Nat /\ MaxLen \in Nat /\ t \in Nat /\ t > term
      /\ k \in Nat /\ k <= len /\ len \in Nat /\ n \in Nat
      /\ Log \in Seq(LogEntry) /\ Len(Log) = len
  BY LogIsSlice, LogArrayAssumption DEF RestOK, SliceOK
<1>6. u \in Seq(LogEntry) /\ Len(u) = k /\ \A q \in 1 .. k : u[q] = Log[q]
  BY <1>5, PrefixIs
<1>7. \A q \in 1 .. n : /\ f[q] \in Nat /\ term < f[q] /\ f[q] <= t
                        /\ q > 1 => f[q - 1] <= f[q]
  BY <1>5 DEF Runs
<1>8. v \in Seq(LogEntry) /\ Len(v) = n /\ \A q \in 1 .. n : v[q].term = f[q]
  <2>1. \A q \in 1 .. n :
           [index |-> k + q, term |-> f[q], command |-> f[q]] \in LogEntry
    BY <1>5, <1>7 DEF LogEntry
  <2> QED
    BY <1>5, <2>1
<1> HIDE DEF u, v
<1>9. /\ Len(u \o v) = k + n
      /\ \A q \in 1 .. k : (u \o v)[q] = Log[q]
      /\ \A q \in k + 1 .. k + n : (u \o v)[q].term = f[q - k]
  <2>1. /\ Len(u \o v) = k + n
        /\ \A q \in 1 .. k + n : (u \o v)[q] = IF q <= k THEN u[q] ELSE v[q - k]
    BY <1>6, <1>8, ConcatProperties
  <2>2. \A q \in 1 .. k : q \in 1 .. k + n /\ q <= k
    BY <1>5
  <2>3. \A q \in k + 1 .. k + n : q \in 1 .. k + n /\ ~(q <= k) /\ q - k \in 1 .. n
    BY <1>5
  <2> QED
    BY <1>6, <1>8, <2>1, <2>2, <2>3
<1>10. \A q \in 1 .. k : /\ Log[q].term \in Nat /\ Log[q].term <= term
                         /\ q > 1 => Log[q - 1].term <= Log[q].term
  <2> SUFFICES ASSUME NEW q \in 1 .. k
               PROVE  /\ Log[q].term \in Nat /\ Log[q].term <= term
                      /\ q > 1 => Log[q - 1].term <= Log[q].term
    OBVIOUS
  <2>1. q \in 1 .. Len(Log)
    BY <1>5
  <2>2. Log[q].term \in Nat
    BY <1>5, <2>1, EntryTyped
  <2> QED
    BY <2>1, <2>2 DEF OrderInv, Ordered
<1> DEFINE g == u \o v
<1> HIDE DEF g
<1>11. ASSUME NEW q \in 1 .. k + n
       PROVE  g[q].term <= t /\ (q > 1 => g[q - 1].term <= g[q].term)
  <2>1. CASE q \in 1 .. k
    <3>1. q > 1 => q - 1 \in 1 .. k
      BY <1>5, <2>1
    <3>2. g[q] = Log[q] /\ (q > 1 => g[q - 1] = Log[q - 1])
      BY <1>9, <2>1, <3>1 DEF g
    <3>3. /\ Log[q].term \in Nat /\ Log[q].term <= term
          /\ q > 1 => Log[q - 1].term <= Log[q].term
      BY <1>10, <2>1
    <3> QED
      BY <1>5, <3>2, <3>3
  <2>2. CASE q = k + 1
    <3>1. 1 \in 1 .. n /\ q - k = 1 /\ q \in k + 1 .. k + n /\ (q > 1 => q - 1 \in 1 .. k /\ q - 1 = k)
      BY <1>5, <2>2
    <3>2. g[q].term = f[1] /\ (q > 1 => g[q - 1].term <= term)
      BY <1>9, <1>10, <3>1 DEF g
    <3>3. q > 1 => g[q - 1].term \in Nat
      BY <1>9, <1>10, <3>1 DEF g
    <3> QED
      BY <1>5, <1>7, <3>1, <3>2, <3>3
  <2>3. CASE q > k + 1
    <3>1. q - k \in 1 .. n /\ q - k > 1 /\ q \in k + 1 .. k + n /\ q - 1 \in k + 1 .. k + n
      BY <1>5, <2>3
    <3>2. g[q].term = f[q - k] /\ g[q - 1].term = f[(q - k) - 1]
      <4>1. (q - 1) - k = (q - k) - 1
        BY <1>5
      <4>2. g[q - 1].term = f[(q - 1) - k]
        BY <1>9, <3>1 DEF g
      <4> QED
        BY <1>9, <3>1, <4>1, <4>2 DEF g
    <3> QED
      BY <1>7, <3>1, <3>2
  <2> QED
    BY <1>5, <2>1, <2>2, <2>3
<1>12. rival'.log = g /\ rival'.term = t
  BY <1>3 DEF g, u, v
<1>13. Ordered(rival'.log, rival'.term)
  BY <1>9, <1>11, <1>12 DEF Ordered, g
<1>14. Log' = Log /\ len' = len
  BY <1>4, SliceKept DEF slice
<1> QED
  BY <1>4, <1>13, <1>14 DEF OrderInv, Joins

LEMMA OrderRivalStart == ASSUME Inv, OrderInv, RivalStart PROVE OrderInv'
<1> USE InvParts DEF Parts
<1> DEFINE e == Entry(rival.log, rival.term)
           l == rival.log
<1>1. rival' = [rival EXCEPT !.log = Append(l, e)] /\ UNCHANGED <<slice, term, merge>>
  BY DEF RivalStart
<1>2. /\ rival \in [term : 0 .. MaxTerm, log : Seq(LogEntry)]
      /\ l \in Seq(LogEntry) /\ Len(l) \in Nat /\ rival.term \in Nat
  BY LogArrayAssumption DEF RestOK
<1>3. e \in LogEntry /\ e.term = rival.term
  BY <1>2, EntryIs
<1>4. Len(l) > 0 => l[Len(l)].term <= e.term
  BY <1>2, <1>3 DEF OrderInv, Ordered
<1> HIDE DEF e
<1>5. /\ Len(Append(l, e)) = Len(l) + 1 /\ Append(l, e)[Len(l) + 1] = e
      /\ \A k \in 1 .. Len(l) : Append(l, e)[k] = l[k]
  BY <1>2, <1>3
<1>6. Ordered(Append(l, e), rival.term)
  <2>1. Ordered(l, rival.term) /\ e.term <= rival.term /\ Len(l) \in 0 .. Len(l)
    BY <1>2, <1>3 DEF OrderInv
  <2> HIDE DEF l
  <2> QED
    BY <1>2, <1>3, <1>4, <1>5, <2>1, OrderedThen
<1>7. rival'.log = Append(l, e) /\ rival'.term = rival.term
  BY <1>1, <1>2
<1>8. Log' = Log /\ len' = len
  BY <1>1, SliceKept DEF slice
<1> QED
  BY <1>1, <1>6, <1>7, <1>8 DEF OrderInv, Joins

\* The first entry joins, since the one before it has the term that the call
\* says, which is the rival's.
LEMMA OrderFollow ==
    ASSUME Inv, OrderInv, NEW prev \in 0 .. Len(rival.log),
           NEW last \in prev .. Len(rival.log), Follow(prev, last)
    PROVE  OrderInv'
<1> USE InvParts DEF Parts
<1> DEFINE l  == rival.log
           es == SubSeq(l, prev + 1, last)
           m  == [before |-> Log, entries |-> es, done |-> 0]
<1>1. /\ ~IsOld(rival.term) /\ PrevMatches(Log, prev, TermAt(l, prev))
      /\ term' = (IF rival.term > term THEN rival.term ELSE term)
      /\ merge' = {m} /\ UNCHANGED <<slice, rival>>
  BY DEF Follow
<1>2. /\ l \in Seq(LogEntry) /\ Len(l) \in Nat /\ rival.term \in Nat
      /\ prev \in Nat /\ last \in Nat /\ prev <= last /\ last <= Len(l)
      /\ Log \in Seq(LogEntry) /\ Len(Log) = len /\ len \in Nat /\ term \in Nat
  BY LogIsSlice, LogArrayAssumption DEF RestOK, SliceOK
<1>3. term' \in Nat /\ term <= term' /\ rival.term <= term'
  BY <1>1, <1>2
<1>4. /\ Len(es) = last - prev
      /\ \A k \in 1 .. last - prev : es[k] = l[prev + k]
  <2>1. \A k \in prev + 1 .. last : l[k] \in LogEntry
    BY <1>2
  <2>2. /\ Len(SubSeq(l, prev + 1, last))
              = IF prev + 1 <= last THEN last - (prev + 1) + 1 ELSE 0
        /\ \A k \in 1 .. last - (prev + 1) + 1 :
              SubSeq(l, prev + 1, last)[k] = l[prev + 1 + k - 1]
    BY <1>2, <2>1, SubSeqProperties
  <2>3. \A k \in 1 .. last - prev : k \in 1 .. last - (prev + 1) + 1 /\ prev + 1 + k - 1 = prev + k
    BY <1>2
  <2> HIDE DEF l, es
  <2> QED
    BY <1>2, <2>2, <2>3 DEF es
<1>5. \A k \in 1 .. Len(l) : /\ l[k].term \in Nat /\ l[k].term <= rival.term /\ l[k].index = k
                             /\ k > 1 => l[k - 1].term <= l[k].term
  <2> SUFFICES ASSUME NEW k \in 1 .. Len(l)
               PROVE  /\ l[k].term \in Nat /\ l[k].term <= rival.term /\ l[k].index = k
                      /\ k > 1 => l[k - 1].term <= l[k].term
    OBVIOUS
  <2>1. l[k].term \in Nat
    BY <1>2, EntryTyped
  <2>2. l[k].index = k
    BY DEF IsLog
  <2> QED
    BY <2>1, <2>2 DEF OrderInv, Ordered
<1> HIDE DEF l, es
<1>6. Ordered(es, term')
  <2> SUFFICES ASSUME NEW k \in 1 .. last - prev
               PROVE  es[k].term <= term' /\ (k > 1 => es[k - 1].term <= es[k].term)
    BY <1>4 DEF Ordered
  <2>1. /\ prev + k \in 1 .. Len(l) /\ es[k] = l[prev + k]
        /\ k > 1 => k - 1 \in 1 .. last - prev /\ prev + (k - 1) = (prev + k) - 1 /\ prev + k > 1
    BY <1>2, <1>4
  <2>2. k > 1 => es[k - 1] = l[(prev + k) - 1]
    BY <1>4, <2>1
  <2> QED
    BY <1>2, <1>3, <1>5, <2>1, <2>2
<1>7. Log' = Log /\ len' = len
  BY <1>1, SliceKept DEF slice
<1>8. ASSUME NEW x, x.entries = es, x.done = 0
      PROVE  Joins(x)'
  <2> SUFFICES ASSUME 0 < Len(es), es[0 + 1].index - 1 > 0
               PROVE  /\ es[0 + 1].index - 1 <= len'
                      /\ Log'[es[0 + 1].index - 1].term <= es[0 + 1].term
    BY <1>8 DEF Joins
  <2>1. es[1] = l[prev + 1] /\ prev + 1 \in 1 .. Len(l)
    <3>1. 1 \in 1 .. last - prev
      BY <1>2, <1>4
    <3> QED
      BY <1>2, <1>4, <3>1
  <2>2. es[1].index = prev + 1 /\ prev > 0 /\ prev \in 1 .. Len(l) /\ (prev + 1) - 1 = prev
    BY <1>2, <1>5, <2>1
  <2>3. prev <= len /\ Log[prev].term = l[prev].term
    BY <1>1, <1>2, <2>2 DEF PrevMatches, TermAt, Has
  <2>4. l[prev].term <= l[prev + 1].term
    <3>1. prev + 1 > 1
      BY <1>2, <2>2
    <3>2. l[(prev + 1) - 1].term <= l[prev + 1].term
      BY <1>5, <2>1, <3>1
    <3> QED
      BY <2>2, <3>2
  <2> QED
    BY <1>7, <2>1, <2>2, <2>3, <2>4
<1>9. Ordered(Log, term')
  BY <1>2, <1>3, OrderedUpTo DEF OrderInv
<1>10. Ordered(rival.log, rival.term) /\ m.entries = es /\ m.done = 0
  BY DEF OrderInv
<1> HIDE DEF m
<1>11. \A x \in merge' : Ordered(x.entries, term') /\ Joins(x)'
  BY <1>1, <1>6, <1>8, <1>10
<1> QED
  BY <1>1, <1>7, <1>9, <1>10, <1>11 DEF OrderInv

\* After an iteration the log has an entry of the term of the one the loop was
\* at, so the next one joins too.
LEMMA OrderMergeNext == ASSUME Inv, OrderInv, MergeNext PROVE OrderInv'
<1> USE InvParts DEF Parts
<1>1. PICK m \in merge :
          /\ m.done < Len(m.entries)
          /\ merge' = {[m EXCEPT !.done = @ + 1]}
          /\ LET e == m.entries[m.done + 1]
             IN  IF Conflicts(e) THEN AppendAt(TruncateFrom(e.index), e)
                 ELSE IF ~Has(Log, e.index) THEN AppendAt(len, e)
                 ELSE UNCHANGED slice
  BY DEF MergeNext
<1> DEFINE es == m.entries
           d  == m.done
           e  == es[d + 1]
           q  == [m EXCEPT !.done = @ + 1]
<1>2. /\ es \in Seq(LogEntry) /\ d \in Nat /\ Len(es) \in Nat /\ d < Len(es)
      /\ d + 1 \in 1 .. Len(es) /\ e \in LogEntry
      /\ Continue(m.before, es) /\ IsLog(m.before)
      /\ q.entries = es /\ q.done = d + 1
  BY <1>1 DEF MergeOK
<1>3. /\ Log \in Seq(LogEntry) /\ Len(Log) = len /\ len \in Nat /\ term \in Nat
      /\ UNCHANGED <<term, rival>>
  BY LogIsSlice, LogArrayAssumption DEF SliceOK, RestOK, MergeNext
<1>4. Ordered(Log, term) /\ Ordered(es, term) /\ Joins(m)
  BY DEF OrderInv
<1>5. /\ e.index \in Nat /\ e.index >= 1 /\ e.term \in Nat /\ e.term <= term
      /\ e.index - 1 > 0 => e.index - 1 <= len /\ Log[e.index - 1].term <= e.term
      /\ \A k \in 1 .. Len(es) : /\ es[k].index = es[1].index + k - 1
                                 /\ es[1].index \in Nat /\ es[k].term \in Nat
  <2>1. Len(m.before) \in Nat
    BY <1>2 DEF IsLog
  <2>2. \A k \in 1 .. Len(es) : /\ es[k].index = es[1].index + k - 1
                                /\ es[1].index \in 1 .. Len(m.before) + 1
    BY <1>2 DEF Continue
  <2>3. es[1].index >= 1 /\ e.index = es[1].index + (d + 1) - 1
    <3>1. es[1].index \in 1 .. Len(m.before) + 1 /\ e.index = es[1].index + (d + 1) - 1
      BY <1>2, <2>2
    <3> HIDE DEF es, d, e
    <3> QED
      BY <2>1, <3>1
  <2>4. e.index >= 1 /\ e.index \in Nat /\ e.term \in Nat
    <3>1. e.index \in Nat /\ e.term \in Nat /\ es[1].index \in Nat
      <4>1. 1 \in 1 .. Len(es)
        BY <1>2
      <4> HIDE DEF es, d
      <4> QED
        BY <1>2, <4>1, EntryTyped
    <3> HIDE DEF es, d, e
    <3> QED
      BY <1>2, <2>3, <3>1
  <2>5. e.term <= term
    BY <1>2, <1>4 DEF Ordered
  <2>6. e.index - 1 > 0 => e.index - 1 <= len /\ Log[e.index - 1].term <= e.term
    BY <1>1, <1>4 DEF Joins
  <2>7. \A k \in 1 .. Len(es) : es[k].term \in Nat
    <3> HIDE DEF es, d, e
    <3> QED
      BY <1>2, EntryTyped
  <2>8. \A k \in 1 .. Len(es) : es[1].index \in Nat
    BY <2>1, <2>2
  <2> HIDE DEF es, d, e
  <2> QED
    BY <2>2, <2>4, <2>5, <2>6, <2>7, <2>8
<1> HIDE DEF es, d, e, q
<1>6. /\ Ordered(Log', term) /\ Len(Log') = len' /\ e.index <= len'
      /\ Log'[e.index].term = e.term
  <2>1. CASE Has(Log, e.index) /\ Log[e.index].term = e.term
    <3>1. Log' = Log /\ len' = len
      BY <1>1, <2>1, SliceKept DEF Conflicts, slice, e, es, d
    <3> QED
      BY <1>3, <1>4, <2>1, <3>1 DEF Has
  <2>2. CASE ~(Has(Log, e.index) /\ Log[e.index].term = e.term)
    <3> DEFINE p == e.index - 1
    <3>1. p \in 0 .. len /\ e.index = p + 1 /\ p + 1 \in Nat
      BY <1>3, <1>5
    <3>2. AppendAt(p, e)
      <4>1. CASE Conflicts(e)
        BY <1>1, <4>1 DEF TruncateFrom, e, es, d
      <4>2. CASE ~Conflicts(e)
        <5>1. ~Has(Log, e.index)
          BY <2>2, <4>2 DEF Conflicts
        <5>2. p = len
          BY <1>3, <3>1, <5>1 DEF Has
        <5>3. AppendAt(len, e)
          BY <1>1, <4>2, <5>1 DEF e, es, d
        <5> QED
          BY <5>2, <5>3
      <4> QED
        BY <4>1, <4>2
    <3>3. p > 0 => Log[p].term <= e.term
      BY <1>5
    <3> HIDE DEF p
    <3>4. e \in LogEntry
      BY <1>2 DEF e
    <3>5. Ordered(Log', term)
      BY <1>3, <1>4, <1>5, <3>1, <3>2, <3>3, <3>4, OrderedAppendAt
    <3>6. Len(Log') = p + 1 /\ Log'[p + 1] = e /\ len' = p + 1
      BY <3>1, <3>2, <3>4, AppendAtIs DEF AppendAt
    <3> QED
      BY <3>1, <3>5, <3>6
  <2> QED
    BY <2>1, <2>2
<1>7. Joins(q)'
  <2> SUFFICES ASSUME d + 1 < Len(es)
               PROVE  es[(d + 1) + 1].index - 1 > 0 =>
                         /\ es[(d + 1) + 1].index - 1 <= len'
                         /\ Log'[es[(d + 1) + 1].index - 1].term <= es[(d + 1) + 1].term
    BY <1>2 DEF Joins
  <2>1. d + 1 \in 1 .. Len(es) /\ (d + 1) + 1 \in 1 .. Len(es) /\ (d + 1) + 1 > 1
    BY <1>2
  <2>2. es[(d + 1) + 1].index - 1 = e.index
    <3>1. /\ es[(d + 1) + 1].index = es[1].index + ((d + 1) + 1) - 1
          /\ e.index = es[1].index + (d + 1) - 1 /\ es[1].index \in Nat
      BY <1>5, <2>1 DEF e
    <3> QED
      BY <1>2, <3>1
  <2>3. e.term <= es[(d + 1) + 1].term
    <3>1. ((d + 1) + 1) - 1 = d + 1
      BY <1>2
    <3>2. es[((d + 1) + 1) - 1].term <= es[(d + 1) + 1].term
      BY <1>4, <2>1 DEF Ordered
    <3> QED
      BY <3>1, <3>2 DEF e
  <2> QED
    BY <1>6, <2>2, <2>3
<1>8. merge' = {q} /\ q.entries = es
  BY <1>1, <1>2 DEF q
<1> QED
  BY <1>3, <1>4, <1>6, <1>7, <1>8 DEF OrderInv

LEMMA OrderKeeps == ASSUME Inv, OrderInv, [Next]_vars PROVE OrderInv'
<1>1. ASSUME NEW next \in 1 .. (len + 1), Send(next) PROVE OrderInv'
  BY <1>1, OrderKept DEF Send
<1>2. ASSUME NEW c \in calls, Marshal(c) \/ Return(c) PROVE OrderInv'
  BY <1>2, OrderKept DEF Marshal, Return
<1>3. ASSUME MergeEnds \/ UNCHANGED vars PROVE OrderInv'
  BY <1>3, OrderKept DEF MergeEnds, vars
<1> QED
  BY <1>1, <1>2, <1>3, OrderElected, OrderStart, OrderRivalElected, OrderRivalStart,
     OrderFollow, OrderMergeNext DEF Next

\* Between any two iterations of the merge loop the entries stand where their
\* Index says and their terms do not fall, for logs and calls of any length
\* and any number of leaders (append_entries.go:83-96, log.go:62-68).
THEOREM InOrderCorrect == Spec => []InOrder
<1>1. Inv /\ OrderInv => InOrder
  <2> SUFFICES ASSUME Inv, OrderInv PROVE InOrder
    OBVIOUS
  <2>1. Len(Log) = len /\ IsLog(Log)
    BY InvParts, LogIsSlice DEF Parts
  <2> QED
    BY <2>1 DEF InOrder, OrderInv, Ordered, IsLog
<1>2. Init => OrderInv
  BY OrderInit
<1>3. Inv /\ OrderInv /\ [Next]_vars => OrderInv'
  BY OrderKeeps
<1> QED
  BY <1>1, <1>2, <1>3, Invariant, PTL DEF Spec
=============================================================================
