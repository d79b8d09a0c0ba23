------------------------------ MODULE WALProofs ------------------------------
(***************************************************************************)
(* Proofs about WAL, for every set of writers and records, every capacity  *)
(* of the queue, every way a record may be cut and every number of calls   *)
(* and crashes.                                                            *)
(***************************************************************************)
EXTENDS WAL, TLAPS, FiniteSetTheorems, SequenceTheorems, WellFoundedInduction

-----------------------------------------------------------------------------
(* The inductive invariant.                                                *)

Locking == {w \in Writer : pc[w] = "lock"}

\* The number of calls is within its bound, those that have not taken their
\* number included.
TypeInv == TypeOK /\ nextSeq + Cardinality(Locking) <= MaxSeq

UnderWay == Elems(queue) \cup Elems(batch)

\* What is under way to the file is what its writers wait for, and a writer
\* that waits for nothing under way has its answer.
PlaceInv ==
    /\ \A w \in Writer : pc[w] # "idle" =>
          req[w] \in Request /\ req[w].writer = w /\ req[w].epoch = epoch
    /\ \A q \in UnderWay :
          pc[q.writer] = "wait" /\ req[q.writer] = q /\ done[q.writer] = None
    /\ \A w \in Writer :
          pc[w] = "wait" => req[w] \in UnderWay \/ done[w] # None

\* The last number whose request may be under way: the writer that holds w.mu
\* has taken the next one.
LastSent == IF mu = None THEN nextSeq ELSE nextSeq - 1

Increasing(s) == \A j, k \in DOMAIN s : j < k => s[j].seq < s[k].seq

\* Numbers increase from the file through the rest of the batch and the queue
\* to the writer that holds w.mu.
OrderInv ==
    /\ Increasing(queue) /\ Increasing(batch)
    /\ \A q \in Elems(queue), p \in Elems(batch) : p.seq < q.seq
    /\ \A q \in UnderWay : q.seq <= LastSent
    /\ \A w \in Writer : pc[w] = "send" => req[w].seq = nextSeq
    /\ \A e \in Elems(file) :
          /\ e.epoch <= epoch
          /\ e.epoch = epoch =>
                /\ e.seq <= LastSent
                /\ \A k \in written + 1 .. Len(batch) : e.seq < batch[k].seq
                /\ \A q \in Elems(queue) : e.seq < q.seq
    /\ FileInOrder

\* A batch is there from the first request to the answers.
BatchInv ==
    /\ committer \in {"idle", "exited"} => batch = <<>>
    /\ committer # "writing" => written = 0

LogInv == TypeInv /\ PlaceInv /\ OrderInv /\ BatchInv

-----------------------------------------------------------------------------
(* Sequences.                                                              *)

LEMMA ElemsAppend ==
    ASSUME NEW S, NEW s \in Seq(S), NEW x \in S
    PROVE  /\ Elems(Append(s, x)) = Elems(s) \cup {x}
           /\ Append(s, x) \in Seq(S)
<1>1. /\ Len(Append(s, x)) = Len(s) + 1 /\ Append(s, x) \in Seq(S)
      /\ \A k \in 1 .. Len(s) : Append(s, x)[k] = s[k]
      /\ Append(s, x)[Len(s) + 1] = x
      /\ DOMAIN s = 1 .. Len(s) /\ DOMAIN Append(s, x) = 1 .. Len(s) + 1
      /\ Len(s) \in Nat
  OBVIOUS
<1>2. 1 .. Len(s) + 1 = (1 .. Len(s)) \cup {Len(s) + 1}
  BY <1>1
<1> DEFINE t == Append(s, x)
<1> HIDE DEF t
<1>3. Elems(t) = {t[k] : k \in (1 .. Len(s)) \cup {Len(s) + 1}}
  BY <1>1, <1>2 DEF Elems, t
<1>4. Elems(s) = {s[k] : k \in 1 .. Len(s)}
  BY <1>1 DEF Elems
<1> QED
  BY <1>1, <1>3, <1>4 DEF t

LEMMA ElemsTail ==
    ASSUME NEW S, NEW s \in Seq(S), s # <<>>
    PROVE  /\ Head(s) \in S /\ Tail(s) \in Seq(S)
           /\ Len(s) \in Nat \ {0} /\ Len(Tail(s)) = Len(s) - 1
           /\ \A k \in 1 .. Len(s) - 1 : Tail(s)[k] = s[k + 1]
           /\ Elems(s) = {Head(s)} \cup Elems(Tail(s))
<1>1. /\ Head(s) = s[1] /\ Head(s) \in S /\ Tail(s) \in Seq(S)
      /\ Len(s) \in Nat \ {0} /\ Len(Tail(s)) = Len(s) - 1
      /\ \A k \in 1 .. Len(s) - 1 : Tail(s)[k] = s[k + 1]
      /\ DOMAIN s = 1 .. Len(s) /\ DOMAIN Tail(s) = 1 .. Len(s) - 1
  OBVIOUS
<1> DEFINE t == Tail(s)
           h == Head(s)
<1> HIDE DEF t, h
<1>2. Elems(s) \subseteq {h} \cup Elems(t)
  <2> SUFFICES ASSUME NEW k \in 1 .. Len(s), s[k] # h
               PROVE  s[k] \in Elems(t)
    BY <1>1 DEF Elems
  <2>1. k - 1 \in 1 .. Len(s) - 1 /\ k - 1 + 1 = k
    BY <1>1 DEF h
  <2>2. s[k] = t[k - 1]
    BY <1>1, <2>1 DEF t
  <2> QED
    BY <1>1, <2>1, <2>2 DEF Elems, t
<1>3. {h} \cup Elems(t) \subseteq Elems(s)
  <2>1. h \in Elems(s)
    BY <1>1 DEF Elems, h
  <2>2. ASSUME NEW k \in 1 .. Len(s) - 1
        PROVE  t[k] \in Elems(s)
    <3>1. k + 1 \in DOMAIN s /\ t[k] = s[k + 1]
      BY <1>1 DEF t
    <3> QED
      BY <3>1 DEF Elems
  <2> QED
    BY <1>1, <2>1, <2>2 DEF Elems, t
<1> QED
  BY <1>1, <1>2, <1>3 DEF t, h

LEMMA ElemsEmpty ==
    ASSUME NEW S
    PROVE  <<>> \in Seq(S) /\ Len(<<>>) = 0 /\ Elems(<<>>) = {}
BY DEF Elems

\* A sequence that increases goes on increasing with a greater number.
LEMMA IncreasingAppend ==
    ASSUME NEW s \in Seq(Request), NEW q \in Request, Increasing(s),
           \A p \in Elems(s) : p.seq < q.seq
    PROVE  Increasing(Append(s, q))
<1> DEFINE t == Append(s, q)
<1>1. /\ DOMAIN t = 1 .. Len(s) + 1 /\ DOMAIN s = 1 .. Len(s) /\ Len(s) \in Nat
      /\ \A k \in 1 .. Len(s) : t[k] = s[k]
      /\ t[Len(s) + 1] = q
  OBVIOUS
<1> HIDE DEF t
<1>2. ASSUME NEW j \in DOMAIN t, NEW k \in DOMAIN t, j < k
      PROVE  t[j].seq < t[k].seq
  <2>1. j \in 1 .. Len(s) /\ (k \in 1 .. Len(s) \/ k = Len(s) + 1)
    BY <1>1, <1>2
  <2>2. CASE k \in 1 .. Len(s)
    BY <1>1, <1>2, <2>1, <2>2 DEF Increasing
  <2>3. CASE k = Len(s) + 1
    <3>1. s[j] \in Elems(s)
      BY <1>1, <2>1 DEF Elems
    <3> QED
      BY <1>1, <2>1, <2>3, <3>1
  <2> QED
    BY <2>1, <2>2, <2>3
<1> QED
  BY <1>2 DEF Increasing, t

LEMMA IncreasingTail ==
    ASSUME NEW s \in Seq(Request), s # <<>>, Increasing(s)
    PROVE  /\ Increasing(Tail(s))
           /\ \A q \in Elems(Tail(s)) : Head(s).seq < q.seq
<1>1. /\ Head(s) = s[1] /\ Len(s) \in Nat \ {0}
      /\ \A k \in 1 .. Len(s) - 1 : Tail(s)[k] = s[k + 1]
      /\ DOMAIN s = 1 .. Len(s) /\ DOMAIN Tail(s) = 1 .. Len(s) - 1
  OBVIOUS
<1>2. \A k \in 1 .. Len(s) - 1 : k + 1 \in DOMAIN s /\ 1 < k + 1
  BY <1>1
<1> QED
  BY <1>1, <1>2 DEF Increasing, Elems
\* Every step but Crash leaves the epoch.
LEMMA EpochKept == [Next]_vars => Crash \/ epoch' = epoch
BY DEF Next, CallAppend, TakeNumber, Refuse, Send, Return, Commit, TakeFirst, Collect,
   StopCollecting, CollectZero, Count, WriteRecord, WriteFails, Sync, SyncFails, Exit,
   Close, CloseReturn, Open, OpenFails, vars, crashVars

-----------------------------------------------------------------------------
(* Types.                                                                  *)

LEMMA LockingSize ==
    /\ IsFiniteSet(Locking) /\ Cardinality(Locking) \in Nat
    /\ \A w \in Writer \ Locking :
          Cardinality(Locking \cup {w}) = Cardinality(Locking) + 1
    /\ \A w \in Locking : Cardinality(Locking \ {w}) = Cardinality(Locking) - 1
<1>1. IsFiniteSet(Writer) /\ Locking \subseteq Writer
  BY WALAssumption DEF Locking
<1>2. IsFiniteSet(Locking)
  BY <1>1, FS_Subset
<1> QED
  BY <1>2, FS_CardinalityType, FS_AddElement, FS_RemoveElement

\* What the steps leave alone keeps its type.
LEMMA EntryType ==
    ASSUME NEW q \in Request, NEW cut \in {"whole", "header", "body"}
    PROVE  EntryOf(q, cut) \in Entry
BY DEF EntryOf, Request, Entry

\* Replay stops at a position of the file: there is a first cut record, or
\* none.
LEMMA ReadableType ==
    ASSUME NEW f \in Seq(Entry)
    PROVE  /\ Readable(f) \in 0 .. Len(f)
           /\ \A k \in 1 .. Readable(f) : f[k].cut = "whole"
           /\ Readable(f) < Len(f) => f[Readable(f) + 1].cut # "whole"
<1> DEFINE P(n) == /\ \A k \in 1 .. n : f[k].cut = "whole"
                   /\ n < Len(f) => f[n + 1].cut # "whole"
           C == {m \in Nat : m < Len(f) /\ f[m + 1].cut # "whole"}
<1>1. Len(f) \in Nat
  OBVIOUS
<1>2. \E n \in 0 .. Len(f) : P(n)
  <2>1. CASE C = {}
    <3>1. ASSUME NEW k \in 1 .. Len(f)
          PROVE  f[k].cut = "whole"
      <4>1. k - 1 \in Nat /\ k - 1 < Len(f) /\ k - 1 + 1 = k
        BY <1>1
      <4> QED
        BY <2>1, <4>1
    <3>2. P(Len(f)) /\ Len(f) \in 0 .. Len(f)
      BY <1>1, <3>1
    <3> HIDE DEF P
    <3> QED
      BY <3>2
  <2>2. CASE C # {}
    <3>1. PICK n \in C : \A m \in C : ~(<<m, n>> \in OpToRel(<, Nat))
      BY <2>2, WFMin, NatLessThanWellFounded
    <3>2. n \in Nat /\ n < Len(f) /\ f[n + 1].cut # "whole"
      OBVIOUS
    <3>3. ASSUME NEW k \in 1 .. n
          PROVE  f[k].cut = "whole"
      <4>1. k - 1 \in Nat /\ k - 1 < n /\ k - 1 < Len(f) /\ k - 1 + 1 = k
        BY <1>1, <3>2
      <4>2. k - 1 \notin C
        BY <3>1, <3>2, <4>1 DEF OpToRel
      <4> QED
        BY <4>1, <4>2
    <3>4. P(n) /\ n \in 0 .. Len(f)
      BY <1>1, <3>2, <3>3
    <3> HIDE DEF P
    <3> QED
      BY <3>4
  <2> QED
    BY <2>1, <2>2
<1>3. Readable(f) \in 0 .. Len(f) /\ P(Readable(f))
  <2>1. Readable(f) = CHOOSE n \in 0 .. Len(f) : P(n)
    BY DEF Readable
  <2> HIDE DEF P
  <2> QED
    BY <1>2, <2>1
<1> QED
  BY <1>3

LEMMA TypeInit == Init => TypeInv
<1> SUFFICES ASSUME Init PROVE TypeInv
  OBVIOUS
<1>1. Locking = {}
  BY DEF Init, Locking
<1>2. Cardinality(Locking) = 0
  BY <1>1, FS_EmptySet
<1>3. \A w \in Writer : (mu = w) <=> (pc[w] = "send")
  BY WALAssumption DEF Init
<1>4. queue \in Seq(Request) /\ batch \in Seq(Request) /\ Len(queue) <= QueueCap
  BY ElemsEmpty, WALAssumption DEF Init
<1>5. /\ file \in Seq(Entry) /\ replayed \in Seq(Entry)
      /\ synced \in 0 .. Len(file) /\ written \in 0 .. Len(batch)
  BY ElemsEmpty DEF Init
<1>6. pc \in [Writer -> {"idle", "lock", "send", "wait"}]
  BY DEF Init
<1>7. req \in [Writer -> Request \cup {None}] /\ done \in [Writer -> {None, "ok", "failed"}]
  BY DEF Init
<1>8. /\ nextSeq \in 0 .. MaxSeq /\ epoch \in 0 .. MaxEpoch
      /\ \A w \in Writer : done[w] # None => pc[w] = "wait"
  BY WALAssumption DEF Init
<1>9. TypeOK
  BY <1>3, <1>4, <1>5, <1>6, <1>7, <1>8 DEF Init, TypeOK
<1> QED
  BY <1>2, <1>9, WALAssumption DEF TypeInv, Init

\* Append's steps.
LEMMA TypeAppend ==
    ASSUME TypeInv, PlaceInv, NEW w \in Writer
    PROVE  /\ \A r \in Record : CallAppend(w, r) => TypeInv'
           /\ TakeNumber(w) \/ Refuse(w) \/ Send(w) \/ Return(w) => TypeInv'
<1>0. /\ TypeOK /\ Cardinality(Locking) \in Nat /\ nextSeq \in 0 .. MaxSeq
      /\ MaxSeq \in Nat /\ None \notin Writer
      /\ nextSeq + Cardinality(Locking) <= MaxSeq
  BY LockingSize, WALAssumption DEF TypeInv, TypeOK
<1>1. ASSUME NEW r \in Record, CallAppend(w, r)
      PROVE  TypeInv'
  <2>1. Locking' = Locking \cup {w} /\ w \notin Locking
    BY <1>0, <1>1 DEF CallAppend, Locking, TypeOK
  <2>2. Cardinality(Locking') = Cardinality(Locking) + 1
    BY <2>1, LockingSize
  <2>3. nextSeq' + Cardinality(Locking') <= MaxSeq
    BY <1>0, <1>1, <2>2 DEF CallAppend, queueVars, Locking
  <2>4. req' \in [Writer -> Request \cup {None}]
    BY <1>0, <1>1 DEF CallAppend, TypeOK, Request
  <2>5. TypeOK'
    BY <1>0, <1>1, <2>4
    DEF CallAppend, TypeOK, queueVars, batchVars, fileVars, crashVars
  <2> QED
    BY <2>3, <2>5 DEF TypeInv
<1>2. CASE TakeNumber(w)
  <2>1. Locking' = Locking \ {w} /\ w \in Locking
    BY <1>0, <1>2 DEF TakeNumber, Locking, TypeOK
  <2>2. Cardinality(Locking') = Cardinality(Locking) - 1
    BY <2>1, LockingSize
  <2>3. nextSeq' + Cardinality(Locking') <= MaxSeq /\ nextSeq' \in 0 .. MaxSeq
    <3>1. Cardinality(Locking) - 1 \in Nat
      BY <1>0, <2>1, <2>2, LockingSize, FS_Subset, FS_CardinalityType
    <3> QED
      BY <1>0, <1>2, <2>2, <3>1 DEF TakeNumber
  <2>4. req' \in [Writer -> Request \cup {None}]
    <3>1. req[w] \in Request
      BY <1>2 DEF TakeNumber, PlaceInv
    <3>2. [req[w] EXCEPT !.seq = nextSeq + 1] \in Request
      BY <1>0, <3>1 DEF Request
    <3> QED
      BY <1>0, <1>2, <3>2 DEF TakeNumber, TypeOK
  <2>5. \A v \in Writer : (mu' = v) <=> (pc'[v] = "send")
    BY <1>0, <1>2 DEF TakeNumber, TypeOK, HoldLock
  <2>6. \A v \in Writer : done'[v] # None => pc'[v] = "wait"
    BY <1>0, <1>2 DEF TakeNumber, TypeOK
  <2>7. TypeOK'
    BY <1>0, <1>2, <2>3, <2>4, <2>5, <2>6
    DEF TakeNumber, TypeOK, HoldLock, batchVars, fileVars, crashVars
  <2> QED
    BY <2>3, <2>7 DEF TypeInv
<1>3. CASE Refuse(w)
  <2>1. Locking' = Locking \ {w} /\ w \in Locking
    BY <1>0, <1>3 DEF Refuse, Locking, TypeOK
  <2>2. Cardinality(Locking') = Cardinality(Locking) - 1
    BY <2>1, LockingSize
  <2>3. TypeOK'
    BY <1>0, <1>3
    DEF Refuse, TypeOK, queueVars, batchVars, fileVars, crashVars
  <2> QED
    BY <1>0, <1>3, <2>2, <2>3 DEF TypeInv, Refuse, queueVars
<1>4. CASE Send(w)
  <2>1. Locking' = Locking
    BY <1>0, <1>4 DEF Send, Locking, TypeOK
  <2>2. queue' \in Seq(Request) /\ Len(queue') <= QueueCap
    <3>1. req[w] \in Request
      BY <1>4 DEF Send, PlaceInv
    <3> QED
      BY <1>0, <1>4, <3>1, WALAssumption DEF Send, TypeOK
  <2>3. TypeOK'
    BY <1>0, <1>4, <2>2
    DEF Send, TypeOK, batchVars, fileVars, crashVars
  <2> QED
    BY <1>0, <1>4, <2>1, <2>3 DEF TypeInv, Send
<1>5. CASE Return(w)
  <2>1. Locking' = Locking
    BY <1>0, <1>5 DEF Return, Locking, TypeOK
  <2>2. TypeOK'
    BY <1>0, <1>5
    DEF Return, TypeOK, queueVars, batchVars, fileVars, crashVars
  <2> QED
    BY <1>0, <1>5, <2>1, <2>2 DEF TypeInv, Return, queueVars
<1> QED
  BY <1>1, <1>2, <1>3, <1>4, <1>5

\* What Answer leaves in the done channels: only writers that wait get one.
LEMMA AnswerType ==
    ASSUME TypeInv, PlaceInv, NEW a \in {"ok", "failed"}, Answer(a), UNCHANGED pc
    PROVE  /\ done' \in [Writer -> {None, "ok", "failed"}]
           /\ \A w \in Writer : done'[w] # None => pc'[w] = "wait"
<1>1. \A w \in Writer : (\E q \in Elems(batch) : q.writer = w) => pc[w] = "wait"
  BY DEF PlaceInv, UnderWay
<1>2. TypeOK
  BY DEF TypeInv
<1> QED
  BY <1>1, <1>2 DEF Answer, TypeOK

LEMMA TypeCommit ==
    ASSUME TypeInv, PlaceInv, BatchInv, Commit
    PROVE  TypeInv'
<1>0. /\ TypeOK /\ Locking' = Locking /\ nextSeq' = nextSeq
      /\ pc' = pc /\ req' = req /\ mu' = mu /\ closed' = closed
      /\ closing' = closing /\ server' = server /\ epoch' = epoch
      /\ replayed' = replayed
  BY DEF TypeInv, Commit, TakeFirst, Collect, StopCollecting, CollectZero, Count,
     WriteRecord, WriteFails, Sync, SyncFails, Exit,
     writerVars, queueVars, batchVars, fileVars, crashVars, Locking
<1>1. CASE TakeFirst \/ Collect
  <2>1. queue \in Seq(Request) /\ batch \in Seq(Request) /\ Len(queue) \in Nat
    BY <1>0 DEF TypeOK
  <2>2. queue # <<>>
    BY <1>1 DEF TakeFirst, Collect
  <2>3. /\ Head(queue) \in Request /\ queue' \in Seq(Request)
        /\ Len(queue') <= Len(queue)
    <3>1. queue' = Tail(queue)
      BY <1>1 DEF TakeFirst, Collect
    <3> QED
      BY <2>1, <2>2, <3>1, ElemsTail
  <2>4. batch' \in Seq(Request) /\ written' \in 0 .. Len(batch')
    <3>1. CASE TakeFirst
      <4>1. batch' = <<Head(queue)>> /\ written' = 0
        BY <3>1 DEF TakeFirst, BatchInv
      <4> QED
        BY <2>3, <4>1
    <3>2. CASE Collect
      <4>1. batch' = Append(batch, Head(queue)) /\ written' = written
        BY <3>2 DEF Collect
      <4>2. written \in 0 .. Len(batch)
        BY <1>0 DEF TypeOK
      <4> DEFINE h == Head(queue)
      <4> HIDE DEF h
      <4>3. batch' = Append(batch, h) /\ h \in Request
        BY <2>3, <4>1 DEF h
      <4>4. batch' \in Seq(Request) /\ Len(batch') = Len(batch) + 1 /\ Len(batch) \in Nat
        BY <2>1, <4>3
      <4> QED
        BY <4>1, <4>2, <4>4
    <3> QED
      BY <1>1, <3>1, <3>2
  <2>5. Len(queue') <= QueueCap
    BY <1>0, <2>1, <2>3, WALAssumption DEF TypeOK
  <2>6. TypeOK'
    BY <1>0, <1>1, <2>3, <2>4, <2>5
    DEF TakeFirst, Collect, TypeOK, writerVars, fileVars, crashVars
  <2> QED
    BY <1>0, <2>6 DEF TypeInv
<1>2. CASE StopCollecting \/ CollectZero \/ Count \/ Exit
  <2>1. TypeOK'
    BY <1>0, <1>2
    DEF StopCollecting, CollectZero, Count, Exit, TypeOK,
        writerVars, queueVars, fileVars, crashVars
  <2> QED
    BY <1>0, <2>1 DEF TypeInv
<1>3. CASE WriteRecord
  <2>1. batch[written + 1] \in Request
    BY <1>0, <1>3 DEF WriteRecord, TypeOK
  <2>2. EntryOf(batch[written + 1], "whole") \in Entry
    BY <2>1, EntryType
  <2>3. file' \in Seq(Entry) /\ synced' \in 0 .. Len(file') /\ written' \in 0 .. Len(batch)
    BY <1>0, <1>3, <2>2 DEF WriteRecord, TypeOK
  <2>4. TypeOK'
    BY <1>0, <1>3, <2>3
    DEF WriteRecord, TypeOK, writerVars, queueVars, crashVars
  <2> QED
    BY <1>0, <2>4 DEF TypeInv
<1>4. CASE WriteFails
  <2>1. batch[written + 1] \in Request
    BY <1>0, <1>4 DEF WriteFails, TypeOK
  <2>2. \A t \in WriteTears : EntryOf(batch[written + 1], t) \in Entry
    BY <2>1, EntryType, WALAssumption
  <2>3. file' \in Seq(Entry) /\ synced' \in 0 .. Len(file')
    <3>1. file \in Seq(Entry) /\ Len(file) \in Nat /\ synced \in 0 .. Len(file)
      BY <1>0 DEF TypeOK
    <3>2. CASE UNCHANGED file
      BY <1>4, <3>1, <3>2 DEF WriteFails
    <3>3. ASSUME NEW t \in WriteTears, file' = Append(file, EntryOf(batch[written + 1], t))
          PROVE  file' \in Seq(Entry) /\ synced' \in 0 .. Len(file')
      <4> DEFINE e == EntryOf(batch[written + 1], t)
      <4> HIDE DEF e
      <4>1. e \in Entry /\ file' = Append(file, e)
        BY <2>2, <3>3 DEF e
      <4>2. file' \in Seq(Entry) /\ Len(file') = Len(file) + 1
        BY <3>1, <4>1
      <4> QED
        BY <1>4, <3>1, <4>2 DEF WriteFails
    <3> QED
      BY <1>4, <3>2, <3>3 DEF WriteFails
  <2>4. /\ done' \in [Writer -> {None, "ok", "failed"}]
        /\ \A w \in Writer : done'[w] # None => pc'[w] = "wait"
    BY <1>4, AnswerType DEF WriteFails
  <2>5. TypeOK'
    BY <1>0, <1>4, <2>3, <2>4
    DEF WriteFails, NextBatch, TypeOK, queueVars, crashVars
  <2> QED
    BY <1>0, <2>5 DEF TypeInv
<1>5. CASE Sync \/ SyncFails
  <2>1. /\ done' \in [Writer -> {None, "ok", "failed"}]
        /\ \A w \in Writer : done'[w] # None => pc'[w] = "wait"
    BY <1>5, AnswerType DEF Sync, SyncFails
  <2>2. synced' \in 0 .. Len(file) /\ file' = file
    BY <1>0, <1>5 DEF Sync, SyncFails, MakeDurable, TypeOK, fileVars
  <2>3. acked' \subseteq Nat \X Nat
    <3>1. \A q \in Elems(batch) : q \in Request
      BY <1>0 DEF TypeOK, Elems
    <3>2. Ids(Elems(batch)) \subseteq Nat \X Nat
      BY <3>1 DEF Ids, Id, Request
    <3> QED
      BY <1>0, <1>5, <3>2 DEF Sync, SyncFails, TypeOK
  <2>4. batch' \in Seq(Request) /\ written' \in 0 .. Len(batch')
    <3>1. batch' = <<>> /\ written' = 0
      BY <1>5 DEF Sync, SyncFails, NextBatch
    <3> QED
      BY <3>1, ElemsEmpty
  <2>5. TypeOK'
    BY <1>0, <1>5, <2>1, <2>2, <2>3, <2>4
    DEF Sync, SyncFails, NextBatch, TypeOK, queueVars, crashVars, fileVars
  <2> QED
    BY <1>0, <2>5 DEF TypeInv
<1> QED
  BY <1>1, <1>2, <1>3, <1>4, <1>5 DEF Commit

\* What a crash leaves of the file.
LEMMA CrashType ==
    ASSUME TypeInv, Crash
    PROVE  /\ file' \in Seq(Entry) /\ synced' \in 0 .. Len(file')
           /\ Len(file') <= Len(file)
           /\ \A k \in 1 .. Len(file') : Id(file'[k]) = Id(file[k])
           /\ \A k \in 1 .. synced : k <= Len(file') /\ file'[k] = file[k]
           /\ CrashTears = {} => \A k \in 1 .. Len(file') : file'[k] = file[k]
           /\ \A k \in 1 .. Len(file') - 1 : file'[k] = file[k]
<1>1. /\ file \in Seq(Entry) /\ Len(file) \in Nat /\ synced \in 0 .. Len(file)
      /\ CrashTears \subseteq {"header", "body"}
  BY WALAssumption DEF TypeInv, TypeOK
<1>2. PICK n \in synced .. Len(file) :
         \/ file' = SubSeq(file, 1, n)
         \/ /\ n < Len(file)
            /\ \E t \in CrashTears :
                  file' = Append(SubSeq(file, 1, n), [file[n + 1] EXCEPT !.cut = t])
  BY DEF Crash
<1>3. /\ n \in Nat /\ n <= Len(file) /\ synced <= n
      /\ SubSeq(file, 1, n) \in Seq(Entry) /\ Len(SubSeq(file, 1, n)) = n
      /\ \A k \in 1 .. n : SubSeq(file, 1, n)[k] = file[k]
  BY <1>1
<1> DEFINE f == SubSeq(file, 1, n)
<1> HIDE DEF f
<1>4. synced' = Len(file')
  BY DEF Crash
<1>5. CASE file' = f
  <2>1. \A k \in 1 .. Len(file') : file'[k] = file[k]
    BY <1>3, <1>5 DEF f
  <2>2. \A k \in 1 .. synced : k <= n /\ k \in 1 .. n
    BY <1>1, <1>3
  <2>3. /\ file' \in Seq(Entry) /\ Len(file') = n
    BY <1>3, <1>5 DEF f
  <2>4. \A k \in 1 .. Len(file') - 1 : k \in 1 .. Len(file')
    BY <1>3, <2>3
  <2> QED
    BY <1>1, <1>3, <1>4, <2>1, <2>2, <2>3, <2>4
<1>6. CASE n < Len(file) /\ \E t \in CrashTears :
                  file' = Append(f, [file[n + 1] EXCEPT !.cut = t])
  <2>1. PICK t \in CrashTears : file' = Append(f, [file[n + 1] EXCEPT !.cut = t])
    BY <1>6
  <2>2. file[n + 1] \in Entry
    BY <1>1, <1>3, <1>6
  <2> DEFINE e == [file[n + 1] EXCEPT !.cut = t]
  <2>3. e \in Entry /\ Id(e) = Id(file[n + 1])
    BY <1>1, <2>2 DEF Entry, Id
  <2>4. file' = Append(f, e)
    BY <2>1
  <2> HIDE DEF e
  <2>5. /\ file' \in Seq(Entry) /\ Len(file') = n + 1
        /\ \A k \in 1 .. n : file'[k] = file[k]
        /\ file'[n + 1] = e
    BY <1>3, <2>3, <2>4 DEF f
  <2>6. ASSUME NEW k \in 1 .. n + 1
        PROVE  Id(file'[k]) = Id(file[k])
    <3>1. k \in 1 .. n \/ k = n + 1
      BY <1>3
    <3> QED
      BY <2>3, <2>5, <3>1
  <2>7. \A k \in 1 .. synced : k <= n + 1 /\ k \in 1 .. n
    BY <1>1, <1>3
  <2>8. /\ \A k \in 1 .. Len(file') : Id(file'[k]) = Id(file[k])
        /\ \A k \in 1 .. synced : k <= Len(file') /\ file'[k] = file[k]
    BY <2>5, <2>6, <2>7
  <2>9. synced' \in 0 .. Len(file') /\ Len(file') <= Len(file)
    BY <1>1, <1>3, <1>4, <1>6, <2>5
  <2>10. CrashTears # {}
    OBVIOUS
  <2>11. \A k \in 1 .. Len(file') - 1 : file'[k] = file[k]
    BY <1>3, <2>5
  <2> QED
    BY <2>5, <2>8, <2>9, <2>10, <2>11
<1> QED
  BY <1>2, <1>5, <1>6 DEF f

LEMMA TypeStep == TypeInv /\ PlaceInv /\ BatchInv /\ [Next]_vars => TypeInv'
<1> SUFFICES ASSUME TypeInv, PlaceInv, BatchInv, [Next]_vars
             PROVE  TypeInv'
  OBVIOUS
<1>0. TypeOK
  BY DEF TypeInv
<1>1. CASE Close \/ CloseReturn
  <2>1. Locking' = Locking /\ nextSeq' = nextSeq
    BY <1>1 DEF Close, CloseReturn, Locking, writerVars, queueVars
  <2>2. TypeOK'
    BY <1>0, <1>1
    DEF Close, CloseReturn, Unlock, TypeOK, writerVars, queueVars, batchVars,
        fileVars, crashVars
  <2> QED
    BY <2>1, <2>2 DEF TypeInv
<1>2. CASE Crash
  <2>1. Locking' = {} /\ nextSeq' = 0
    BY <1>2 DEF Crash, Locking
  <2>2. nextSeq' + Cardinality(Locking') <= MaxSeq
    BY <2>1, FS_EmptySet, WALAssumption
  <2>3. file' \in Seq(Entry) /\ synced' \in 0 .. Len(file')
    BY <1>2, CrashType
  <2>4. epoch' \in 0 .. MaxEpoch
    BY <1>0, <1>2, WALAssumption DEF TypeOK, Crash
  <2>5. queue' \in Seq(Request) /\ batch' \in Seq(Request) /\ Len(queue') <= QueueCap
    BY <1>2, ElemsEmpty, WALAssumption DEF Crash
  <2>6. written' \in 0 .. Len(batch') /\ nextSeq' \in 0 .. MaxSeq
    BY <1>2, ElemsEmpty, WALAssumption DEF Crash
  <2>7. /\ pc' \in [Writer -> {"idle", "lock", "send", "wait"}]
        /\ req' \in [Writer -> Request \cup {None}]
        /\ done' \in [Writer -> {None, "ok", "failed"}]
    BY <1>2 DEF Crash
  <2>8. /\ \A w \in Writer : (mu' = w) <=> (pc'[w] = "send")
        /\ \A w \in Writer : done'[w] # None => pc'[w] = "wait"
    BY <1>2, WALAssumption DEF Crash
  <2>9. TypeOK'
    BY <1>0, <1>2, <2>3, <2>4, <2>5, <2>6, <2>7, <2>8 DEF TypeOK, Crash
  <2> QED
    BY <2>2, <2>9 DEF TypeInv, Locking
<1>3. CASE Open \/ OpenFails
  <2>1. Locking' = Locking /\ nextSeq' = nextSeq
    BY <1>3 DEF Open, OpenFails, Locking, writerVars, queueVars
  <2>2. replayed' \in Seq(Entry)
    <3>1. SubSeq(file, 1, Readable(file)) \in Seq(Entry)
      <4>1. Readable(file) \in 0 .. Len(file)
        BY <1>0, ReadableType DEF TypeOK
      <4> QED
        BY <1>0, <4>1 DEF TypeOK
    <3> QED
      BY <1>0, <1>3, <3>1 DEF Open, OpenFails, TypeOK
  <2>3. TypeOK'
    BY <1>0, <1>3, <2>2
    DEF Open, OpenFails, TypeOK, writerVars, queueVars, batchVars, fileVars
  <2> QED
    BY <2>1, <2>3 DEF TypeInv
<1>4. CASE UNCHANGED vars
  <2>1. TypeOK'
    BY <1>0, <1>4
    DEF vars, TypeOK, writerVars, queueVars, batchVars, fileVars, crashVars
  <2> QED
    BY <1>4, <2>1
    DEF TypeInv, Locking, vars, writerVars, queueVars
<1> QED
  BY <1>1, <1>2, <1>3, <1>4, TypeAppend, TypeCommit DEF Next
-----------------------------------------------------------------------------
(* Places.                                                                 *)

LEMMA PlaceInit == Init => PlaceInv
BY ElemsEmpty DEF Init, PlaceInv, UnderWay

\* What is under way is a request with a number.
LEMMA UnderWayType ==
    ASSUME TypeInv
    PROVE  /\ \A q \in UnderWay : q \in Request /\ q.seq \in Nat /\ q.writer \in Writer
           /\ \A k \in 1 .. Len(batch) : batch[k] \in UnderWay /\ batch[k] \in Elems(batch)
           /\ LastSent \in Int
<1>1. queue \in Seq(Request) /\ batch \in Seq(Request) /\ nextSeq \in Nat
  BY WALAssumption DEF TypeInv, TypeOK
<1>2. \A q \in UnderWay : q \in Request
  BY <1>1 DEF UnderWay, Elems
<1>3. \A k \in 1 .. Len(batch) : batch[k] \in Elems(batch)
  BY <1>1 DEF Elems
<1>4. LastSent \in Int
  BY <1>1 DEF LastSent
<1> QED
  BY <1>2, <1>3, <1>4 DEF Request, UnderWay

LEMMA FileType ==
    ASSUME TypeInv
    PROVE  \A e \in Elems(file) : e \in Entry /\ e.seq \in Nat /\ e.epoch \in Nat
<1>1. file \in Seq(Entry)
  BY DEF TypeInv, TypeOK
<1>2. \A e \in Elems(file) : e \in Entry
  BY <1>1 DEF Elems
<1> QED
  BY <1>2 DEF Entry

LEMMA PlaceAppend ==
    ASSUME TypeInv, PlaceInv, NEW w \in Writer
    PROVE  /\ \A r \in Record : CallAppend(w, r) => PlaceInv'
           /\ TakeNumber(w) \/ Refuse(w) \/ Send(w) \/ Return(w) => PlaceInv'
<1>0. /\ pc \in [Writer -> {"idle", "lock", "send", "wait"}]
      /\ req \in [Writer -> Request \cup {None}]
      /\ done \in [Writer -> {None, "ok", "failed"}]
      /\ epoch \in Nat /\ nextSeq \in Nat
      /\ \A v \in Writer : done[v] # None => pc[v] = "wait"
      /\ \A q \in UnderWay : q.writer \in Writer
  BY UnderWayType, WALAssumption DEF TypeInv, TypeOK
<1>1. ASSUME NEW r \in Record, CallAppend(w, r)
      PROVE  PlaceInv'
  <2> DEFINE q == [writer |-> w, epoch |-> epoch, seq |-> 0, record |-> r]
  <2>1. q \in Request /\ q.writer = w /\ q.epoch = epoch
    BY <1>0 DEF Request
  <2>2. /\ pc[w] = "idle" /\ pc' = [pc EXCEPT ![w] = "lock"]
        /\ req' = [req EXCEPT ![w] = q] /\ done' = done /\ epoch' = epoch
        /\ UnderWay' = UnderWay
    BY <1>1 DEF CallAppend, UnderWay, queueVars, batchVars, crashVars, Elems
  <2> HIDE DEF q
  <2> QED
    BY <1>0, <2>1, <2>2 DEF PlaceInv
<1>2. CASE TakeNumber(w)
  <2>1. /\ pc[w] = "lock" /\ pc' = [pc EXCEPT ![w] = "send"]
        /\ req' = [req EXCEPT ![w].seq = nextSeq + 1] /\ done' = done /\ epoch' = epoch
        /\ UnderWay' = UnderWay
    BY <1>2 DEF TakeNumber, UnderWay, batchVars, crashVars, Elems
  <2>2. req[w] \in Request /\ req[w].writer = w /\ req[w].epoch = epoch
    BY <2>1 DEF PlaceInv
  <2>3. /\ req'[w] \in Request /\ req'[w].writer = w /\ req'[w].epoch = epoch
        /\ \A v \in Writer : v # w => req'[v] = req[v]
    BY <1>0, <2>1, <2>2 DEF Request
  <2> QED
    BY <1>0, <2>1, <2>3 DEF PlaceInv
<1>3. CASE Refuse(w)
  <2>1. /\ pc[w] = "lock" /\ pc' = [pc EXCEPT ![w] = "idle"]
        /\ req' = req /\ done' = done /\ epoch' = epoch
        /\ UnderWay' = UnderWay
    BY <1>3 DEF Refuse, UnderWay, queueVars, batchVars, crashVars, Elems
  <2> QED
    BY <1>0, <2>1 DEF PlaceInv
<1>4. CASE Send(w)
  <2>1. /\ pc[w] = "send" /\ pc' = [pc EXCEPT ![w] = "wait"]
        /\ req' = req /\ done' = done /\ epoch' = epoch
        /\ queue' = Append(queue, req[w]) /\ batch' = batch
    BY <1>4 DEF Send, batchVars, crashVars
  <2>2. req[w] \in Request /\ req[w].writer = w
    BY <2>1 DEF PlaceInv
  <2>3. UnderWay' = UnderWay \cup {req[w]}
    <3>1. Elems(queue') = Elems(queue) \cup {req[w]}
      BY <2>1, <2>2, ElemsAppend DEF TypeInv, TypeOK
    <3> QED
      BY <2>1, <3>1 DEF UnderWay, Elems
  <2> QED
    BY <1>0, <2>1, <2>2, <2>3 DEF PlaceInv
<1>5. CASE Return(w)
  <2>1. /\ pc[w] = "wait" /\ done[w] # None /\ pc' = [pc EXCEPT ![w] = "idle"]
        /\ req' = req /\ done' = [done EXCEPT ![w] = None] /\ epoch' = epoch
        /\ UnderWay' = UnderWay
    BY <1>5 DEF Return, UnderWay, queueVars, batchVars, crashVars, Elems
  <2> QED
    BY <1>0, <2>1 DEF PlaceInv
<1> QED
  BY <1>1, <1>2, <1>3, <1>4, <1>5

\* The answers of a batch reach those whose requests are in it, none of whom
\* has another request in the queue.
LEMMA PlaceAnswer ==
    ASSUME TypeInv, PlaceInv, OrderInv, NEW a \in {"ok", "failed"}, Answer(a),
           batch' = <<>>, UNCHANGED <<pc, req, queue, epoch>>
    PROVE  PlaceInv'
<1>1. UnderWay' = Elems(queue)
  BY ElemsEmpty DEF UnderWay, Elems
<1>2. ASSUME NEW q \in Elems(queue)
      PROVE  done'[q.writer] = None
  <2>1. q \in UnderWay /\ q.writer \in Writer /\ q.seq \in Nat
    BY UnderWayType DEF UnderWay
  <2>2. ASSUME NEW p \in Elems(batch), p.writer = q.writer
        PROVE  FALSE
    <3>1. p \in UnderWay
      BY DEF UnderWay
    <3>2. p = q
      BY <2>1, <2>2, <3>1 DEF PlaceInv
    <3>3. p.seq < q.seq
      BY DEF OrderInv
    <3> QED
      BY <2>1, <3>2, <3>3
  <2> QED
    BY <2>1, <2>2 DEF Answer, PlaceInv
<1>3. ASSUME NEW w \in Writer, pc[w] = "wait"
      PROVE  req[w] \in Elems(queue) \/ done'[w] # None
  <2>1. CASE req[w] \in Elems(batch)
    <3>1. req[w].writer = w
      BY <1>3 DEF PlaceInv
    <3>2. done'[w] = a
      BY <2>1, <3>1 DEF Answer
    <3> QED
      BY <3>2, WALAssumption
  <2>2. CASE done[w] # None
    BY <2>2, WALAssumption DEF Answer
  <2> QED
    BY <1>3, <2>1, <2>2 DEF PlaceInv, UnderWay
<1> QED
  BY <1>1, <1>2, <1>3 DEF PlaceInv, UnderWay

LEMMA PlaceCommit ==
    ASSUME TypeInv, PlaceInv, OrderInv, BatchInv, Commit
    PROVE  PlaceInv'
<1>1. CASE TakeFirst \/ Collect
  <2>1. queue \in Seq(Request) /\ batch \in Seq(Request) /\ queue # <<>>
    BY <1>1 DEF TypeInv, TypeOK, TakeFirst, Collect
  <2> DEFINE h == Head(queue)
  <2>2. h \in Request /\ Elems(queue) = {h} \cup Elems(Tail(queue))
    BY <2>1, ElemsTail
  <2>3. queue' = Tail(queue) /\ UNCHANGED <<pc, req, done, epoch>>
    BY <1>1 DEF TakeFirst, Collect, writerVars, crashVars
  <2>4. Elems(batch') = Elems(batch) \cup {h}
    <3>1. CASE TakeFirst
      <4>1. batch = <<>> /\ batch' = <<h>>
        BY <3>1 DEF TakeFirst, BatchInv
      <4> HIDE DEF h
      <4> QED
        BY <4>1 DEF Elems
    <3>2. CASE Collect
      <4>1. batch' = Append(batch, h)
        BY <3>2 DEF Collect
      <4> QED
        BY <2>1, <2>2, <4>1, ElemsAppend
    <3> QED
      BY <1>1, <3>1, <3>2
  <2> HIDE DEF h
  <2>5. UnderWay' = UnderWay
    BY <2>2, <2>3, <2>4 DEF UnderWay, Elems
  <2> QED
    BY <2>3, <2>5 DEF PlaceInv
<1>2. CASE StopCollecting \/ CollectZero \/ Count \/ WriteRecord \/ Exit
  <2>1. UNCHANGED <<pc, req, done, epoch, queue, batch>>
    BY <1>2
    DEF StopCollecting, CollectZero, Count, WriteRecord, Exit, writerVars, queueVars,
        crashVars
  <2> QED
    BY <2>1 DEF PlaceInv, UnderWay, Elems
<1>3. CASE WriteFails \/ Sync \/ SyncFails
  <2>1. /\ Answer("ok") \/ Answer("failed")
        /\ batch' = <<>> /\ UNCHANGED <<pc, req, queue, epoch>>
    BY <1>3 DEF WriteFails, Sync, SyncFails, NextBatch, queueVars, crashVars
  <2> QED
    BY <2>1, PlaceAnswer
<1> QED
  BY <1>1, <1>2, <1>3 DEF Commit

LEMMA PlaceStep == TypeInv /\ PlaceInv /\ OrderInv /\ BatchInv /\ [Next]_vars => PlaceInv'
<1> SUFFICES ASSUME TypeInv, PlaceInv, OrderInv, BatchInv, [Next]_vars
             PROVE  PlaceInv'
  OBVIOUS
<1>1. CASE Close \/ CloseReturn \/ Open \/ OpenFails \/ UNCHANGED vars
  <2>1. UNCHANGED <<pc, req, done, epoch, queue, batch>>
    BY <1>1
    DEF Close, CloseReturn, Open, OpenFails, vars, writerVars, queueVars, batchVars,
        crashVars
  <2> QED
    BY <2>1 DEF PlaceInv, UnderWay, Elems
<1>2. CASE Crash
  BY <1>2, ElemsEmpty DEF Crash, PlaceInv, UnderWay, Elems
<1> QED
  BY <1>1, <1>2, PlaceAppend, PlaceCommit DEF Next
-----------------------------------------------------------------------------
(* Order.                                                                  *)

LEMMA OrderInit == Init => OrderInv /\ BatchInv
<1> SUFFICES ASSUME Init PROVE OrderInv /\ BatchInv
  OBVIOUS
<1>1. /\ Elems(queue) = {} /\ Elems(batch) = {} /\ Elems(file) = {}
      /\ DOMAIN queue = {} /\ DOMAIN batch = {} /\ DOMAIN file = {}
  BY ElemsEmpty DEF Init
<1>2. \A w \in Writer : pc[w] # "send"
  BY DEF Init
<1> QED
  BY <1>1, <1>2 DEF Init, OrderInv, BatchInv, UnderWay, Increasing, FileInOrder

LEMMA BatchStep == BatchInv /\ [Next]_vars => BatchInv'
BY DEF BatchInv, Next, CallAppend, TakeNumber, Refuse, Send, Return, Commit, TakeFirst,
   Collect, StopCollecting, CollectZero, Count, WriteRecord, WriteFails, Sync, SyncFails,
   Exit, NextBatch, Close, CloseReturn, Crash, Open, OpenFails, vars, batchVars

\* Steps that leave what is under way and the file.
LEMMA OrderKept ==
    ASSUME OrderInv, UNCHANGED <<queue, batch, written, file, epoch>>,
           LastSent' = LastSent,
           \A w \in Writer : pc'[w] = "send" => req'[w].seq = nextSeq'
    PROVE  OrderInv'
BY DEF OrderInv, UnderWay, Increasing, FileInOrder, Elems

LEMMA OrderAppend ==
    ASSUME TypeInv, PlaceInv, OrderInv, NEW w \in Writer
    PROVE  /\ \A r \in Record : CallAppend(w, r) => OrderInv'
           /\ TakeNumber(w) \/ Refuse(w) \/ Send(w) \/ Return(w) => OrderInv'
<1>0. /\ pc \in [Writer -> {"idle", "lock", "send", "wait"}]
      /\ req \in [Writer -> Request \cup {None}] /\ nextSeq \in Nat
      /\ \A v \in Writer : (mu = v) <=> (pc[v] = "send")
      /\ None \notin Writer /\ queue \in Seq(Request)
  BY WALAssumption DEF TypeInv, TypeOK
<1>1. ASSUME NEW r \in Record, CallAppend(w, r)
      PROVE  OrderInv'
  <2>1. UNCHANGED <<queue, batch, written, file, epoch, mu, nextSeq>>
    BY <1>1 DEF CallAppend, queueVars, batchVars, fileVars, crashVars
  <2>2. \A v \in Writer : pc'[v] = "send" => pc[v] = "send" /\ req'[v] = req[v]
    BY <1>0, <1>1 DEF CallAppend
  <2> QED
    BY <2>1, <2>2, OrderKept DEF LastSent, OrderInv
<1>2. CASE TakeNumber(w)
  <2>1. /\ mu = None /\ mu' = w /\ nextSeq' = nextSeq + 1 /\ pc[w] = "lock"
        /\ pc' = [pc EXCEPT ![w] = "send"]
        /\ req' = [req EXCEPT ![w].seq = nextSeq + 1]
        /\ UNCHANGED <<queue, batch, written, file, epoch>>
    BY <1>2 DEF TakeNumber, HoldLock, batchVars, fileVars, crashVars
  <2>2. LastSent' = LastSent
    BY <1>0, <2>1 DEF LastSent
  <2>3. req'[w].seq = nextSeq'
    <3>1. req[w] \in Request
      BY <2>1 DEF PlaceInv
    <3> QED
      BY <1>0, <2>1, <3>1 DEF Request
  <2>4. \A v \in Writer : pc'[v] = "send" => v = w
    BY <1>0, <2>1
  <2> QED
    BY <2>1, <2>2, <2>3, <2>4, OrderKept
<1>3. CASE Refuse(w) \/ Return(w)
  <2>1. UNCHANGED <<queue, batch, written, file, epoch, mu, nextSeq, req>>
    BY <1>3 DEF Refuse, Return, queueVars, batchVars, fileVars, crashVars
  <2>2. \A v \in Writer : pc'[v] = "send" => pc[v] = "send"
    BY <1>0, <1>3 DEF Refuse, Return
  <2> QED
    BY <2>1, <2>2, OrderKept DEF LastSent, OrderInv
<1>4. CASE Send(w)
  <2>1. /\ pc[w] = "send" /\ mu' = None /\ pc' = [pc EXCEPT ![w] = "wait"]
        /\ queue' = Append(queue, req[w])
        /\ UNCHANGED <<batch, written, file, epoch, nextSeq, req>>
    BY <1>4 DEF Send, batchVars, fileVars, crashVars
  <2>2. mu = w /\ LastSent = nextSeq - 1 /\ LastSent' = nextSeq
    BY <1>0, <2>1 DEF LastSent
  <2>3. req[w] \in Request /\ req[w].seq = nextSeq /\ req[w].epoch = epoch
    BY <2>1 DEF PlaceInv, OrderInv
  <2>4. Elems(queue') = Elems(queue) \cup {req[w]}
    BY <1>0, <2>1, <2>3, ElemsAppend
  <2>5. \A q \in UnderWay : q.seq \in Nat /\ q.seq <= nextSeq - 1 /\ q.seq < nextSeq
    BY <1>0, <2>2, UnderWayType DEF OrderInv
  <2>6. Increasing(queue')
    BY <1>0, <2>1, <2>3, <2>5, IncreasingAppend DEF OrderInv, UnderWay
  <2>7. \A e \in Elems(file) : e.seq \in Nat
    BY FileType
  <2>8. \A e \in Elems(file) : e.epoch = epoch => e.seq < nextSeq /\ e.seq <= nextSeq
    BY <1>0, <2>2, <2>7 DEF OrderInv
  <2>9. \A q \in UnderWay' : q.seq <= LastSent'
    <3>1. UnderWay' = UnderWay \cup {req[w]}
      BY <2>1, <2>4 DEF UnderWay, Elems
    <3> QED
      BY <1>0, <2>2, <2>3, <2>5, <3>1
  <2>10. \A q \in Elems(queue'), p \in Elems(batch') : p.seq < q.seq
    BY <2>1, <2>3, <2>4, <2>5 DEF OrderInv, UnderWay
  <2>11. \A v \in Writer : pc'[v] = "send" => req'[v].seq = nextSeq'
    BY <1>0, <2>1 DEF OrderInv
  <2>12. \A e \in Elems(file') :
           /\ e.epoch <= epoch'
           /\ e.epoch = epoch' =>
                 /\ e.seq <= LastSent'
                 /\ \A k \in written' + 1 .. Len(batch') : e.seq < batch'[k].seq
                 /\ \A q \in Elems(queue') : e.seq < q.seq
    BY <2>1, <2>2, <2>3, <2>4, <2>8 DEF OrderInv
  <2>13. Increasing(batch') /\ FileInOrder'
    BY <2>1 DEF OrderInv, FileInOrder
  <2> QED
    BY <2>6, <2>9, <2>10, <2>11, <2>12, <2>13 DEF OrderInv, Elems, Increasing
<1> QED
  BY <1>1, <1>2, <1>3, <1>4

\* The head of the queue goes to the end of the batch.
LEMMA OrderCollect ==
    ASSUME TypeInv, OrderInv, BatchInv, TakeFirst \/ Collect
    PROVE  OrderInv'
<1> DEFINE h == Head(queue)
<1>1. queue \in Seq(Request) /\ batch \in Seq(Request) /\ queue # <<>> /\ Len(batch) \in Nat
  BY DEF TypeInv, TypeOK, TakeFirst, Collect
<1>2. h \in Request /\ Elems(queue) = {h} \cup Elems(Tail(queue))
  BY <1>1, ElemsTail
<1>3. queue' = Tail(queue) /\ UNCHANGED <<mu, nextSeq, pc, req, file, epoch>> /\ written = 0
  BY DEF TakeFirst, Collect, BatchInv, writerVars, fileVars, crashVars
<1>4. batch' = Append(batch, h) /\ written' = 0
  <2>1. CASE TakeFirst
    <3>1. batch = <<>> /\ batch' = <<h>> /\ written' = written
      BY <2>1 DEF TakeFirst, BatchInv
    <3> HIDE DEF h
    <3> QED
      BY <1>2, <1>3, <3>1
  <2>2. CASE Collect
    BY <1>3, <2>2 DEF Collect
  <2> QED
    BY <2>1, <2>2
<1>5. Increasing(Tail(queue)) /\ \A q \in Elems(Tail(queue)) : h.seq < q.seq
  BY <1>1, IncreasingTail DEF OrderInv
<1> HIDE DEF h
<1>6. Elems(batch') = Elems(batch) \cup {h}
  BY <1>1, <1>2, <1>4, ElemsAppend
<1>7. Increasing(batch')
  BY <1>1, <1>2, <1>4, IncreasingAppend DEF OrderInv
<1>8. UnderWay' = UnderWay /\ LastSent' = LastSent
  BY <1>2, <1>3, <1>6 DEF UnderWay, LastSent, Elems
<1>9. \A q \in Elems(queue'), p \in Elems(batch') : p.seq < q.seq
  BY <1>2, <1>3, <1>5, <1>6 DEF OrderInv
<1>10. ASSUME NEW e \in Elems(file'), e.epoch = epoch', NEW k \in written' + 1 .. Len(batch')
       PROVE  e.seq < batch'[k].seq
  <2>1. /\ Len(batch') = Len(batch) + 1
        /\ \A j \in 1 .. Len(batch) : batch'[j] = batch[j]
        /\ batch'[Len(batch) + 1] = h
    BY <1>1, <1>2, <1>4
  <2>2. CASE k = Len(batch) + 1
    BY <1>2, <1>3, <1>10, <2>1, <2>2 DEF OrderInv
  <2>3. CASE k # Len(batch) + 1
    <3>1. k \in 1 .. Len(batch) /\ k \in written + 1 .. Len(batch)
      BY <1>1, <1>3, <1>4, <2>1, <2>3
    <3> QED
      BY <1>3, <1>10, <2>1, <3>1 DEF OrderInv
  <2> QED
    BY <2>2, <2>3
<1>11. \A e \in Elems(file') : e.epoch = epoch' => \A q \in Elems(queue') : e.seq < q.seq
  BY <1>2, <1>3 DEF OrderInv
<1>12. \A e \in Elems(file') : e.epoch <= epoch' /\ (e.epoch = epoch' => e.seq <= LastSent')
  BY <1>3, <1>8 DEF OrderInv
<1>13. /\ \A w \in Writer : pc'[w] = "send" => req'[w].seq = nextSeq'
       /\ \A q \in UnderWay' : q.seq <= LastSent'
       /\ FileInOrder'
  BY <1>3, <1>8 DEF OrderInv, FileInOrder
<1>14. Increasing(queue')
  BY <1>3, <1>5
<1> QED
  BY <1>7, <1>9, <1>10, <1>11, <1>12, <1>13, <1>14 DEF OrderInv, Increasing, Elems

\* A record of the batch goes to the end of the file, whole or cut.
LEMMA OrderWrite ==
    ASSUME TypeInv, PlaceInv, OrderInv, NEW e, Id(e) = Id(batch[written + 1]),
           written < Len(batch), file' = Append(file, e)
    PROVE  /\ FileInOrder'
           /\ \A f \in Elems(file') :
                 /\ f.epoch <= epoch
                 /\ f.epoch = epoch =>
                       /\ f.seq <= LastSent
                       /\ \A k \in written + 2 .. Len(batch) : f.seq < batch[k].seq
                       /\ \A q \in Elems(queue) : f.seq < q.seq
<1>1. /\ file \in Seq(Entry) /\ batch \in Seq(Request) /\ written \in Nat
      /\ epoch \in Nat /\ Len(batch) \in Nat /\ Len(file) \in Nat
      /\ written + 1 \in 1 .. Len(batch)
  BY WALAssumption DEF TypeInv, TypeOK
<1> DEFINE q == batch[written + 1]
<1>2. q \in UnderWay /\ q \in Elems(batch) /\ q.seq \in Nat /\ q.seq <= LastSent
  BY <1>1, UnderWayType DEF OrderInv
<1>3. e.seq = q.seq /\ e.epoch = epoch
  <2>1. q.epoch = epoch
    <3>1. q.writer \in Writer /\ pc[q.writer] = "wait" /\ req[q.writer] = q
      BY <1>2, UnderWayType DEF PlaceInv
    <3>2. req[q.writer].epoch = epoch
      BY <3>1 DEF PlaceInv
    <3> QED
      BY <3>1, <3>2
  <2> QED
    BY <2>1 DEF Id
<1>4. \A k \in written + 2 .. Len(batch) : q.seq < batch[k].seq
  <2>1. \A k \in written + 2 .. Len(batch) :
           k \in DOMAIN batch /\ written + 1 \in DOMAIN batch /\ written + 1 < k
    BY <1>1
  <2> QED
    BY <2>1 DEF OrderInv, Increasing
<1>5. \A p \in Elems(queue) : q.seq < p.seq
  BY <1>2 DEF OrderInv
<1> HIDE DEF q
<1>6. /\ DOMAIN file' = 1 .. Len(file) + 1 /\ DOMAIN file = 1 .. Len(file)
      /\ \A k \in 1 .. Len(file) : file'[k] = file[k]
      /\ file'[Len(file) + 1] = e
  BY <1>1
<1>7. \A f \in Elems(file) :
        /\ f.epoch <= epoch /\ f.epoch \in Nat
        /\ f.epoch = epoch => /\ f.seq <= LastSent
                              /\ f.seq < q.seq
                              /\ \A k \in written + 2 .. Len(batch) : f.seq < batch[k].seq
                              /\ \A p \in Elems(queue) : f.seq < p.seq
  <2>1. \A k \in written + 2 .. Len(batch) : k \in written + 1 .. Len(batch)
    BY <1>1
  <2>2. written + 1 \in written + 1 .. Len(batch)
    BY <1>1
  <2>3. \A f \in Elems(file) : f.epoch \in Nat
    BY FileType
  <2> QED
    BY <2>1, <2>2, <2>3 DEF OrderInv, q
<1>8. ASSUME NEW j \in DOMAIN file', NEW k \in DOMAIN file', j < k
      PROVE  Before(file'[j], file'[k])
  <2>1. j \in 1 .. Len(file) /\ (k \in 1 .. Len(file) \/ k = Len(file) + 1)
    BY <1>1, <1>6, <1>8
  <2>2. CASE k \in 1 .. Len(file)
    BY <1>6, <1>8, <2>1, <2>2 DEF OrderInv, FileInOrder
  <2>3. CASE k = Len(file) + 1
    <3>1. file[j] \in Elems(file) /\ file'[j] = file[j] /\ file'[k] = e
      BY <1>6, <2>1, <2>3 DEF Elems
    <3>2. file[j].epoch < epoch \/ (file[j].epoch = epoch /\ file[j].seq < q.seq)
      BY <1>1, <1>7, <3>1
    <3> QED
      BY <1>3, <3>1, <3>2 DEF Before
  <2> QED
    BY <2>1, <2>2, <2>3
<1>9. ASSUME NEW f \in Elems(file')
      PROVE  f \in Elems(file) \/ f = e
  <2>1. PICK k \in DOMAIN file' : f = file'[k]
    BY <1>9 DEF Elems
  <2>2. k \in 1 .. Len(file) \/ k = Len(file) + 1
    BY <1>1, <1>6
  <2> QED
    BY <1>6, <2>1, <2>2 DEF Elems
<1> QED
  BY <1>1, <1>2, <1>3, <1>4, <1>5, <1>7, <1>8, <1>9 DEF FileInOrder

\* The batch is over.
LEMMA OrderNextBatch ==
    ASSUME TypeInv, PlaceInv, OrderInv, NextBatch,
           UNCHANGED <<queue, pc, req, nextSeq, mu, epoch>>,
           \/ file' = file
           \/ /\ written < Len(batch)
              /\ \E t \in WriteTears : file' = Append(file, EntryOf(batch[written + 1], t))
    PROVE  OrderInv'
<1>1. batch' = <<>> /\ written' = 0
  BY DEF NextBatch
<1>2. /\ Elems(batch') = {} /\ Increasing(batch') /\ LastSent' = LastSent
      /\ \A k \in written' + 1 .. Len(batch') : FALSE
  BY <1>1, ElemsEmpty DEF Increasing, LastSent
<1>3. /\ FileInOrder'
      /\ \A f \in Elems(file') :
            /\ f.epoch <= epoch
            /\ f.epoch = epoch => /\ f.seq <= LastSent
                                  /\ \A q \in Elems(queue) : f.seq < q.seq
  <2>1. CASE file' = file
    BY <2>1 DEF OrderInv, FileInOrder
  <2>2. CASE /\ written < Len(batch)
             /\ \E t \in WriteTears : file' = Append(file, EntryOf(batch[written + 1], t))
    <3>1. PICK t \in WriteTears : file' = Append(file, EntryOf(batch[written + 1], t))
      BY <2>2
    <3>2. Id(EntryOf(batch[written + 1], t)) = Id(batch[written + 1])
      BY DEF Id, EntryOf
    <3> DEFINE e == EntryOf(batch[written + 1], t)
    <3>3. Id(e) = Id(batch[written + 1]) /\ file' = Append(file, e)
      BY <3>1, <3>2
    <3> HIDE DEF e
    <3> QED
      BY <2>2, <3>3, OrderWrite
  <2> QED
    BY <2>1, <2>2
<1>4. UnderWay' \subseteq UnderWay
  BY <1>2 DEF UnderWay, Elems
<1>5. Increasing(queue') /\ \A w \in Writer : pc'[w] = "send" => req'[w].seq = nextSeq'
  BY DEF OrderInv
<1>6. \A q \in UnderWay' : q.seq <= LastSent'
  BY <1>2, <1>4 DEF OrderInv
<1> QED
  BY <1>2, <1>3, <1>5, <1>6 DEF OrderInv, Increasing, Elems

LEMMA OrderCommit ==
    ASSUME TypeInv, PlaceInv, OrderInv, BatchInv, Commit
    PROVE  OrderInv'
<1>1. CASE StopCollecting \/ CollectZero \/ Count \/ Exit
  <2>1. UNCHANGED <<queue, batch, written, file, epoch, mu, nextSeq, pc, req>>
    BY <1>1
    DEF StopCollecting, CollectZero, Count, Exit, BatchInv, writerVars, queueVars,
        fileVars, crashVars
  <2> QED
    BY <2>1, OrderKept DEF LastSent, OrderInv
<1>2. CASE WriteRecord
  <2>1. /\ written < Len(batch) /\ written' = written + 1
        /\ UNCHANGED <<queue, batch, epoch, mu, nextSeq, pc, req>>
        /\ file' = Append(file, EntryOf(batch[written + 1], "whole"))
    BY <1>2 DEF WriteRecord, writerVars, queueVars, crashVars
  <2> DEFINE e == EntryOf(batch[written + 1], "whole")
  <2>2. Id(e) = Id(batch[written + 1]) /\ file' = Append(file, e)
    BY <2>1 DEF Id, EntryOf
  <2> HIDE DEF e
  <2>3. written' + 1 = written + 2 /\ LastSent' = LastSent
    BY <2>1 DEF LastSent, TypeInv, TypeOK
  <2>4. /\ FileInOrder'
        /\ \A f \in Elems(file') :
              /\ f.epoch <= epoch
              /\ f.epoch = epoch =>
                    /\ f.seq <= LastSent
                    /\ \A k \in written + 2 .. Len(batch) : f.seq < batch[k].seq
                    /\ \A q \in Elems(queue) : f.seq < q.seq
    BY <2>1, <2>2, OrderWrite
  <2>5. UnderWay' = UnderWay
    BY <2>1 DEF UnderWay, Elems
  <2> QED
    BY <2>1, <2>3, <2>4, <2>5 DEF OrderInv, Increasing, Elems
<1>3. CASE WriteFails \/ Sync \/ SyncFails
  <2>1. /\ NextBatch /\ UNCHANGED <<queue, pc, req, nextSeq, mu, epoch>>
        /\ \/ file' = file
           \/ /\ written < Len(batch)
              /\ \E t \in WriteTears : file' = Append(file, EntryOf(batch[written + 1], t))
    BY <1>3 DEF WriteFails, Sync, SyncFails, queueVars, fileVars, crashVars
  <2> QED
    BY <2>1, OrderNextBatch
<1> QED
  BY <1>1, <1>2, <1>3, OrderCollect DEF Commit

LEMMA OrderCrash == ASSUME TypeInv, OrderInv, Crash PROVE OrderInv'
<1>1. /\ queue' = <<>> /\ batch' = <<>> /\ epoch' = epoch + 1 /\ epoch \in Nat
      /\ \A w \in Writer : pc'[w] # "send"
  BY WALAssumption DEF Crash, TypeInv, TypeOK
<1>2. /\ file \in Seq(Entry) /\ file' \in Seq(Entry) /\ Len(file') <= Len(file)
      /\ \A k \in 1 .. Len(file') : Id(file'[k]) = Id(file[k])
  BY CrashType DEF TypeInv, TypeOK
<1>3. \A k \in 1 .. Len(file') :
        k \in DOMAIN file /\ file'[k].epoch = file[k].epoch /\ file'[k].seq = file[k].seq
  BY <1>2 DEF Id
<1>4. \A e \in Elems(file') : e.epoch < epoch' /\ e.epoch # epoch' /\ e.epoch <= epoch'
  <2> SUFFICES ASSUME NEW k \in 1 .. Len(file')
               PROVE  file'[k].epoch \in Nat /\ file'[k].epoch <= epoch
    BY <1>1, <1>2 DEF Elems
  <2>1. file[k] \in Elems(file) /\ file'[k].epoch = file[k].epoch
    BY <1>3 DEF Elems
  <2>2. file[k] \in Entry
    BY <1>2, <1>3
  <2> QED
    BY <2>1, <2>2 DEF OrderInv, Entry
<1>5. FileInOrder'
  BY <1>2, <1>3 DEF OrderInv, FileInOrder, Before
<1>6. /\ Elems(queue') = {} /\ Elems(batch') = {} /\ UnderWay' = {}
      /\ Increasing(queue') /\ Increasing(batch')
  BY <1>1, ElemsEmpty DEF Increasing, UnderWay, Elems
<1> QED
  BY <1>1, <1>4, <1>5, <1>6 DEF OrderInv, Increasing, Elems

LEMMA OrderStep == TypeInv /\ PlaceInv /\ OrderInv /\ BatchInv /\ [Next]_vars => OrderInv'
<1> SUFFICES ASSUME TypeInv, PlaceInv, OrderInv, BatchInv, [Next]_vars
             PROVE  OrderInv'
  OBVIOUS
<1>1. CASE Close \/ CloseReturn \/ Open \/ OpenFails \/ UNCHANGED vars
  <2>1. UNCHANGED <<queue, batch, written, file, epoch, mu, nextSeq, pc, req>>
    BY <1>1
    DEF Close, CloseReturn, Open, OpenFails, Unlock, vars, writerVars, queueVars,
        batchVars, fileVars, crashVars
  <2> QED
    BY <2>1, OrderKept DEF LastSent, OrderInv
<1> QED
  BY <1>1, OrderAppend, OrderCommit, OrderCrash DEF Next
-----------------------------------------------------------------------------
(* What the invariant is for.                                              *)

LEMMA LogInvariant == Spec => []LogInv
<1>1. Init => LogInv
  BY TypeInit, PlaceInit, OrderInit DEF LogInv
<1>2. LogInv /\ [Next]_vars => LogInv'
  BY TypeStep, PlaceStep, OrderStep, BatchStep DEF LogInv
<1> QED
  BY <1>1, <1>2, PTL DEF Spec

\* A request that is under way is in one place of a sequence whose numbers
\* increase.
LEMMA OnePosition ==
    ASSUME NEW s \in Seq(Request), Increasing(s), NEW w \in Writer,
           NEW q, \A p \in Elems(s) : p.writer = w => p = q
    PROVE  Cardinality({k \in DOMAIN s : s[k].writer = w})
             = IF \E p \in Elems(s) : p.writer = w THEN 1 ELSE 0
<1> DEFINE P == {k \in DOMAIN s : s[k].writer = w}
<1>1. DOMAIN s = 1 .. Len(s) /\ Len(s) \in Nat /\ \A k \in DOMAIN s : s[k].seq \in Nat
  <2>1. \A k \in DOMAIN s : s[k] \in Request
    OBVIOUS
  <2> QED
    BY <2>1 DEF Request
<1>2. CASE \E p \in Elems(s) : p.writer = w
  <2>1. PICK k \in DOMAIN s : s[k].writer = w
    BY <1>2 DEF Elems
  <2>2. ASSUME NEW j \in DOMAIN s, s[j].writer = w
        PROVE  j = k
    <3>1. s[j] = q /\ s[k] = q
      BY <2>1, <2>2 DEF Elems
    <3>2. ~(j < k) /\ ~(k < j)
      BY <1>1, <2>1, <2>2, <3>1 DEF Increasing
    <3> QED
      BY <1>1, <2>1, <2>2, <3>2
  <2>3. P = {k}
    BY <2>1, <2>2
  <2> QED
    BY <1>2, <2>3, FS_Singleton
<1>3. CASE ~(\E p \in Elems(s) : p.writer = w)
  <2>1. P = {}
    BY <1>3 DEF Elems
  <2> QED
    BY <1>3, <2>1, FS_EmptySet
<1> QED
  BY <1>2, <1>3

LEMMA OneAnswerHolds == LogInv => OneAnswer
<1> SUFFICES ASSUME LogInv, NEW w \in Writer
             PROVE  Places(w) = IF pc[w] = "wait" THEN 1 ELSE 0
  BY DEF OneAnswer
<1>1. /\ queue \in Seq(Request) /\ batch \in Seq(Request)
      /\ Increasing(queue) /\ Increasing(batch)
      /\ done[w] # None => pc[w] = "wait"
  BY DEF LogInv, TypeInv, TypeOK, OrderInv
<1>2. /\ \A q \in UnderWay : q.writer = w =>
            q = req[w] /\ pc[w] = "wait" /\ done[w] = None /\ q.seq \in Nat
      /\ pc[w] = "wait" => (req[w] \in UnderWay /\ req[w].writer = w) \/ done[w] # None
  BY UnderWayType DEF LogInv, PlaceInv
<1> DEFINE inQueue == \E p \in Elems(queue) : p.writer = w
           inBatch == \E p \in Elems(batch) : p.writer = w
<1>3. /\ Cardinality({k \in DOMAIN queue : queue[k].writer = w}) = IF inQueue THEN 1 ELSE 0
      /\ Cardinality({k \in DOMAIN batch : batch[k].writer = w}) = IF inBatch THEN 1 ELSE 0
  <2>1. /\ \A p \in Elems(queue) : p.writer = w => p = req[w]
        /\ \A p \in Elems(batch) : p.writer = w => p = req[w]
    BY <1>2 DEF UnderWay
  <2> QED
    BY <1>1, <2>1, OnePosition
<1>4. ~(inQueue /\ inBatch)
  <2> SUFFICES ASSUME NEW q \in Elems(queue), NEW p \in Elems(batch),
                      q.writer = w, p.writer = w
               PROVE  FALSE
    OBVIOUS
  <2>1. q = req[w] /\ p = req[w] /\ q.seq \in Nat
    BY <1>2 DEF UnderWay
  <2>2. p.seq < q.seq
    BY DEF LogInv, OrderInv
  <2> QED
    BY <2>1, <2>2
<1>5. inQueue \/ inBatch => pc[w] = "wait" /\ done[w] = None
  BY <1>2 DEF UnderWay
<1>6. pc[w] = "wait" /\ done[w] = None => inQueue \/ inBatch
  BY <1>2 DEF UnderWay
<1> HIDE DEF inQueue, inBatch
<1> QED
  BY <1>1, <1>3, <1>4, <1>5, <1>6 DEF Places

\* Every field keeps its type; w.mu is held exactly by the writer that is
\* about to send, and answers wait only where a writer does.
THEOREM TypeCorrect == Spec => []TypeOK
BY LogInvariant, PTL DEF LogInv, TypeInv

\* No request is lost, queued twice or answered twice, through failing writes
\* and syncs, Close and any number of crashes.
THEOREM OneAnswerCorrect == Spec => []OneAnswer
BY LogInvariant, OneAnswerHolds, PTL

\* The file keeps the order of the numbers, with any number of writers and
\* records left out by failures and crashes.
THEOREM FileInOrderCorrect == Spec => []FileInOrder
BY LogInvariant, PTL DEF LogInv, OrderInv

\* No writer sends on the queue once Close has closed it.
THEOREM NoSendOnClosedCorrect == Spec => []NoSendOnClosed
<1>1. Init => NoSendOnClosed
  BY DEF Init, NoSendOnClosed
<1>2. TypeOK /\ NoSendOnClosed /\ [Next]_vars => NoSendOnClosed'
  <2> SUFFICES ASSUME TypeOK, NoSendOnClosed, [Next]_vars
               PROVE  NoSendOnClosed'
    OBVIOUS
  <2>1. CASE Close
    <3>1. \A w \in Writer : pc[w] # "send"
      BY <2>1, WALAssumption DEF TypeOK, Close
    <3> QED
      BY <2>1, <3>1 DEF Close, NoSendOnClosed, writerVars
  <2>2. ASSUME NEW w \in Writer, TakeNumber(w)
        PROVE  NoSendOnClosed'
    BY <2>2 DEF TakeNumber, IsOpen, NoSendOnClosed
  <2>3. ASSUME NEW w \in Writer, \/ \E r \in Record : CallAppend(w, r)
                                 \/ Refuse(w) \/ Send(w) \/ Return(w)
        PROVE  NoSendOnClosed'
    <3>1. closed' = closed /\ pc \in [Writer -> {"idle", "lock", "send", "wait"}]
      BY <2>3 DEF TypeOK, CallAppend, Refuse, Send, Return, queueVars
    <3>2. \A v \in Writer : pc'[v] = "send" => pc[v] = "send"
      BY <2>3, <3>1 DEF CallAppend, Refuse, Send, Return
    <3> QED
      BY <3>1, <3>2 DEF NoSendOnClosed
  <2>4. CASE Commit \/ CloseReturn \/ Open \/ OpenFails \/ UNCHANGED vars
    <3>1. UNCHANGED <<closed, pc>>
      BY <2>4
      DEF Commit, TakeFirst, Collect, StopCollecting, CollectZero, Count, WriteRecord,
          WriteFails, Sync, SyncFails, Exit, CloseReturn, Open, OpenFails, vars,
          writerVars, queueVars
    <3> QED
      BY <3>1 DEF NoSendOnClosed
  <2>5. CASE Crash
    BY <2>5 DEF Crash, NoSendOnClosed
  <2> QED
    BY <2>1, <2>2, <2>3, <2>4, <2>5 DEF Next
<1> QED
  BY <1>1, <1>2, TypeCorrect, PTL DEF Spec
-----------------------------------------------------------------------------
(* Durability.  What is acknowledged behind a cut record that Replay has   *)
(* tolerated is lost at the next start, so no record may be cut before the *)
(* last crash.                                                             *)

\* Writes that fail leave no part of a record, and crashes do only if there
\* is no second one.
CutOnce == WriteTears = {} /\ (CrashTears = {} \/ MaxEpoch <= 1)

\* The first place where a record of the file may be cut.
CutAt == IF server = "running" THEN Len(replayed) + 1 ELSE Len(file)

CutInv ==
    /\ CrashTears = {} \/ epoch < MaxEpoch =>
          \A k \in 1 .. Len(file) : file[k].cut = "whole"
    /\ \A k \in 1 .. Len(file) : file[k].cut # "whole" => k = CutAt

\* The records that stand whole among the first n entries of the file.
WholeIds(n) == {Id(file[k]) : k \in {j \in 1 .. n : file[j].cut = "whole"}}

\* What is acknowledged is stable, and so is what a batch has written once it
\* is synced.
DurableInv ==
    /\ CutInv
    /\ \A k \in 1 .. written : Id(batch[k]) \in WholeIds(Len(file))
    /\ acked \subseteq WholeIds(synced)
    /\ AckedIsReplayed

LEMMA DurableInit == Init => DurableInv
<1> SUFFICES ASSUME Init PROVE DurableInv
  OBVIOUS
<1>1. /\ file = <<>> /\ Len(<<>>) = 0 /\ written = 0 /\ acked = {} /\ server = "running"
  BY DEF Init
<1> QED
  BY <1>1 DEF DurableInv, CutInv, WholeIds, AckedIsReplayed

LEMMA DurableKept ==
    ASSUME DurableInv,
           UNCHANGED <<file, synced, acked, server, epoch, replayed>>,
           \A k \in 1 .. written' : k \in 1 .. written /\ batch'[k] = batch[k]
    PROVE  DurableInv'
<1>1. WholeIds(Len(file))' = WholeIds(Len(file)) /\ WholeIds(synced)' = WholeIds(synced)
  BY DEF WholeIds
<1>2. CutInv'
  BY DEF DurableInv, CutInv, CutAt
<1> QED
  BY <1>1, <1>2 DEF DurableInv, AckedIsReplayed, Ids, Elems, Id

LEMMA DurableWrite ==
    ASSUME LogInv, DurableInv, WriteRecord
    PROVE  DurableInv'
<1>1. /\ file \in Seq(Entry) /\ synced \in 0 .. Len(file) /\ Len(file) \in Nat
      /\ written \in Nat
  BY DEF LogInv, TypeInv, TypeOK
<1> DEFINE e == EntryOf(batch[written + 1], "whole")
<1>2. e \in Entry /\ e.cut = "whole" /\ Id(e) = Id(batch[written + 1])
  <2>1. batch[written + 1] \in Request
    BY DEF LogInv, TypeInv, TypeOK, WriteRecord
  <2> QED
    BY <2>1, EntryType DEF EntryOf, Id
<1>3. /\ file' = Append(file, e) /\ written' = written + 1 /\ server = "running"
      /\ UNCHANGED <<synced, acked, server, epoch, replayed, batch>>
  BY DEF WriteRecord, crashVars, Running
<1> HIDE DEF e
<1>4. /\ Len(file') = Len(file) + 1 /\ file'[Len(file) + 1] = e
      /\ \A k \in 1 .. Len(file) : file'[k] = file[k]
      /\ \A k \in 1 .. Len(file') : k \in 1 .. Len(file) \/ k = Len(file) + 1
  BY <1>1, <1>2, <1>3
<1>5. WholeIds(Len(file))' = WholeIds(Len(file)) \cup {Id(e)}
  <2>1. \A k \in 1 .. Len(file) : k \in 1 .. Len(file')
    BY <1>1, <1>4
  <2>2. Len(file) + 1 \in 1 .. Len(file')
    BY <1>1, <1>4
  <2> QED
    BY <1>2, <1>4, <2>1, <2>2 DEF WholeIds, Id
<1>6. ASSUME NEW k \in 1 .. written + 1
      PROVE  Id(batch[k]) \in WholeIds(Len(file))'
  <2>1. k \in 1 .. written \/ k = written + 1
    BY <1>1
  <2> QED
    BY <1>2, <1>5, <2>1 DEF DurableInv
<1>7. CutInv'
  <2>1. CutAt' = CutAt
    BY <1>3 DEF CutAt
  <2> QED
    BY <1>2, <1>3, <1>4, <2>1 DEF DurableInv, CutInv
<1>8. WholeIds(synced)' = WholeIds(synced)
  <2>1. \A k \in 1 .. synced : file'[k] = file[k]
    BY <1>1, <1>4
  <2> QED
    BY <1>3, <2>1 DEF WholeIds, Id
<1>9. AckedIsReplayed'
  BY <1>3 DEF DurableInv, AckedIsReplayed, Ids, Elems, Id
<1>10. \A k \in 1 .. written' : Id(batch'[k]) \in WholeIds(Len(file))'
  BY <1>3, <1>6
<1> QED
  BY <1>3, <1>7, <1>8, <1>9, <1>10 DEF DurableInv, Id

LEMMA DurableSync ==
    ASSUME LogInv, DurableInv, Sync
    PROVE  DurableInv'
<1>1. /\ file \in Seq(Entry) /\ synced \in 0 .. Len(file) /\ Len(file) \in Nat
      /\ batch \in Seq(Request) /\ epoch \in Nat
  BY WALAssumption DEF LogInv, TypeInv, TypeOK
<1>2. /\ written = Len(batch) /\ synced' = Len(file) /\ written' = 0
      /\ acked' = acked \cup Ids(Elems(batch))
      /\ UNCHANGED <<file, server, epoch, replayed>>
  BY DEF Sync, NextBatch, MakeDurable, crashVars
<1>3. WholeIds(synced)' = WholeIds(Len(file))
  BY <1>2 DEF WholeIds, Id
<1>4. WholeIds(synced) \subseteq WholeIds(Len(file))
  <2>1. \A k \in 1 .. synced : k \in 1 .. Len(file)
    BY <1>1
  <2> QED
    BY <2>1 DEF WholeIds
<1>5. Ids(Elems(batch)) \subseteq WholeIds(Len(file))
  <2>1. \A k \in 1 .. Len(batch) : Id(batch[k]) \in WholeIds(Len(file))
    BY <1>2 DEF DurableInv
  <2>2. Ids(Elems(batch)) = {Id(batch[k]) : k \in 1 .. Len(batch)}
    BY <1>1 DEF Ids, Elems
  <2> QED
    BY <2>1, <2>2
<1>6. ASSUME NEW a \in Ids(Elems(batch))
      PROVE  a[1] = epoch
  <2>1. PICK q \in Elems(batch) : a = Id(q)
    BY DEF Ids
  <2>2. q \in UnderWay /\ q.writer \in Writer
    BY UnderWayType DEF UnderWay, LogInv
  <2>3. pc[q.writer] = "wait" /\ req[q.writer] = q
    BY <2>2 DEF LogInv, PlaceInv
  <2>4. req[q.writer].epoch = epoch
    BY <2>2, <2>3 DEF LogInv, PlaceInv
  <2> QED
    BY <2>1, <2>3, <2>4 DEF Id
<1>7. AckedIsReplayed'
  <2> SUFFICES ASSUME server = "running", NEW a \in acked', a[1] < epoch
               PROVE  a \in Ids(Elems(replayed))
    BY <1>2 DEF AckedIsReplayed, Ids, Elems, Id
  <2>1. a \notin Ids(Elems(batch))
    BY <1>1, <1>6
  <2> QED
    BY <1>2, <2>1 DEF DurableInv, AckedIsReplayed
<1>8. acked' \subseteq WholeIds(synced)'
  BY <1>2, <1>3, <1>4, <1>5 DEF DurableInv
<1>9. CutInv' /\ 1 .. written' = {}
  BY <1>2 DEF DurableInv, CutInv, CutAt
<1> QED
  BY <1>7, <1>8, <1>9 DEF DurableInv

\* The synced records are still there; only the last one may be cut, if this
\* was the last crash.
LEMMA DurableCrash ==
    ASSUME CutOnce, LogInv, DurableInv, Crash
    PROVE  DurableInv'
<1>1. /\ file' \in Seq(Entry) /\ file \in Seq(Entry) /\ Len(file') <= Len(file)
      /\ synced' = Len(file') /\ synced \in 0 .. Len(file) /\ synced' \in 0 .. Len(file')
      /\ \A k \in 1 .. Len(file') - 1 : file'[k] = file[k]
      /\ \A k \in 1 .. synced : k <= Len(file') /\ file'[k] = file[k]
      /\ CrashTears = {} => \A k \in 1 .. Len(file') : file'[k] = file[k]
      /\ Len(file') \in Nat /\ Len(file) \in Nat /\ epoch \in Nat /\ MaxEpoch \in Nat
  <2>1. /\ file \in Seq(Entry) /\ synced \in 0 .. Len(file) /\ Len(file) \in Nat
        /\ epoch \in 0 .. MaxEpoch /\ MaxEpoch \in Nat
    BY WALAssumption DEF LogInv, TypeInv, TypeOK
  <2>2. TypeInv /\ synced' = Len(file')
    BY DEF LogInv, Crash
  <2>3. file' \in Seq(Entry) /\ Len(file') \in Nat
    BY <2>2, CrashType
  <2> QED
    BY <2>1, <2>2, <2>3, CrashType
<1>2. /\ written' = 0 /\ acked' = acked /\ server' = "down" /\ epoch' = epoch + 1
      /\ epoch < MaxEpoch
  BY DEF Crash
<1>3. \A k \in 1 .. Len(file) : file[k].cut = "whole"
  BY <1>2 DEF DurableInv, CutInv
<1>4. WholeIds(synced) \subseteq WholeIds(synced)'
  <2>1. \A k \in 1 .. synced : k \in 1 .. synced' /\ file'[k] = file[k]
    BY <1>1
  <2> QED
    BY <2>1 DEF WholeIds, Id
<1>5. CutInv'
  <2>1. CutAt' = Len(file')
    BY <1>2 DEF CutAt
  <2>2. ASSUME NEW k \in 1 .. Len(file'), k # Len(file')
        PROVE  file'[k].cut = "whole"
    <3>1. k \in 1 .. Len(file') - 1 /\ k \in 1 .. Len(file)
      BY <1>1, <2>2
    <3> QED
      BY <1>1, <1>3, <3>1
  <2>3. ASSUME CrashTears = {} \/ epoch' < MaxEpoch, NEW k \in 1 .. Len(file')
        PROVE  file'[k].cut = "whole"
    <3>1. CrashTears = {}
      BY <1>1, <1>2, <2>3 DEF CutOnce
    <3>2. k \in 1 .. Len(file)
      BY <1>1
    <3> QED
      BY <1>1, <1>3, <3>1, <3>2
  <2> QED
    BY <2>1, <2>2, <2>3 DEF CutInv
<1>6. 1 .. written' = {} /\ AckedIsReplayed' /\ acked' \subseteq WholeIds(synced)'
  BY <1>2, <1>4 DEF DurableInv, AckedIsReplayed
<1> QED
  BY <1>5, <1>6 DEF DurableInv

\* Replay reads the file up to its end, or to a cut record there.
LEMMA DurableOpen ==
    ASSUME LogInv, DurableInv, server = "down", Open \/ OpenFails
    PROVE  DurableInv'
<1> DEFINE n == Readable(file)
<1>1. /\ file \in Seq(Entry) /\ synced \in 0 .. Len(file) /\ Len(file) \in Nat
      /\ n \in 0 .. Len(file)
      /\ \A k \in 1 .. n : file[k].cut = "whole"
      /\ n < Len(file) => file[n + 1].cut # "whole"
  BY ReadableType DEF LogInv, TypeInv, TypeOK
<1> HIDE DEF n
<1>2. n < Len(file) => n + 1 = Len(file)
  <2>1. n < Len(file) => n + 1 \in 1 .. Len(file)
    BY <1>1
  <2>2. CutAt = Len(file)
    BY DEF CutAt
  <2> QED
    BY <1>1, <2>1, <2>2 DEF DurableInv, CutInv
<1>3. UNCHANGED <<file, synced, batch, written, acked, epoch>>
  BY DEF Open, OpenFails, batchVars, fileVars
<1>4. WholeIds(synced)' = WholeIds(synced) /\ WholeIds(Len(file))' = WholeIds(Len(file))
  BY <1>3 DEF WholeIds
<1>5. CASE Open
  <2>1. server' = "running" /\ replayed' = SubSeq(file, 1, n)
    BY <1>5 DEF Open, n
  <2>2. /\ Len(replayed') = n /\ DOMAIN replayed' = 1 .. n
        /\ \A k \in 1 .. n : replayed'[k] = file[k]
    BY <1>1, <2>1
  <2>3. \A k \in 1 .. Len(file) : file[k].cut = "whole" => k \in 1 .. n
    BY <1>1, <1>2
  <2>4. WholeIds(synced) \subseteq Ids(Elems(replayed'))
    <3>1. \A k \in 1 .. synced : k \in 1 .. Len(file)
      BY <1>1
    <3> QED
      BY <2>2, <2>3, <3>1 DEF WholeIds, Ids, Elems
  <2>5. AckedIsReplayed'
    BY <1>3, <2>1, <2>4 DEF DurableInv, AckedIsReplayed, Ids, Elems, Id
  <2>6. CutAt' = n + 1
    BY <2>1, <2>2 DEF CutAt
  <2>7. \A k \in 1 .. Len(file) : file[k].cut # "whole" => k = n + 1
    BY <1>1, <1>2
  <2> QED
    BY <1>3, <1>4, <2>5, <2>6, <2>7 DEF DurableInv, CutInv, Id
<1>6. CASE OpenFails
  <2>1. server' = "refused" /\ n < Len(file) /\ (file[n + 1].cut = "header" \/ n + 1 < Len(file))
    BY <1>6 DEF OpenFails, MayReject, n
  <2>2. AckedIsReplayed'
    BY <1>1, <1>2, <1>3, <2>1 DEF AckedIsReplayed
  <2>3. CutInv'
    BY <1>3, <2>1 DEF DurableInv, CutInv, CutAt
  <2> QED
    BY <1>3, <1>4, <2>2, <2>3 DEF DurableInv, Id
<1> QED
  BY <1>5, <1>6

LEMMA DurableStep ==
    ASSUME CutOnce, LogInv, DurableInv, [Next]_vars
    PROVE  DurableInv'
<1>1. CASE \E w \in Writer : \/ \E r \in Record : CallAppend(w, r)
                             \/ TakeNumber(w) \/ Refuse(w) \/ Send(w) \/ Return(w)
  <2>1. UNCHANGED <<file, synced, acked, server, epoch, replayed, batch, written>>
    BY <1>1
    DEF CallAppend, TakeNumber, Refuse, Send, Return, batchVars, fileVars, crashVars
  <2> QED
    BY <2>1, DurableKept
<1>2. CASE Close \/ CloseReturn \/ UNCHANGED vars
  <2>1. UNCHANGED <<file, synced, acked, server, epoch, replayed, batch, written>>
    BY <1>2 DEF Close, CloseReturn, vars, batchVars, fileVars, crashVars
  <2> QED
    BY <2>1, DurableKept
<1>3. CASE TakeFirst \/ Collect \/ StopCollecting \/ CollectZero \/ Count \/ Exit
  <2>1. /\ UNCHANGED <<file, synced, acked, server, epoch, replayed>>
        /\ written' = 0
    BY <1>3
    DEF TakeFirst, Collect, StopCollecting, CollectZero, Count, Exit, LogInv, BatchInv,
        fileVars, crashVars
  <2> QED
    BY <2>1, DurableKept
<1>4. CASE WriteFails \/ SyncFails
  <2>1. /\ UNCHANGED <<file, synced, acked, server, epoch, replayed>>
        /\ written' = 0
    BY <1>4 DEF WriteFails, SyncFails, NextBatch, CutOnce, fileVars, crashVars
  <2> QED
    BY <2>1, DurableKept
<1>5. CASE Open \/ OpenFails
  <2>1. server = "down"
    BY <1>5 DEF Open, OpenFails
  <2> QED
    BY <1>5, <2>1, DurableOpen
<1> QED
  BY <1>1, <1>2, <1>3, <1>4, <1>5, DurableWrite, DurableSync, DurableCrash
  DEF Next, Commit

LEMMA DurableInvariant == ASSUME CutOnce PROVE Spec => []DurableInv
<1>1. LogInv /\ DurableInv /\ [Next]_vars => DurableInv'
  BY DurableStep
<1> QED
  BY <1>1, DurableInit, LogInvariant, PTL DEF Spec

\* A record whose Append returned nil before a crash is among those Replay
\* returns after it: after any number of crashes as long as none cuts a
\* record, and after one that does.
THEOREM AckedIsReplayedCorrect == ASSUME CutOnce PROVE Spec => []AckedIsReplayed
BY DurableInvariant, PTL DEF DurableInv
=============================================================================
