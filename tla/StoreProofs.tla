------------------------------ MODULE StoreProofs ------------------------------
(***************************************************************************)
(* Theorems about Store: its types, that applyOrdered leaves nothing       *)
(* behind, that what was answered as durable is read again after a crash,  *)
(* and that the store on its log implements DurableMap.                    *)
(*                                                                         *)
(* Every step of the store is a step of its log or leaves the log alone,   *)
(* so that the theorems of WALProofs hold here (LogP).  The store's own    *)
(* invariant follows each number from the call of Append that takes it to  *)
(* the step that applies it (StoreInv), and each record that is still to   *)
(* be applied to its place in the synced part of the file (DiskInv).       *)
(* What the file holds after a crash is proved where no record is cut, or  *)
(* only at the last crash (CutOnce).                                       *)
(***************************************************************************)
EXTENDS Store, PositionsProofs

\* The theorems about the log, for the log of the store.
LogP == INSTANCE WALProofs

-----------------------------------------------------------------------------
(* The steps of the log.                                                   *)

LEMMA LogAssumed == LogP!WALAssumption
BY StoreAssumption
DEF Log!WALAssumption, LogP!WALAssumption, Log!IsFiniteSet, LogP!IsFiniteSet

LEMMA LogCalls ==
    ASSUME NEW w \in Writer
    PROVE  /\ \A r \in Record : Log!CallAppend(w, r) => LogP!CallAppend(w, r)
           /\ Log!TakeNumber(w) => LogP!TakeNumber(w)
           /\ Log!Refuse(w) => LogP!Refuse(w)
           /\ Log!Send(w) => LogP!Send(w)
           /\ Log!Return(w) => LogP!Return(w)
<1> USE DEF Log!Running, LogP!Running, Log!queueVars, LogP!queueVars,
        Log!batchVars, LogP!batchVars, Log!fileVars, LogP!fileVars,
        Log!crashVars, LogP!crashVars, Log!HoldLock, LogP!HoldLock,
        Log!IsOpen, LogP!IsOpen
<1>1. \A r \in Record : Log!CallAppend(w, r) => LogP!CallAppend(w, r)
  BY DEF Log!CallAppend, LogP!CallAppend, Log!Cardinality, LogP!Cardinality,
         Log!IsFiniteSet, LogP!IsFiniteSet
<1>2. Log!TakeNumber(w) => LogP!TakeNumber(w)
  BY DEF Log!TakeNumber, LogP!TakeNumber
<1>3. Log!Refuse(w) => LogP!Refuse(w)
  BY DEF Log!Refuse, LogP!Refuse
<1>4. Log!Send(w) => LogP!Send(w)
  BY DEF Log!Send, LogP!Send
<1>5. Log!Return(w) => LogP!Return(w)
  BY DEF Log!Return, LogP!Return
<1> QED
  BY <1>1, <1>2, <1>3, <1>4, <1>5

LEMMA LogCommits ==
    /\ Log!TakeFirst => LogP!TakeFirst
    /\ Log!Collect => LogP!Collect
    /\ Log!StopCollecting => LogP!StopCollecting
    /\ Log!CollectZero => LogP!CollectZero
    /\ Log!Count => LogP!Count
    /\ Log!WriteRecord => LogP!WriteRecord
    /\ Log!WriteFails => LogP!WriteFails
    /\ Log!Sync => LogP!Sync
    /\ Log!SyncFails => LogP!SyncFails
    /\ Log!Exit => LogP!Exit
<1> USE DEF Log!Running, LogP!Running, Log!queueVars, LogP!queueVars,
        Log!fileVars, LogP!fileVars, Log!writerVars, LogP!writerVars,
        Log!crashVars, LogP!crashVars, Log!NextBatch, LogP!NextBatch,
        Log!Answer, LogP!Answer, Log!Elems, LogP!Elems, Log!EntryOf, LogP!EntryOf,
        Log!MakeDurable, LogP!MakeDurable, Log!Ids, LogP!Ids, Log!Id, LogP!Id
<1>1. Log!TakeFirst => LogP!TakeFirst
  BY DEF Log!TakeFirst, LogP!TakeFirst
<1>2. Log!Collect => LogP!Collect
  BY DEF Log!Collect, LogP!Collect
<1>3. Log!StopCollecting => LogP!StopCollecting
  BY DEF Log!StopCollecting, LogP!StopCollecting
<1>4. Log!CollectZero => LogP!CollectZero
  BY DEF Log!CollectZero, LogP!CollectZero
<1>5. Log!Count => LogP!Count
  BY DEF Log!Count, LogP!Count
<1>6. Log!WriteRecord => LogP!WriteRecord
  BY DEF Log!WriteRecord, LogP!WriteRecord
<1>7. Log!WriteFails => LogP!WriteFails
  BY DEF Log!WriteFails, LogP!WriteFails
<1>8. Log!Sync => LogP!Sync
  BY DEF Log!Sync, LogP!Sync
<1>9. Log!SyncFails => LogP!SyncFails
  BY DEF Log!SyncFails, LogP!SyncFails
<1>10. Log!Exit => LogP!Exit
  BY DEF Log!Exit, LogP!Exit
<1> QED
  BY <1>1, <1>2, <1>3, <1>4, <1>5, <1>6, <1>7, <1>8, <1>9, <1>10

LEMMA LogOthers ==
    /\ Log!Init => LogP!Init
    /\ Log!Close => LogP!Close
    /\ Log!CloseReturn => LogP!CloseReturn
    /\ Log!Crash => LogP!Crash
    /\ Log!Open => LogP!Open
    /\ Log!OpenFails => LogP!OpenFails
<1> USE DEF Log!Running, LogP!Running, Log!queueVars, LogP!queueVars,
        Log!fileVars, LogP!fileVars, Log!writerVars, LogP!writerVars,
        Log!crashVars, LogP!crashVars, Log!batchVars, LogP!batchVars,
        Log!Unlock, LogP!Unlock
<1>1. Log!Init => LogP!Init
  BY DEF Log!Init, LogP!Init
<1>2. Log!Close => LogP!Close
  BY DEF Log!Close, LogP!Close
<1>3. Log!CloseReturn => LogP!CloseReturn
  BY DEF Log!CloseReturn, LogP!CloseReturn
<1>4. Log!Crash => LogP!Crash
  BY DEF Log!Crash, LogP!Crash
<1>5. Log!Open => LogP!Open
  BY DEF Log!Open, LogP!Open, Log!MayAccept, LogP!MayAccept, Log!Readable, LogP!Readable
<1>6. Log!OpenFails => LogP!OpenFails
  BY DEF Log!OpenFails, LogP!OpenFails, Log!MayReject, LogP!MayReject,
         Log!Readable, LogP!Readable
<1> QED
  BY <1>1, <1>2, <1>3, <1>4, <1>5, <1>6

\* A step of the store is a step of its log, or one the log has no part in.
LEMMA LogSteps == [Next]_vars => [LogP!Next]_(LogP!vars)
<1> SUFFICES ASSUME [Next]_vars PROVE [LogP!Next]_(LogP!vars)
  OBVIOUS
<1>1. ASSUME NEW w \in Writer, NEW r \in Record, Write(w, r)
      PROVE  LogP!Next
  BY <1>1, LogCalls DEF Write, LogP!Next
<1>2. ASSUME NEW w \in Writer,
             (\E k \in Key : Delete(w, k) \/ \E v \in Value : Set(w, k, v))
      PROVE  LogP!Next
  <2>1. PICK r \in Record : Write(w, r)
    BY <1>2 DEF Delete, Set, Record
  <2> QED
    BY <1>1, <2>1
<1>3. ASSUME NEW w \in Writer, Appended(w) \/ Refused(w)
      PROVE  LogP!Next
  BY <1>3, LogCalls DEF Appended, Refused, LogP!Next
<1>4. ASSUME NEW w \in Writer, ApplyLock(w) \/ ApplyNext(w) \/ ApplyUnlock(w)
      PROVE  UNCHANGED LogP!vars
  BY <1>4 DEF ApplyLock, ApplyNext, ApplyUnlock, logVars, LogP!vars, LogP!writerVars,
     LogP!queueVars, LogP!batchVars, LogP!fileVars, LogP!crashVars
<1>5. CASE LogStep
  <2>1. Log!Commit => LogP!Commit
    BY LogCommits DEF Log!Commit, LogP!Commit
  <2> QED
    BY <1>5, <2>1, LogCalls, LogOthers DEF LogStep, LogP!Next
<1>6. CASE Crash \/ New
  BY <1>6, LogOthers DEF Crash, New, LogP!Next
<1>7. CASE UNCHANGED vars
  BY <1>7 DEF vars, logVars, LogP!vars, LogP!writerVars,
     LogP!queueVars, LogP!batchVars, LogP!fileVars, LogP!crashVars
<1> QED
  BY <1>2, <1>3, <1>4, <1>5, <1>6, <1>7 DEF Next

\* The invariants of the log hold on.
LEMMA LogKept == LogP!LogInv /\ [Next]_vars => LogP!LogInv'
BY LogAssumed, LogSteps, LogP!TypeStep, LogP!PlaceStep, LogP!OrderStep, LogP!BatchStep
DEF LogP!LogInv, LogP!WALAssumption

LEMMA LogDurable ==
    LogP!CutOnce /\ LogP!LogInv /\ LogP!DurableInv /\ [Next]_vars => LogP!DurableInv'
BY LogAssumed, LogSteps, LogP!DurableStep DEF LogP!WALAssumption

LEMMA LogInit == Init => LogP!LogInv /\ LogP!DurableInv
BY LogAssumed, LogOthers, LogP!TypeInit, LogP!PlaceInit, LogP!OrderInit, LogP!DurableInit
DEF Init, LogP!LogInv, LogP!WALAssumption

-----------------------------------------------------------------------------
(* The inductive invariant.                                                *)

Request == [writer : Writer, epoch : Nat, seq : Nat, record : Record]

FileEntry == [epoch : Nat, seq : Nat, record : Record,
              cut : {"whole", "header", "body"}]

\* What the proofs below use of the log's own invariant.
LogFacts ==
    /\ None \notin Writer \cup {"ok", "failed"} /\ None \notin Value
    /\ nextSeq \in 0 .. MaxSeq /\ MaxSeq \in Nat /\ epoch \in Nat
    /\ pc \in [Writer -> {"idle", "lock", "send", "wait"}]
    /\ done \in [Writer -> {None, "ok", "failed"}]
    /\ req \in [Writer -> Request \cup {None}]
    /\ batch \in Seq(Request) /\ written \in 0 .. Len(batch)
    /\ file \in Seq(FileEntry) /\ synced \in 0 .. Len(file)
    /\ replayed \in Seq(FileEntry) /\ acked \subseteq Nat \X Nat
    /\ \A w \in Writer : done[w] # None => pc[w] = "wait"
    /\ \A w \in Writer : pc[w] # "idle" =>
          req[w] \in Request /\ req[w].writer = w /\ req[w].epoch = epoch
    /\ \A k \in 1 .. Len(batch) :
          /\ batch[k].writer \in Writer /\ pc[batch[k].writer] = "wait"
          /\ req[batch[k].writer] = batch[k] /\ done[batch[k].writer] = None
    /\ \A j, k \in 1 .. Len(file) : j < k =>
          \/ file[j].epoch < file[k].epoch
          \/ file[j].epoch = file[k].epoch /\ file[j].seq < file[k].seq

\* The types of the store's own fields.
StoreTypes ==
    /\ stage \in [Writer -> {"idle", "append", "apply", "applying"}]
    /\ applyMu \in Writer \cup {None}
    /\ \A w \in Writer : (applyMu = w) <=> (stage[w] = "applying")
    /\ pending \subseteq [seq : 1..MaxSeq, record : Record]
    /\ nextApplySeq \in 1..(MaxSeq + 1)
    /\ \A p \in pending : p.seq >= nextApplySeq
    /\ data \in [Key -> Value \cup {None}]

\* A writer is in Append or in the store, and nobody is in either of them
\* while the process is down.
StageInv ==
    /\ \A w \in Writer : pc[w] = "idle" <=> stage[w] # "append"
    /\ \A w \in Writer : stage[w] = "apply" =>
          req[w] \in Request /\ req[w].writer = w /\ req[w].epoch = epoch
    /\ server # "running" =>
          /\ pending = {} /\ nextSeq = 0
          /\ \A w \in Writer : stage[w] = "idle"

\* The writer has a number that applyOrdered has not seen.
Called(w) == pc[w] \in {"send", "wait"} \/ stage[w] = "apply"

\* A number is with one writer, or kept, or applied.
NumberInv ==
    /\ server = "running" => nextApplySeq <= nextSeq + 1
    /\ \A p \in pending : /\ p.seq <= nextSeq
                          /\ \A r \in pending : r.seq = p.seq => r = p
    /\ \A w \in Writer : Called(w) =>
          /\ req[w].seq \in 1 .. nextSeq /\ req[w].seq >= nextApplySeq
          /\ \A p \in pending : p.seq # req[w].seq
    /\ \A v, w \in Writer :
          Called(v) /\ Called(w) /\ req[v].seq = req[w].seq => v = w

\* A number that was answered as durable is with a writer that knows it, or
\* kept, or applied.
AnswerInv ==
    /\ \A a \in acked : a[1] <= epoch /\ (server # "running" => a[1] < epoch)
    /\ \A n \in Nat : server = "running" /\ <<epoch, n>> \in acked =>
          \/ n < nextApplySeq
          \/ \E p \in pending : p.seq = n
          \/ \E w \in Writer : req[w].seq = n /\ (stage[w] = "apply" \/ done[w] = "ok")
    /\ applyMu = None => InTurn = {}

-----------------------------------------------------------------------------
(* Facts and steps.                                                        *)

LEMMA LogIs == LogP!LogInv => LogFacts
<1> SUFFICES ASSUME LogP!LogInv PROVE LogFacts
  OBVIOUS
<1> USE DEF LogP!Request, LogP!Entry, Request, FileEntry
<1>1. /\ nextSeq \in 0 .. MaxSeq
      /\ pc \in [Writer -> {"idle", "lock", "send", "wait"}]
      /\ done \in [Writer -> {None, "ok", "failed"}]
      /\ req \in [Writer -> Request \cup {None}]
      /\ batch \in Seq(Request) /\ written \in 0 .. Len(batch)
      /\ file \in Seq(FileEntry) /\ synced \in 0 .. Len(file)
      /\ replayed \in Seq(FileEntry) /\ epoch \in 0 .. MaxEpoch
      /\ acked \subseteq Nat \X Nat
      /\ \A w \in Writer : done[w] # None => pc[w] = "wait"
  BY DEF LogP!LogInv, LogP!TypeInv, LogP!TypeOK
<1>2. None \notin Writer \cup {"ok", "failed"} /\ None \notin Value /\ MaxSeq \in Nat
  BY LogAssumed, StoreAssumption DEF LogP!WALAssumption
<1>3. \A w \in Writer : pc[w] # "idle" =>
          req[w] \in Request /\ req[w].writer = w /\ req[w].epoch = epoch
  BY DEF LogP!LogInv, LogP!PlaceInv
<1>4. ASSUME NEW k \in 1 .. Len(batch)
      PROVE  /\ batch[k].writer \in Writer /\ pc[batch[k].writer] = "wait"
             /\ req[batch[k].writer] = batch[k] /\ done[batch[k].writer] = None
  <2> HIDE DEF LogP!Request, LogP!Entry, Request, FileEntry
  <2>1. k \in DOMAIN batch /\ batch[k] \in Request
    BY <1>1
  <2>2. batch[k] \in LogP!UnderWay
    BY <2>1 DEF LogP!UnderWay, LogP!Elems
  <2> QED
    BY <2>1, <2>2 DEF LogP!LogInv, LogP!PlaceInv, Request
<1>5. \A j, k \in 1 .. Len(file) : j < k =>
          \/ file[j].epoch < file[k].epoch
          \/ file[j].epoch = file[k].epoch /\ file[j].seq < file[k].seq
  <2>1. DOMAIN file = 1 .. Len(file)
    BY <1>1
  <2> QED
    BY <2>1 DEF LogP!LogInv, LogP!OrderInv, LogP!FileInOrder, LogP!Before
<1>6. epoch \in Nat
  BY <1>1
<1> QED
  BY <1>1, <1>2, <1>3, <1>4, <1>5, <1>6 DEF LogFacts

LEMMA LogIsNext == LogP!LogInv' => LogFacts'
BY LogIs, PTL

\* What the commit goroutine does to the answers.
Answers(a) ==
    \A w \in Writer : done'[w] = IF \E k \in 1 .. Len(batch) : batch[k].writer = w
                                 THEN a ELSE done[w]

\* The steps of the log that leave its writers alone, and those that do not.
LEMMA LogStepIs ==
    ASSUME LogFacts, LogStep
    PROVE  /\ UNCHANGED <<stage, applyMu, pending, nextApplySeq, data, epoch, replayed>>
           /\ \/ UNCHANGED <<pc, done, req, nextSeq, acked, server>>
              \/ UNCHANGED <<pc, req, nextSeq, acked, server>> /\ Answers("failed")
              \/ /\ UNCHANGED <<pc, req, nextSeq, server>> /\ Answers("ok")
                 /\ acked' = acked \cup {<<batch[k].epoch, batch[k].seq>> : k \in 1 .. Len(batch)}
              \/ \E w \in Writer :
                    /\ pc[w] = "send" /\ pc' = [pc EXCEPT ![w] = "wait"]
                    /\ UNCHANGED <<done, req, nextSeq, acked, server>>
              \/ \E w \in Writer :
                    /\ pc[w] = "lock" /\ pc' = [pc EXCEPT ![w] = "send"]
                    /\ nextSeq' = nextSeq + 1
                    /\ req' = [req EXCEPT ![w].seq = nextSeq + 1]
                    /\ UNCHANGED <<done, acked, server>>
              \/ /\ server # "running" /\ server' # "running"
                 /\ UNCHANGED <<pc, done, req, nextSeq, acked>>
<1> USE DEF Log!queueVars, Log!fileVars, Log!writerVars, Log!crashVars, Log!batchVars
<1>0. UNCHANGED <<stage, applyMu, pending, nextApplySeq, data>>
  BY DEF LogStep, storeVars
<1>1. DOMAIN batch = 1 .. Len(batch)
  BY DEF LogFacts
<1>2. \A a : Log!Answer(a) => Answers(a)
  BY <1>1 DEF Log!Answer, Answers, Log!Elems
<1>3. ASSUME NEW w \in Writer, Log!TakeNumber(w)
      PROVE  /\ pc[w] = "lock" /\ pc' = [pc EXCEPT ![w] = "send"]
             /\ nextSeq' = nextSeq + 1
             /\ req' = [req EXCEPT ![w].seq = nextSeq + 1]
             /\ UNCHANGED <<done, acked, server, epoch, replayed>>
  BY <1>3 DEF Log!TakeNumber
<1>4. ASSUME NEW w \in Writer, Log!Send(w)
      PROVE  /\ pc[w] = "send" /\ pc' = [pc EXCEPT ![w] = "wait"]
             /\ UNCHANGED <<done, req, nextSeq, acked, server, epoch, replayed>>
  BY <1>4 DEF Log!Send
<1>5. CASE \/ Log!TakeFirst \/ Log!Collect \/ Log!StopCollecting \/ Log!CollectZero
           \/ Log!Count \/ Log!WriteRecord \/ Log!Exit \/ Log!Close \/ Log!CloseReturn
  <2>1. UNCHANGED <<pc, done, req, nextSeq, acked, server, epoch, replayed>>
    BY <1>5 DEF Log!TakeFirst, Log!Collect, Log!StopCollecting, Log!CollectZero,
       Log!Count, Log!WriteRecord, Log!Exit, Log!Close, Log!CloseReturn
  <2> QED
    BY <1>0, <2>1
<1>6. CASE Log!WriteFails \/ Log!SyncFails
  <2>1. /\ UNCHANGED <<pc, req, nextSeq, acked, server, epoch, replayed>>
        /\ Log!Answer("failed")
    BY <1>6 DEF Log!WriteFails, Log!SyncFails
  <2> QED
    BY <1>0, <1>2, <2>1
<1>7. CASE Log!Sync
  <2>1. /\ UNCHANGED <<pc, req, nextSeq, server, epoch, replayed>> /\ Log!Answer("ok")
        /\ acked' = acked \cup Log!Ids(Log!Elems(batch))
    BY <1>7 DEF Log!Sync
  <2>2. Log!Ids(Log!Elems(batch)) = {<<batch[k].epoch, batch[k].seq>> : k \in 1 .. Len(batch)}
    BY <1>1 DEF Log!Ids, Log!Elems, Log!Id
  <2> QED
    BY <1>0, <1>2, <2>1, <2>2
<1>8. CASE Log!OpenFails
  <2>1. /\ server # "running" /\ server' # "running"
        /\ UNCHANGED <<pc, done, req, nextSeq, acked, epoch, replayed>>
    BY <1>8 DEF Log!OpenFails
  <2> QED
    BY <1>0, <2>1
<1> QED
  BY <1>0, <1>3, <1>4, <1>5, <1>6, <1>7, <1>8 DEF LogStep, Log!Commit

-----------------------------------------------------------------------------
(* The steps of the store.                                                 *)

StoreInv == StoreTypes /\ StageInv /\ NumberInv /\ AnswerInv

LEMMA StoreInit == Init => StoreInv
<1> SUFFICES ASSUME Init PROVE StoreInv
  OBVIOUS
<1>1. MaxSeq \in Nat /\ None \notin Writer
  BY LogAssumed DEF LogP!WALAssumption
<1>2. /\ pc = [w \in Writer |-> "idle"] /\ nextSeq = 0 /\ acked = {}
      /\ stage = [w \in Writer |-> "idle"] /\ applyMu = None
      /\ pending = {} /\ nextApplySeq = 1 /\ data = [k \in Key |-> None]
      /\ epoch = 0
  BY DEF Init, Log!Init
<1>3. StoreTypes
  BY <1>1, <1>2 DEF StoreTypes
<1>4. StageInv /\ NumberInv /\ AnswerInv
  BY <1>2 DEF StageInv, NumberInv, AnswerInv, Called, InTurn
<1> QED
  BY <1>3, <1>4 DEF StoreInv

\* Steps that give no number out and apply none.
LEMMA NumberKept ==
    ASSUME NumberInv, server' = "running" => server = "running",
           UNCHANGED <<pending, nextApplySeq, nextSeq>>,
           \A w \in Writer : Called(w)' => Called(w) /\ req'[w] = req[w]
    PROVE  NumberInv'
<1> HIDE DEF Called
<1> QED
  BY DEF NumberInv

\* Steps after which whoever has to bring a number into the map still has to.
LEMMA AnswerKept ==
    ASSUME AnswerInv, UNCHANGED <<pending, nextApplySeq, epoch, acked>>,
           server' = server \/ (server # "running" /\ server' # "running"),
           applyMu' = None => applyMu = None \/ InTurn = {},
           \A w \in Writer : stage[w] = "apply" \/ done[w] = "ok" =>
              req'[w] = req[w] /\ (stage'[w] = "apply" \/ done'[w] = "ok")
    PROVE  AnswerInv'
<1>1. InTurn' = InTurn
  BY DEF InTurn
<1> QED
  BY <1>1 DEF AnswerInv

LEMMA StoreWrite ==
    ASSUME LogFacts, StoreInv, NEW w \in Writer, NEW r \in Record, Write(w, r)
    PROVE  StoreInv'
<1>1. /\ pc[w] = "idle" /\ stage[w] = "idle" /\ server = "running"
      /\ pc' = [pc EXCEPT ![w] = "lock"] /\ stage' = [stage EXCEPT ![w] = "append"]
      /\ \E q : req' = [req EXCEPT ![w] = q]
      /\ UNCHANGED <<done, applyMu, pending, nextApplySeq, data, nextSeq, server,
                     epoch, acked>>
  BY DEF Write, Log!CallAppend, Log!queueVars, Log!crashVars, Log!Running
<1>2. \A v \in Writer : /\ pc'[v] = IF v = w THEN "lock" ELSE pc[v]
                        /\ stage'[v] = IF v = w THEN "append" ELSE stage[v]
                        /\ v # w => req'[v] = req[v]
  BY <1>1 DEF LogFacts, StoreInv, StoreTypes
<1>3. StoreTypes'
  BY <1>1, <1>2 DEF StoreInv, StoreTypes
<1>4. StageInv'
  BY <1>1, <1>2 DEF StoreInv, StageInv
<1>5. NumberInv'
  BY <1>1, <1>2, NumberKept DEF StoreInv, Called
<1>6. AnswerInv'
  <2>1. done[w] # "ok"
    BY <1>1 DEF LogFacts
  <2> QED
    BY <1>1, <1>2, <2>1, AnswerKept DEF StoreInv
<1> QED
  BY <1>3, <1>4, <1>5, <1>6 DEF StoreInv

\* Append returns to the store.
LEMMA StoreReturn ==
    ASSUME LogFacts, StoreInv, NEW w \in Writer, Appended(w) \/ Refused(w)
    PROVE  StoreInv'
<1>1. /\ pc[w] \in {"lock", "wait"} /\ server = "running"
      /\ pc' = [pc EXCEPT ![w] = "idle"]
      /\ stage' = [stage EXCEPT ![w] = IF done[w] = "ok" THEN "apply" ELSE "idle"]
      /\ UNCHANGED <<req, applyMu, pending, nextApplySeq, data, nextSeq, server,
                     epoch, acked>>
      /\ \A v \in Writer : v # w => done'[v] = done[v]
  <2>1. CASE Appended(w)
    BY <2>1 DEF Appended, Log!Return, Log!queueVars, Log!crashVars, Log!Running, LogFacts
  <2>2. CASE Refused(w)
    <3>1. done[w] # "ok"
      BY <2>2 DEF Refused, Log!Refuse, LogFacts
    <3> QED
      BY <2>2, <3>1 DEF Refused, Log!Refuse, Log!queueVars, Log!crashVars, Log!Running
  <2> QED
    BY <2>1, <2>2
<1>2. \A v \in Writer :
         /\ pc'[v] = IF v = w THEN "idle" ELSE pc[v]
         /\ stage'[v] = IF v = w THEN (IF done[w] = "ok" THEN "apply" ELSE "idle")
                        ELSE stage[v]
  BY <1>1 DEF LogFacts, StoreInv, StoreTypes
<1>3. stage[w] = "append" /\ (done[w] = "ok" => pc[w] = "wait")
  BY <1>1 DEF StoreInv, StageInv, LogFacts
<1>4. StoreTypes'
  <2>1. stage' \in [Writer -> {"idle", "append", "apply", "applying"}]
    BY <1>1 DEF StoreInv, StoreTypes
  <2> QED
    BY <1>1, <1>2, <1>3, <2>1 DEF StoreInv, StoreTypes
<1>5. StageInv'
  <2>1. req[w] \in Request /\ req[w].writer = w /\ req[w].epoch = epoch
    BY <1>1 DEF LogFacts
  <2> QED
    BY <1>1, <1>2, <2>1 DEF StoreInv, StageInv
<1>6. NumberInv'
  BY <1>1, <1>2, <1>3, NumberKept DEF StoreInv, Called
<1>7. AnswerInv'
  BY <1>1, <1>2, <1>3, AnswerKept DEF StoreInv
<1> QED
  BY <1>4, <1>5, <1>6, <1>7 DEF StoreInv

LEMMA StoreApplyLock ==
    ASSUME LogFacts, StoreInv, NEW w \in Writer, ApplyLock(w)
    PROVE  StoreInv'
<1> DEFINE p == Numbered(w)
<1>1. /\ stage[w] = "apply" /\ applyMu = None /\ applyMu' = w
      /\ pending' = pending \cup {p} /\ p.seq = req[w].seq /\ p.record = req[w].record
      /\ stage' = [stage EXCEPT ![w] = "applying"]
      /\ UNCHANGED <<pc, req, done, nextApplySeq, data, nextSeq, server, epoch, acked>>
  BY DEF ApplyLock, Keep, Numbered, logVars
<1>2. /\ req[w] \in Request /\ pc[w] = "idle" /\ done[w] # "ok"
      /\ req[w].seq \in 1 .. nextSeq /\ req[w].seq >= nextApplySeq
      /\ \A r \in pending : r.seq # req[w].seq
      /\ nextSeq <= MaxSeq /\ nextSeq \in Nat /\ MaxSeq \in Nat
  BY <1>1 DEF StoreInv, StageInv, NumberInv, Called, LogFacts
<1>3. \A v \in Writer : stage'[v] = IF v = w THEN "applying" ELSE stage[v]
  BY <1>1 DEF StoreInv, StoreTypes
<1>4. p \in [seq : 1 .. MaxSeq, record : Record] /\ p.seq <= nextSeq /\ p.seq >= nextApplySeq
  BY <1>1, <1>2 DEF Numbered, Request
<1> HIDE DEF p
<1>5. StoreTypes'
  <2>1. stage' \in [Writer -> {"idle", "append", "apply", "applying"}]
    BY <1>1 DEF StoreInv, StoreTypes
  <2>2. \A v \in Writer : (applyMu' = v) <=> (stage'[v] = "applying")
    BY <1>1, <1>3 DEF StoreInv, StoreTypes, LogFacts
  <2> QED
    BY <1>1, <1>4, <2>1, <2>2 DEF StoreInv, StoreTypes
<1>6. StageInv'
  <2>1. server = "running"
    BY <1>1 DEF StoreInv, StageInv
  <2> QED
    BY <1>1, <1>2, <1>3, <2>1 DEF StoreInv, StageInv
<1>7. NumberInv'
  <2>1. \A v \in Writer : Called(v)' => Called(v) /\ v # w
    BY <1>1, <1>2, <1>3 DEF Called
  <2>2. Called(w)
    BY <1>1 DEF Called
  <2>3. \A v \in Writer : Called(v)' => req[v].seq # p.seq
    BY <1>1, <2>1, <2>2 DEF StoreInv, NumberInv
  <2> HIDE DEF Called
  <2>4. \A r \in pending' : /\ r.seq <= nextSeq
                            /\ \A q \in pending' : q.seq = r.seq => q = r
    BY <1>1, <1>2, <1>4 DEF StoreInv, NumberInv
  <2>5. \A v \in Writer : Called(v)' =>
           /\ req'[v].seq \in 1 .. nextSeq' /\ req'[v].seq >= nextApplySeq'
           /\ \A r \in pending' : r.seq # req'[v].seq
    BY <1>1, <2>1, <2>3 DEF StoreInv, NumberInv
  <2>6. \A u, v \in Writer :
          Called(u)' /\ Called(v)' /\ req'[u].seq = req'[v].seq => u = v
    BY <1>1, <2>1 DEF StoreInv, NumberInv
  <2> QED
    BY <1>1, <2>4, <2>5, <2>6 DEF StoreInv, NumberInv
<1>8. AnswerInv'
  <2>1. \A n \in Nat : server = "running" /\ <<epoch, n>> \in acked =>
          \/ n < nextApplySeq
          \/ \E r \in pending' : r.seq = n
          \/ \E v \in Writer : req[v].seq = n /\ (stage'[v] = "apply" \/ done[v] = "ok")
    <3> SUFFICES ASSUME NEW n \in Nat, server = "running", <<epoch, n>> \in acked,
                        ~(n < nextApplySeq), ~\E r \in pending' : r.seq = n
                 PROVE  \E v \in Writer :
                           req[v].seq = n /\ (stage'[v] = "apply" \/ done[v] = "ok")
      OBVIOUS
    <3>1. PICK v \in Writer : req[v].seq = n /\ (stage[v] = "apply" \/ done[v] = "ok")
      BY <1>1 DEF StoreInv, AnswerInv
    <3>2. v # w
      BY <1>1, <3>1
    <3> QED
      BY <1>3, <3>1, <3>2
  <2>2. applyMu' # None
    BY <1>1 DEF LogFacts
  <2> QED
    BY <1>1, <2>1, <2>2 DEF StoreInv, AnswerInv
<1> QED
  BY <1>5, <1>6, <1>7, <1>8 DEF StoreInv

LEMMA StoreApplyNext ==
    ASSUME LogFacts, StoreInv, NEW w \in Writer, ApplyNext(w)
    PROVE  StoreInv'
<1>1. PICK p \in pending :
         /\ stage[w] = "applying" /\ p.seq = nextApplySeq
         /\ data' = [data EXCEPT ![p.record.key] = p.record.value]
         /\ pending' = pending \ {p} /\ nextApplySeq' = nextApplySeq + 1
         /\ UNCHANGED <<pc, req, done, stage, applyMu, nextSeq, server, epoch, acked>>
  BY DEF ApplyNext, InTurn, logVars
<1>2. /\ p \in [seq : 1 .. MaxSeq, record : Record] /\ nextApplySeq \in 1 .. MaxSeq
      /\ p.record.value \in Value \cup {None} /\ nextSeq \in Nat /\ MaxSeq \in Nat
      /\ p.seq <= nextSeq
  BY <1>1 DEF StoreInv, StoreTypes, NumberInv, LogFacts, Record
<1>3. \A r \in pending' : r.seq \in Nat /\ r.seq >= nextApplySeq + 1
  <2>1. \A r \in pending : r.seq \in Nat /\ r.seq >= nextApplySeq
    BY DEF StoreInv, StoreTypes
  <2>2. \A r \in pending' : r \in pending /\ r.seq # nextApplySeq
    BY <1>1 DEF StoreInv, NumberInv
  <2> QED
    BY <1>2, <2>1, <2>2
<1>4. StoreTypes'
  <2>1. nextApplySeq' \in 1 .. (MaxSeq + 1)
    BY <1>1, <1>2
  <2>2. data' \in [Key -> Value \cup {None}]
    BY <1>1, <1>2 DEF StoreInv, StoreTypes
  <2> QED
    BY <1>1, <1>3, <2>1, <2>2 DEF StoreInv, StoreTypes
<1>5. StageInv'
  BY <1>1 DEF StoreInv, StageInv
<1>6. NumberInv'
  <2>1. \A v \in Writer : Called(v)' <=> Called(v)
    BY <1>1 DEF Called
  <2>2. \A v \in Writer : Called(v) =>
           /\ req[v].seq \in 1 .. nextSeq /\ req[v].seq >= nextApplySeq + 1
           /\ \A r \in pending : r.seq # req[v].seq
    <3>1. \A v \in Writer : Called(v) =>
             /\ req[v].seq \in 1 .. nextSeq /\ req[v].seq >= nextApplySeq
             /\ req[v].seq # nextApplySeq
             /\ \A r \in pending : r.seq # req[v].seq
      BY <1>1 DEF StoreInv, NumberInv
    <3> QED
      BY <1>2, <3>1
  <2> HIDE DEF Called
  <2> QED
    BY <1>1, <1>2, <2>1, <2>2 DEF StoreInv, NumberInv
<1>7. AnswerInv'
  <2>1. \A n \in Nat : server = "running" /\ <<epoch, n>> \in acked =>
          \/ n < nextApplySeq + 1
          \/ \E r \in pending' : r.seq = n
          \/ \E v \in Writer : req[v].seq = n /\ (stage[v] = "apply" \/ done[v] = "ok")
    <3> SUFFICES ASSUME NEW n \in Nat, server = "running", <<epoch, n>> \in acked,
                        ~(n < nextApplySeq + 1), ~\E r \in pending' : r.seq = n
                 PROVE  \E v \in Writer :
                           req[v].seq = n /\ (stage[v] = "apply" \/ done[v] = "ok")
      OBVIOUS
    <3>1. ~(n < nextApplySeq) /\ n # nextApplySeq
      BY <1>2
    <3>2. ~\E r \in pending : r.seq = n
      BY <1>1, <3>1
    <3> QED
      BY <3>1, <3>2 DEF StoreInv, AnswerInv
  <2>2. applyMu' # None
    BY <1>1 DEF StoreInv, StoreTypes, LogFacts
  <2> QED
    BY <1>1, <2>1, <2>2 DEF StoreInv, AnswerInv
<1> QED
  BY <1>4, <1>5, <1>6, <1>7 DEF StoreInv

LEMMA StoreApplyUnlock ==
    ASSUME LogFacts, StoreInv, NEW w \in Writer, ApplyUnlock(w)
    PROVE  StoreInv'
<1>1. /\ stage[w] = "applying" /\ InTurn = {} /\ applyMu' = None
      /\ stage' = [stage EXCEPT ![w] = "idle"]
      /\ UNCHANGED <<pc, req, done, pending, nextApplySeq, data, nextSeq, server,
                     epoch, acked>>
  BY DEF ApplyUnlock, logVars
<1>2. \A v \in Writer : stage'[v] = IF v = w THEN "idle" ELSE stage[v]
  BY <1>1 DEF StoreInv, StoreTypes
<1>3. StoreTypes'
  <2>1. stage' \in [Writer -> {"idle", "append", "apply", "applying"}]
    BY <1>1 DEF StoreInv, StoreTypes
  <2>2. \A v \in Writer : (applyMu' = v) <=> (stage'[v] = "applying")
    BY <1>1, <1>2 DEF StoreInv, StoreTypes, LogFacts
  <2> QED
    BY <1>1, <2>1, <2>2 DEF StoreInv, StoreTypes
<1>4. StageInv'
  BY <1>1, <1>2 DEF StoreInv, StageInv
<1>5. NumberInv'
  BY <1>1, <1>2, NumberKept DEF StoreInv, Called
<1>6. AnswerInv'
  BY <1>1, <1>2, AnswerKept DEF StoreInv
<1> QED
  BY <1>3, <1>4, <1>5, <1>6 DEF StoreInv

\* The commit goroutine, Close, and writers inside Append.
LEMMA StoreLogStep ==
    ASSUME LogFacts, StoreInv, LogStep
    PROVE  StoreInv'
<1>0. UNCHANGED <<stage, applyMu, pending, nextApplySeq, data, epoch, replayed>>
  BY LogStepIs
<1>1. StoreTypes'
  BY <1>0 DEF StoreInv, StoreTypes
<1>2. CASE UNCHANGED <<pc, done, req, nextSeq, acked, server>>
  <2>1. StageInv' /\ NumberInv'
    BY <1>0, <1>2, NumberKept DEF StoreInv, StageInv, Called
  <2>2. AnswerInv'
    BY <1>0, <1>2, AnswerKept DEF StoreInv
  <2> QED
    BY <1>1, <2>1, <2>2 DEF StoreInv
<1>3. CASE UNCHANGED <<pc, req, nextSeq, acked, server>> /\ Answers("failed")
  <2>1. StageInv' /\ NumberInv'
    BY <1>0, <1>3, NumberKept DEF StoreInv, StageInv, Called
  <2>2. ASSUME NEW w \in Writer, done[w] = "ok" PROVE done'[w] = "ok"
    <3>1. ~\E k \in 1 .. Len(batch) : batch[k].writer = w
      BY <2>2 DEF LogFacts
    <3> QED
      BY <1>3, <2>2, <3>1 DEF Answers
  <2>3. AnswerInv'
    BY <1>0, <1>3, <2>2, AnswerKept DEF StoreInv
  <2> QED
    BY <1>1, <2>1, <2>3 DEF StoreInv
<1>4. CASE /\ UNCHANGED <<pc, req, nextSeq, server>> /\ Answers("ok")
           /\ acked' = acked \cup {<<batch[k].epoch, batch[k].seq>> : k \in 1 .. Len(batch)}
  <2>1. StageInv' /\ NumberInv'
    BY <1>0, <1>4, NumberKept DEF StoreInv, StageInv, Called
  <2>2. \A w \in Writer : done[w] = "ok" => done'[w] = "ok"
    BY <1>4 DEF Answers
  <2>3. ASSUME NEW k \in 1 .. Len(batch)
        PROVE  /\ batch[k].epoch = epoch /\ server = "running"
               /\ \E w \in Writer : req[w].seq = batch[k].seq /\ done'[w] = "ok"
    <3>1. /\ batch[k].writer \in Writer /\ pc[batch[k].writer] = "wait"
          /\ req[batch[k].writer] = batch[k]
      BY DEF LogFacts
    <3>2. batch[k].epoch = epoch /\ stage[batch[k].writer] = "append"
      BY <3>1 DEF LogFacts, StoreInv, StageInv
    <3>3. server = "running"
      BY <3>1, <3>2 DEF StoreInv, StageInv
    <3>4. done'[batch[k].writer] = "ok"
      BY <1>4, <3>1 DEF Answers
    <3> QED
      BY <3>1, <3>2, <3>3, <3>4
  <2>4. \A a \in acked' : a[1] <= epoch /\ (server # "running" => a[1] < epoch)
    <3>1. \A a \in acked' : a \in acked \/ \E k \in 1 .. Len(batch) :
             a = <<batch[k].epoch, batch[k].seq>>
      BY <1>4
    <3>2. \A a : (\E k \in 1 .. Len(batch) : a = <<batch[k].epoch, batch[k].seq>>)
                 => a[1] = epoch /\ server = "running"
      BY <2>3
    <3> QED
      BY <3>1, <3>2 DEF LogFacts, StoreInv, AnswerInv
  <2>5. \A n \in Nat : server = "running" /\ <<epoch, n>> \in acked' =>
          \/ n < nextApplySeq
          \/ \E p \in pending : p.seq = n
          \/ \E w \in Writer : req[w].seq = n /\ (stage[w] = "apply" \/ done'[w] = "ok")
    <3> SUFFICES ASSUME NEW n \in Nat, server = "running", <<epoch, n>> \in acked'
                 PROVE  \/ n < nextApplySeq
                        \/ \E p \in pending : p.seq = n
                        \/ \E w \in Writer : /\ req[w].seq = n
                                             /\ stage[w] = "apply" \/ done'[w] = "ok"
      OBVIOUS
    <3>1. CASE <<epoch, n>> \in acked
      BY <2>2, <3>1 DEF StoreInv, AnswerInv
    <3>2. CASE \E k \in 1 .. Len(batch) : <<epoch, n>> = <<batch[k].epoch, batch[k].seq>>
      <4>1. PICK k \in 1 .. Len(batch) : batch[k].seq = n
        BY <3>2
      <4> QED
        BY <2>3, <4>1
    <3> QED
      BY <1>4, <3>1, <3>2
  <2>6. InTurn' = InTurn
    BY <1>0 DEF InTurn
  <2>7. AnswerInv'
    BY <1>0, <1>4, <2>4, <2>5, <2>6 DEF StoreInv, AnswerInv
  <2> QED
    BY <1>1, <2>1, <2>7 DEF StoreInv
<1>5. ASSUME NEW w \in Writer, pc[w] = "send", pc' = [pc EXCEPT ![w] = "wait"],
             UNCHANGED <<done, req, nextSeq, acked, server>>
      PROVE  StoreInv'
  <2>1. \A v \in Writer : pc'[v] = IF v = w THEN "wait" ELSE pc[v]
    BY <1>5 DEF LogFacts
  <2>2. StageInv' /\ NumberInv'
    BY <1>0, <1>5, <2>1, NumberKept DEF StoreInv, StageInv, Called
  <2>3. AnswerInv'
    BY <1>0, <1>5, AnswerKept DEF StoreInv
  <2> QED
    BY <1>1, <2>2, <2>3 DEF StoreInv
<1>6. ASSUME NEW w \in Writer, pc[w] = "lock", pc' = [pc EXCEPT ![w] = "send"],
             nextSeq' = nextSeq + 1, req' = [req EXCEPT ![w].seq = nextSeq + 1],
             UNCHANGED <<done, acked, server>>
      PROVE  StoreInv'
  <2>1. req[w] \in Request /\ stage[w] = "append" /\ nextSeq \in Nat /\ done[w] = None
    BY <1>6 DEF LogFacts, StoreInv, StageInv
  <2>2. \A v \in Writer : /\ pc'[v] = IF v = w THEN "send" ELSE pc[v]
                          /\ v # w => req'[v] = req[v]
    BY <1>6 DEF LogFacts
  <2>3. req'[w].seq = nextSeq + 1
    BY <1>6, <2>1 DEF LogFacts, Request
  <2>4. StageInv'
    <3>1. server = "running"
      BY <2>1 DEF StoreInv, StageInv
    <3> QED
      BY <1>0, <1>6, <2>1, <2>2, <3>1 DEF StoreInv, StageInv
  <2>5. NumberInv'
    <3>1. \A v \in Writer : v # w /\ Called(v)' => Called(v) /\ req'[v] = req[v]
      BY <1>0, <2>2 DEF Called
    <3>2. nextApplySeq \in Nat /\ server = "running" /\ nextApplySeq <= nextSeq + 1
      BY <2>1 DEF StoreInv, StoreTypes, StageInv, NumberInv
    <3>3. \A p \in pending : p.seq \in Nat /\ p.seq <= nextSeq
      BY DEF StoreInv, StoreTypes, NumberInv
    <3> HIDE DEF Called
    <3>4. \A v \in Writer : v # w /\ Called(v)' =>
             req'[v].seq \in 1 .. nextSeq /\ req'[v].seq >= nextApplySeq
             /\ \A p \in pending : p.seq # req'[v].seq
      BY <3>1 DEF StoreInv, NumberInv
    <3>5. \A p \in pending' : /\ p.seq <= nextSeq'
                              /\ \A r \in pending' : r.seq = p.seq => r = p
      BY <1>0, <1>6, <2>1, <3>3 DEF StoreInv, NumberInv
    <3>6. \A v \in Writer : Called(v)' =>
             /\ req'[v].seq \in 1 .. nextSeq' /\ req'[v].seq >= nextApplySeq'
             /\ \A p \in pending' : p.seq # req'[v].seq
      <4>1. \A p \in pending : p.seq # nextSeq + 1
        BY <2>1, <3>3
      <4> QED
        BY <1>0, <1>6, <2>1, <2>3, <3>2, <3>4, <4>1
    <3>7. \A u, v \in Writer :
             Called(u)' /\ Called(v)' /\ req'[u].seq = req'[v].seq => u = v
      <4>1. \A v \in Writer : v # w /\ Called(v)' => req'[v].seq # nextSeq + 1
        BY <2>1, <3>4
      <4> QED
        BY <2>3, <3>1, <4>1 DEF StoreInv, NumberInv
    <3>8. nextApplySeq' <= nextSeq' + 1
      BY <1>0, <1>6, <2>1, <3>2
    <3> QED
      BY <3>5, <3>6, <3>7, <3>8 DEF NumberInv
  <2>6. AnswerInv'
    BY <1>0, <1>6, <2>1, <2>2, AnswerKept DEF StoreInv, LogFacts
  <2> QED
    BY <1>1, <2>4, <2>5, <2>6 DEF StoreInv
<1>7. CASE /\ server # "running" /\ server' # "running"
           /\ UNCHANGED <<pc, done, req, nextSeq, acked>>
  <2>1. StageInv' /\ NumberInv'
    BY <1>0, <1>7, NumberKept DEF StoreInv, StageInv, Called
  <2>2. AnswerInv'
    BY <1>0, <1>7, AnswerKept DEF StoreInv
  <2> QED
    BY <1>1, <2>1, <2>2 DEF StoreInv
<1> QED
  BY <1>2, <1>3, <1>4, <1>5, <1>6, <1>7, LogStepIs

LEMMA StoreCrash ==
    ASSUME LogFacts, StoreInv, Crash
    PROVE  StoreInv'
<1>1. /\ nextSeq' = 0 /\ epoch' = epoch + 1 /\ server' = "down" /\ acked' = acked
      /\ pc' = [w \in Writer |-> "idle"] /\ stage' = [w \in Writer |-> "idle"]
      /\ applyMu' = None /\ pending' = {} /\ UNCHANGED <<nextApplySeq, data>>
  BY DEF Crash, Log!Crash
<1>2. StoreTypes'
  BY <1>1 DEF StoreInv, StoreTypes, LogFacts
<1>3. StageInv' /\ NumberInv'
  BY <1>1 DEF StageInv, NumberInv, Called
<1>4. AnswerInv'
  <2>1. \A a \in acked : a[1] \in Nat /\ epoch \in Nat /\ a[1] <= epoch
    BY DEF LogFacts, StoreInv, AnswerInv
  <2>2. \A a \in acked : a[1] <= epoch + 1 /\ a[1] < epoch + 1
    BY <2>1
  <2> QED
    BY <1>1, <2>2 DEF AnswerInv, InTurn
<1> QED
  BY <1>2, <1>3, <1>4 DEF StoreInv

\* The map that New makes: the last value written to each key.
LEMMA MapOfIs ==
    ASSUME NEW s \in Seq(Record)
    PROVE  Abstract!MapOf(s) \in [Key -> Value \cup {None}]
<1>1. Abstract!MapOf(s) = [k \in Key |-> IF Writes(s, k) = {} THEN None ELSE LastWrite(s, k)]
  BY DEF Abstract!MapOf, Writes, LastWrite
<1>2. ASSUME NEW k \in Key, Writes(s, k) # {}
      PROVE  LastWrite(s, k) \in Value \cup {None}
  <2>1. PICK x \in Writes(s, k) : \A p \in Writes(s, k) : p <= x
    BY <1>2, LastWriteExists
  <2>2. x \in DOMAIN s /\ LastWrite(s, k) = s[x].value
    BY <2>1, LastWriteIs DEF Writes
  <2>3. s[x] \in Record
    BY <2>2
  <2> QED
    BY <2>2, <2>3 DEF Record
<1> QED
  BY <1>1, <1>2

LEMMA StoreNew ==
    ASSUME LogFacts, LogFacts', StoreInv, New
    PROVE  StoreInv'
<1>1. /\ server = "down" /\ server' = "running" /\ nextApplySeq' = 1
      /\ data' = Abstract!MapOf([k \in DOMAIN replayed' |-> replayed'[k].record])
      /\ UNCHANGED <<pc, req, done, stage, applyMu, pending, nextSeq, epoch, acked>>
  BY DEF New, Log!Open, FirstSeq, Log!writerVars, Log!queueVars
<1>2. /\ pending = {} /\ nextSeq = 0 /\ MaxSeq \in Nat
      /\ \A w \in Writer : stage[w] = "idle" /\ pc[w] = "idle"
  BY <1>1 DEF StoreInv, StageInv, LogFacts
<1>3. data' \in [Key -> Value \cup {None}]
  <2> DEFINE s == [k \in DOMAIN replayed' |-> replayed'[k].record]
  <2>1. replayed' \in Seq(FileEntry)
    BY DEF LogFacts
  <2>2. s \in Seq(Record)
    <3>1. DOMAIN replayed' = 1 .. Len(replayed') /\ Len(replayed') \in Nat
      BY <2>1
    <3>2. \A k \in 1 .. Len(replayed') : replayed'[k].record \in Record
      <4>1. \A k \in 1 .. Len(replayed') : replayed'[k] \in FileEntry
        BY <2>1
      <4> QED
        BY <4>1 DEF FileEntry
    <3> QED
      BY <3>1, <3>2
  <2> QED
    BY <1>1, <2>2, MapOfIs
<1>4. StoreTypes'
  BY <1>1, <1>2, <1>3 DEF StoreInv, StoreTypes
<1>5. StageInv' /\ NumberInv'
  BY <1>1, <1>2 DEF StoreInv, StageInv, NumberInv, Called
<1>6. AnswerInv'
  <2>1. \A a \in acked : a[1] \in Nat /\ epoch \in Nat /\ a[1] < epoch
    BY <1>1 DEF LogFacts, StoreInv, AnswerInv
  <2>2. \A n \in Nat : <<epoch, n>> \notin acked
    BY <2>1
  <2>3. \A a \in acked : a[1] <= epoch
    BY <2>1
  <2> QED
    BY <1>1, <1>2, <2>2, <2>3 DEF AnswerInv, InTurn
<1> QED
  BY <1>4, <1>5, <1>6 DEF StoreInv

LEMMA StoreStep ==
    ASSUME LogP!LogInv, LogP!LogInv', StoreInv, [Next]_vars
    PROVE  StoreInv'
<1>1. LogFacts /\ LogFacts'
  BY LogIs, LogIsNext
<1>2. ASSUME NEW w \in Writer,
             (\E k \in Key : Delete(w, k) \/ \E v \in Value : Set(w, k, v))
      PROVE  StoreInv'
  <2>1. PICK r \in Record : Write(w, r)
    BY <1>2 DEF Delete, Set, Record
  <2> QED
    BY <1>1, <2>1, StoreWrite
<1>3. CASE UNCHANGED vars
  BY <1>3 DEF vars, logVars, storeVars, StoreInv, StoreTypes, StageInv, NumberInv,
     AnswerInv, Called, InTurn
<1> QED
  BY <1>1, <1>2, <1>3, StoreReturn, StoreApplyLock, StoreApplyNext, StoreApplyUnlock,
     StoreLogStep, StoreCrash, StoreNew DEF Next

LEMMA StoreInvariant == Spec => [](LogP!LogInv /\ StoreInv)
<1>1. Init => LogP!LogInv /\ StoreInv
  BY LogInit, StoreInit
<1>2. LogP!LogInv /\ StoreInv /\ [Next]_vars => LogP!LogInv' /\ StoreInv'
  BY LogKept, StoreStep
<1> QED
  BY <1>1, <1>2, PTL DEF Spec

LEMMA StoreTypeOK == LogP!LogInv /\ StoreInv => TypeOK
<1> SUFFICES ASSUME LogP!LogInv, StoreInv PROVE TypeOK
  OBVIOUS
<1>1. Log!TypeOK
  BY DEF LogP!LogInv, LogP!TypeInv, LogP!TypeOK, Log!TypeOK, LogP!Request, Log!Request,
     LogP!Entry, Log!Entry
<1> QED
  BY <1>1 DEF StoreInv, StoreTypes, TypeOK

\* The fields of the log and of the store keep their types; applyMu is held
\* exactly by the writer that applies, and no number waits that was applied.
THEOREM TypeCorrect == Spec => []TypeOK
BY StoreInvariant, StoreTypeOK, PTL

LEMMA QuietApplied == LogP!LogInv /\ StoreInv => QuietIsApplied
<1> SUFFICES ASSUME LogP!LogInv, StoreInv PROVE QuietIsApplied
  OBVIOUS
<1>0. nextApplySeq \in Int
  BY LogIs DEF LogFacts, StoreInv, StoreTypes
<1> SUFFICES ASSUME Log!Running,
                    \A w \in Writer : stage[w] \in {"idle", "append"} /\ done[w] # "ok",
                    NEW n \in 1 .. MaxSeq,
                    \A m \in 1 .. n : <<epoch, m>> \in acked,
                    nextApplySeq <= n
             PROVE  FALSE
  BY <1>0, LogAssumed DEF QuietIsApplied, LogP!WALAssumption
<1>1. applyMu = None /\ server = "running"
  BY DEF StoreInv, StoreTypes, Log!Running
<1>2. nextApplySeq \in 1 .. n /\ nextApplySeq \in Nat
  BY LogIs DEF LogFacts, StoreInv, StoreTypes
<1>3. PICK p \in pending : p.seq = nextApplySeq
  <2>1. ~(nextApplySeq < nextApplySeq)
    BY <1>2
  <2> QED
    BY <1>1, <1>2, <2>1 DEF StoreInv, AnswerInv
<1> QED
  BY <1>1, <1>3 DEF StoreInv, AnswerInv, InTurn

\* In whatever order the writers reach applyOrdered, the last one leaves
\* nothing behind that it or another could have applied.
THEOREM QuietCorrect == Spec => []QuietIsApplied
BY StoreInvariant, QuietApplied, PTL

-----------------------------------------------------------------------------
(* What is on the disk; from here on no record is cut before the last      *)
(* crash (CutOnce in WALProofs).                                           *)

LEMMA DurableInvariant == ASSUME LogP!CutOnce PROVE Spec => []LogP!DurableInv
<1>1. LogP!LogInv /\ LogP!DurableInv /\ [Next]_vars => LogP!DurableInv'
  BY LogDurable
<1>2. Init => LogP!DurableInv
  BY LogInit
<1> QED
  BY <1>1, <1>2, StoreInvariant, PTL DEF Spec

LEMMA DurableHolds == LogP!DurableInv => AckedIsReplayed
BY DEF LogP!DurableInv, LogP!AckedIsReplayed, AckedIsReplayed, Log!AckedIsReplayed,
   LogP!Ids, LogP!Elems, LogP!Id, Log!Ids, Log!Elems, Log!Id

\* What a Set or Delete answered before a crash is read again by the next New:
\* after any number of crashes that cut no record, and after one that does.
THEOREM AckedCorrect == ASSUME LogP!CutOnce PROVE Spec => []AckedIsReplayed
BY DurableInvariant, DurableHolds, PTL

\* Entry k of the file is the record r with number n of this run.
EntryIs(k, n, r) ==
    file[k].epoch = epoch /\ file[k].seq = n /\ file[k].record = r

OnDisk(n, r) == \E k \in 1 .. synced : EntryIs(k, n, r)

HasCut == \E k \in 1 .. Len(file) : file[k].cut # "whole"

\* How much of the file is of earlier runs: what was replayed, and the record
\* that the crash cut.
Old == Len(replayed) + (IF HasCut THEN 1 ELSE 0)

\* After it comes what this run has written.
RunsInv ==
    /\ \A k \in 1 .. Len(file) : file[k].seq >= 1
    /\ server = "running" =>
          /\ Old <= synced
          /\ \A k \in 1 .. Len(file) : k > Old <=> file[k].epoch = epoch
    /\ server # "running" =>
          /\ synced = Len(file)
          /\ \A k \in 1 .. Len(file) : file[k].epoch # epoch

\* The numbers of this run that were applied stand at their places.
ShownInv ==
    server = "running" =>
       \A n \in 1 .. nextApplySeq - 1 :
          Old + n <= synced /\ file[Old + n].seq = n

\* The record with which a writer goes to applyOrdered, or will.
Answered(w) == done[w] = "ok" \/ stage[w] = "apply"

\* What is to be applied is durable, and a batch is in the file as far as it
\* is written.
ToApplyInv ==
    /\ \A p \in pending : OnDisk(p.seq, p.record)
    /\ \A w \in Writer : Answered(w) => OnDisk(req[w].seq, req[w].record)

WrittenInv ==
    \A j \in 1 .. written : \E k \in 1 .. Len(file) :
       EntryIs(k, batch[j].seq, batch[j].record)

DiskInv == RunsInv /\ ShownInv /\ ToApplyInv /\ WrittenInv

\* What is on the disk stays there as the file grows.
LEMMA OnDiskKept ==
    ASSUME UNCHANGED epoch, synced \in Nat, synced' \in Nat, synced <= synced',
           \A k \in 1 .. synced : file'[k] = file[k]
    PROVE  \A n, r : OnDisk(n, r) => OnDisk(n, r)'
BY DEF OnDisk, EntryIs

LEMMA OldType == LogFacts => Old \in Nat
BY DEF LogFacts, Old

LEMMA SyncedType == LogFacts => synced \in Nat
BY DEF LogFacts

\* Steps that leave the disk alone and bring nothing new to be applied.
LEMMA DiskKept ==
    ASSUME DiskInv, synced \in Nat,
           UNCHANGED <<file, synced, epoch, replayed, nextApplySeq>>,
           server' = server \/ (server # "running" /\ server' # "running"),
           \A p \in pending' : OnDisk(p.seq, p.record),
           \A w \in Writer : Answered(w)' => Answered(w) /\ req'[w] = req[w],
           \A j \in 1 .. written' : j \in 1 .. written /\ batch'[j] = batch[j]
    PROVE  DiskInv'
<1>1. \A n, r : OnDisk(n, r) => OnDisk(n, r)'
  BY OnDiskKept
<1>2. RunsInv' /\ ShownInv'
  <2>1. Old' = Old
    BY DEF Old, HasCut
  <2> QED
    BY <2>1 DEF DiskInv, RunsInv, ShownInv
<1>3. ToApplyInv'
  BY <1>1 DEF DiskInv, ToApplyInv
<1>4. WrittenInv'
  BY DEF DiskInv, WrittenInv, EntryIs
<1> QED
  BY <1>2, <1>3, <1>4 DEF DiskInv

LEMMA DiskInit == Init => DiskInv
<1> SUFFICES ASSUME Init PROVE DiskInv
  OBVIOUS
<1>0. Old = 0
  BY DEF Init, Log!Init, Old, HasCut
<1>1. /\ file = <<>> /\ synced = 0 /\ replayed = <<>> /\ written = 0 /\ pending = {}
      /\ server = "running" /\ nextApplySeq = 1 /\ Len(<<>>) = 0
      /\ done = [w \in Writer |-> None] /\ stage = [w \in Writer |-> "idle"]
  BY DEF Init, Log!Init
<1>2. None # "ok"
  BY LogAssumed DEF LogP!WALAssumption
<1> QED
  BY <1>0, <1>1, <1>2 DEF DiskInv, RunsInv, ShownInv, ToApplyInv, Answered, WrittenInv

\* The steps of the store's own goroutines but for ApplyNext.
LEMMA DiskCalls ==
    ASSUME LogP!LogInv, StoreInv, DiskInv, NEW w \in Writer,
           \/ \E r \in Record : Write(w, r)
           \/ Appended(w) \/ Refused(w) \/ ApplyLock(w) \/ ApplyUnlock(w)
    PROVE  DiskInv'
<1>0. LogFacts /\ synced \in Nat
  BY LogIs DEF LogFacts
<1>1. /\ UNCHANGED <<file, synced, epoch, replayed, nextApplySeq, server, batch, written>>
      /\ pending' = pending \/ ApplyLock(w)
  BY DEF Write, Log!CallAppend, Appended, Log!Return, Refused, Log!Refuse, ApplyLock,
     ApplyUnlock, logVars, Log!fileVars, Log!crashVars, Log!batchVars
<1>2. ASSUME NEW v \in Writer, Answered(v)'
      PROVE  Answered(v) /\ req'[v] = req[v]
  <2>1. CASE \E r \in Record : Write(w, r)
    <3>1. /\ stage[w] = "idle" /\ pc[w] = "idle" /\ stage' = [stage EXCEPT ![w] = "append"]
          /\ done' = done /\ \E q : req' = [req EXCEPT ![w] = q]
      BY <2>1 DEF Write, Log!CallAppend
    <3>2. done[w] # "ok"
      BY <1>0, <3>1 DEF LogFacts
    <3>3. v # w
      BY <1>2, <3>1, <3>2 DEF Answered, StoreInv, StoreTypes
    <3> QED
      BY <1>0, <1>2, <3>1, <3>3 DEF Answered, StoreInv, StoreTypes, LogFacts
  <2>2. CASE Appended(w)
    <3>1. /\ stage' = [stage EXCEPT ![w] = IF done[w] = "ok" THEN "apply" ELSE "idle"]
          /\ done' = [done EXCEPT ![w] = None] /\ req' = req
      BY <2>2 DEF Appended, Log!Return
    <3> QED
      BY <1>0, <1>2, <3>1 DEF Answered, StoreInv, StoreTypes, LogFacts
  <2>3. CASE Refused(w)
    <3>1. stage' = [stage EXCEPT ![w] = "idle"] /\ done' = done /\ req' = req
      BY <2>3 DEF Refused, Log!Refuse
    <3> QED
      BY <1>2, <3>1 DEF Answered, StoreInv, StoreTypes
  <2>4. CASE ApplyLock(w)
    <3>1. stage' = [stage EXCEPT ![w] = "applying"] /\ done' = done /\ req' = req
      BY <2>4 DEF ApplyLock, logVars
    <3> QED
      BY <1>2, <3>1 DEF Answered, StoreInv, StoreTypes
  <2>5. CASE ApplyUnlock(w)
    <3>1. stage' = [stage EXCEPT ![w] = "idle"] /\ done' = done /\ req' = req
      BY <2>5 DEF ApplyUnlock, logVars
    <3> QED
      BY <1>2, <3>1 DEF Answered, StoreInv, StoreTypes
  <2> QED
    BY <2>1, <2>2, <2>3, <2>4, <2>5
<1>3. \A p \in pending' : OnDisk(p.seq, p.record)
  <2>1. CASE pending' = pending
    BY <2>1 DEF DiskInv, ToApplyInv
  <2>2. CASE ApplyLock(w)
    <3>1. pending' = pending \cup {Numbered(w)} /\ Answered(w)
      BY <2>2 DEF ApplyLock, Keep, Answered
    <3> QED
      BY <3>1 DEF DiskInv, ToApplyInv, Numbered
  <2> QED
    BY <1>1, <2>1, <2>2
<1>4. \A j \in 1 .. written' : j \in 1 .. written /\ batch'[j] = batch[j]
  BY <1>1
<1> QED
  BY <1>0, <1>1, <1>2, <1>3, <1>4, DiskKept

\* The number that is applied next stands at its place in the file: all
\* before it do, and the numbers of a run increase.
LEMMA AtItsPlace ==
    ASSUME LogP!LogInv, StoreInv, DiskInv, server = "running",
           NEW k \in 1 .. synced, file[k].epoch = epoch, file[k].seq = nextApplySeq
    PROVE  k = Old + nextApplySeq
<1> DEFINE m == Old
           n == nextApplySeq
<1>1. /\ file \in Seq(FileEntry) /\ synced \in 0 .. Len(file) /\ m \in Nat /\ n \in Nat \ {0}
      /\ k \in 1 .. Len(file) /\ k \in Nat
  <2>1. LogFacts
    BY LogIs
  <2>2. m \in Nat
    BY <2>1, OldType
  <2>3. file \in Seq(FileEntry) /\ synced \in 0 .. Len(file) /\ n \in Nat \ {0}
    BY <2>1 DEF LogFacts, StoreInv, StoreTypes
  <2>4. k \in 1 .. Len(file) /\ k \in Nat
    BY <2>3
  <2> QED
    BY <2>2, <2>3, <2>4
<1>2. \A j \in 1 .. Len(file) : file[j].seq \in Nat /\ file[j].epoch \in Nat
  <2>1. \A j \in 1 .. Len(file) : file[j] \in FileEntry
    BY <1>1
  <2> QED
    BY <2>1 DEF FileEntry
<1>3. m <= synced /\ \A j \in 1 .. Len(file) : j > m <=> file[j].epoch = epoch
  BY DEF DiskInv, RunsInv
<1>4. \A i \in 1 .. n - 1 : m + i <= synced /\ file[m + i].seq = i
  BY DEF DiskInv, ShownInv
<1>5. \A i, j \in 1 .. Len(file) : m < i /\ i < j => file[i].seq < file[j].seq
  <2>1. \A i, j \in 1 .. Len(file) : i < j =>
          \/ file[i].epoch < file[j].epoch
          \/ file[i].epoch = file[j].epoch /\ file[i].seq < file[j].seq
    BY LogIs DEF LogFacts
  <2>2. \A i, j \in 1 .. Len(file) : m < i /\ i < j =>
          file[i].epoch = epoch /\ file[j].epoch = epoch
    BY <1>1, <1>3
  <2> HIDE DEF m
  <2> QED
    BY <1>2, <2>1, <2>2
<1>6. k > m
  BY <1>1, <1>3
<1> HIDE DEF m, n
<1>7. ASSUME k < m + n PROVE FALSE
  <2>1. k - m \in 1 .. n - 1 /\ m + (k - m) = k
    BY <1>1, <1>6, <1>7
  <2>2. file[m + (k - m)].seq = k - m
    BY <1>4, <2>1
  <2> QED
    BY <1>1, <2>1, <2>2 DEF n
<1>8. ASSUME k > m + n PROVE FALSE
  <2>1. m + n \in 1 .. Len(file) /\ m < m + n
    BY <1>1, <1>8
  <2>2. file[m + n].seq < n
    BY <1>1, <1>5, <1>8, <2>1 DEF n
  <2>3. file[m + n].seq >= 1 /\ file[m + n].seq \in Nat
    BY <1>2, <2>1 DEF DiskInv, RunsInv
  <2> DEFINE i == file[m + n].seq
  <2>4. i \in 1 .. n - 1 /\ i \in Nat
    BY <1>1, <2>2, <2>3
  <2> HIDE DEF i
  <2>5. m + i \in 1 .. Len(file) /\ m < m + i /\ m + i < m + n /\ file[m + i].seq = i
    <3>1. m + i <= synced /\ file[m + i].seq = i
      BY <1>4, <2>4
    <3> QED
      BY <1>1, <2>4, <3>1
  <2>6. file[m + i].seq < file[m + n].seq
    BY <1>5, <2>1, <2>5
  <2> QED
    BY <2>4, <2>5, <2>6 DEF i
<1> QED
  BY <1>1, <1>7, <1>8 DEF m, n

LEMMA DiskApplyNext ==
    ASSUME LogP!LogInv, StoreInv, DiskInv, NEW w \in Writer, ApplyNext(w)
    PROVE  DiskInv'
<1>1. PICK p \in pending :
         /\ stage[w] = "applying" /\ p.seq = nextApplySeq /\ pending' = pending \ {p}
         /\ nextApplySeq' = nextApplySeq + 1
         /\ UNCHANGED <<req, done, stage, server, epoch, file, synced, replayed, batch,
                        written>>
  BY DEF ApplyNext, InTurn, logVars
<1>0. Old' = Old
  BY <1>1 DEF Old, HasCut
<1>2. server = "running"
  BY <1>1 DEF StoreInv, StageInv
<1>3. PICK k \in 1 .. synced : EntryIs(k, p.seq, p.record)
  BY DEF DiskInv, ToApplyInv, OnDisk
<1>4. /\ k = Old + nextApplySeq /\ file[k].seq = nextApplySeq
      /\ nextApplySeq \in Nat /\ synced \in Nat
  BY <1>1, <1>2, <1>3, AtItsPlace, LogIs DEF EntryIs, StoreInv, StoreTypes, LogFacts
<1>5. ShownInv'
  <2>1. \A n \in 1 .. nextApplySeq : n \in 1 .. nextApplySeq - 1 \/ n = nextApplySeq
    BY <1>4
  <2>2. \A n \in 1 .. nextApplySeq :
           Old + n <= synced /\ file[Old + n].seq = n
    BY <1>2, <1>4, <2>1 DEF DiskInv, ShownInv
  <2>3. nextApplySeq' - 1 = nextApplySeq
    BY <1>1, <1>4
  <2> QED
    BY <1>0, <1>1, <2>2, <2>3 DEF ShownInv
<1>6. RunsInv' /\ WrittenInv'
  BY <1>0, <1>1 DEF DiskInv, RunsInv, WrittenInv, EntryIs
<1>7. ToApplyInv'
  <2>1. \A n, r : OnDisk(n, r) => OnDisk(n, r)'
    BY <1>1, <1>4, OnDiskKept
  <2> QED
    BY <1>1, <2>1 DEF DiskInv, ToApplyInv, Answered
<1> QED
  BY <1>5, <1>6, <1>7 DEF DiskInv

\* The commit goroutine, Close, and writers inside Append.
LEMMA DiskLogStep ==
    ASSUME LogP!CutOnce, LogP!LogInv, LogP!DurableInv, StoreInv, DiskInv, LogStep
    PROVE  DiskInv'
<1> USE DEF Log!queueVars, Log!fileVars, Log!writerVars, Log!crashVars, Log!batchVars
<1>0. LogFacts /\ synced \in Nat /\ written \in Nat /\ file \in Seq(FileEntry)
      /\ synced <= Len(file) /\ Len(file) \in Nat
  BY LogIs DEF LogFacts
<1>a. UNCHANGED <<stage, applyMu, pending, nextApplySeq, data, epoch, replayed>>
  BY <1>0, LogStepIs
<1>b. \A p \in pending : OnDisk(p.seq, p.record)
  BY DEF DiskInv, ToApplyInv
<1>1. ASSUME NEW w \in Writer, Log!TakeNumber(w) PROVE DiskInv'
  <2>1. /\ pc[w] = "lock" /\ req' = [req EXCEPT ![w].seq = nextSeq + 1]
        /\ UNCHANGED <<done, server, file, synced, batch, written>>
    BY <1>1 DEF Log!TakeNumber
  <2>2. done[w] # "ok" /\ stage[w] = "append"
    BY <1>0, <2>1 DEF LogFacts, StoreInv, StageInv
  <2>3. \A v \in Writer : Answered(v)' => Answered(v) /\ req'[v] = req[v]
    BY <1>0, <1>a, <2>1, <2>2 DEF Answered, LogFacts
  <2> QED
    BY <1>0, <1>a, <1>b, <2>1, <2>3, DiskKept
<1>2. ASSUME NEW w \in Writer, Log!Send(w) PROVE DiskInv'
  <2>1. UNCHANGED <<req, done, server, file, synced, batch, written>>
    BY <1>2 DEF Log!Send
  <2>2. \A v \in Writer : Answered(v)' => Answered(v) /\ req'[v] = req[v]
    BY <1>a, <2>1 DEF Answered
  <2> QED
    BY <1>0, <1>a, <1>b, <2>1, <2>2, DiskKept
<1>3. CASE \/ Log!TakeFirst \/ Log!Collect \/ Log!StopCollecting \/ Log!CollectZero
           \/ Log!Count \/ Log!Exit \/ Log!Close \/ Log!CloseReturn \/ Log!OpenFails
  <2>1. /\ UNCHANGED <<req, done, file, synced>>
        /\ server' = server \/ (server # "running" /\ server' # "running")
        /\ written' = 0 \/ UNCHANGED <<batch, written>> \/ (committer # "writing" /\ written' = written)
    BY <1>3 DEF Log!TakeFirst, Log!Collect, Log!StopCollecting, Log!CollectZero,
       Log!Count, Log!Exit, Log!Close, Log!CloseReturn, Log!OpenFails
  <2>2. written' = 0 \/ UNCHANGED <<batch, written>>
    BY <2>1 DEF LogP!LogInv, LogP!BatchInv
  <2>3. \A v \in Writer : Answered(v)' => Answered(v) /\ req'[v] = req[v]
    BY <1>a, <2>1 DEF Answered
  <2>4. \A j \in 1 .. written' : j \in 1 .. written /\ batch'[j] = batch[j]
    BY <2>2
  <2> QED
    BY <1>0, <1>a, <1>b, <2>1, <2>3, <2>4, DiskKept
<1>4. CASE Log!WriteFails \/ Log!SyncFails
  <2>1. /\ UNCHANGED <<req, server, file, synced>> /\ written' = 0
        /\ \A w \in Writer : done'[w] = "failed" \/ done'[w] = done[w]
    BY <1>4 DEF Log!WriteFails, Log!SyncFails, Log!Answer, Log!NextBatch, LogP!CutOnce
  <2>2. \A v \in Writer : Answered(v)' => Answered(v) /\ req'[v] = req[v]
    BY <1>a, <2>1 DEF Answered
  <2>3. \A j \in 1 .. written' : j \in 1 .. written /\ batch'[j] = batch[j]
    BY <2>1
  <2> QED
    BY <1>0, <1>a, <1>b, <2>1, <2>2, <2>3, DiskKept
<1>5. CASE Log!WriteRecord
  <2> DEFINE q == batch[written + 1]
             e == Log!EntryOf(q, "whole")
  <2>1. /\ written + 1 \in 1 .. Len(batch) /\ file' = Append(file, e)
        /\ written' = written + 1 /\ server = "running"
        /\ UNCHANGED <<req, done, server, synced, batch>>
    <3>1. batch \in Seq(Request) /\ written < Len(batch) /\ Len(batch) \in Nat
      BY <1>0, <1>5 DEF Log!WriteRecord, LogFacts
    <3> QED
      BY <1>0, <1>5, <3>1 DEF Log!WriteRecord, Log!Running
  <2>2. q.writer \in Writer /\ pc[q.writer] = "wait" /\ req[q.writer] = q
    BY <1>0, <2>1 DEF LogFacts
  <2>3. q.epoch = epoch /\ q.seq >= 1 /\ q \in Request
    <3>1. req[q.writer].epoch = epoch /\ req[q.writer] \in Request
      BY <1>0, <2>2 DEF LogFacts
    <3>2. req[q.writer].seq \in 1 .. nextSeq
      BY <2>2 DEF StoreInv, NumberInv, Called
    <3> QED
      BY <1>0, <2>2, <3>1, <3>2 DEF LogFacts
  <2>4. e \in FileEntry /\ e.epoch = epoch /\ e.seq = q.seq /\ e.record = q.record
    BY <2>3 DEF Log!EntryOf, Request, FileEntry
  <2> HIDE DEF q, e
  <2>5. /\ Len(file') = Len(file) + 1 /\ file'[Len(file) + 1] = e
        /\ \A k \in 1 .. Len(file) : file'[k] = file[k]
    BY <1>0, <2>1, <2>4
  <2>6. \A k \in 1 .. Len(file') : k \in 1 .. Len(file) \/ k = Len(file) + 1
    BY <1>0, <2>5
  <2>a. Old' = Old
    <3>1. e.cut = "whole"
      BY DEF e, Log!EntryOf
    <3>2. \A k \in 1 .. Len(file) : k \in 1 .. Len(file')
      BY <1>0, <2>5
    <3>3. HasCut' <=> HasCut
      BY <2>5, <2>6, <3>1, <3>2 DEF HasCut
    <3> QED
      BY <1>a, <3>3 DEF Old
  <2>7. RunsInv'
    <3>1. Old <= synced /\ Old \in Nat
      BY <1>0, <2>1, OldType DEF DiskInv, RunsInv
    <3>2. Len(file) + 1 > Old
      BY <1>0, <3>1
    <3>3. \A k \in 1 .. Len(file') : file'[k].seq >= 1
      BY <2>3, <2>4, <2>5, <2>6 DEF DiskInv, RunsInv
    <3>4. \A k \in 1 .. Len(file') : k > Old <=> file'[k].epoch = epoch
      BY <2>1, <2>4, <2>5, <2>6, <3>2 DEF DiskInv, RunsInv
    <3> QED
      BY <1>a, <2>1, <2>a, <3>1, <3>3, <3>4 DEF RunsInv
  <2>8. ShownInv'
    <3>1. \A n \in 1 .. nextApplySeq - 1 :
             Old + n <= synced /\ file'[Old + n].seq = n
      <4> SUFFICES ASSUME NEW n \in 1 .. nextApplySeq - 1
                   PROVE  /\ Old + n <= synced
                          /\ file'[Old + n].seq = n
        OBVIOUS
      <4>1. Old + n <= synced /\ file[Old + n].seq = n
        BY <2>1 DEF DiskInv, ShownInv
      <4>2. nextApplySeq \in Nat /\ Old \in Nat
        BY <1>0, OldType DEF LogFacts, StoreInv, StoreTypes
      <4>3. Old + n \in 1 .. Len(file)
        BY <1>0, <4>1, <4>2
      <4> QED
        BY <2>5, <4>1, <4>3
    <3> QED
      BY <1>a, <2>1, <2>a, <3>1 DEF ShownInv
  <2>9. \A n, r : OnDisk(n, r) => OnDisk(n, r)'
    <3>1. \A k \in 1 .. synced : k \in 1 .. Len(file)
      BY <1>0
    <3>2. \A k \in 1 .. synced : file'[k] = file[k]
      BY <2>5, <3>1
    <3> QED
      BY <1>0, <1>a, <2>1, <3>2, OnDiskKept
  <2>10. ToApplyInv'
    BY <1>a, <2>1, <2>9 DEF DiskInv, ToApplyInv, Answered
  <2>11. WrittenInv'
    <3> SUFFICES ASSUME NEW j \in 1 .. written'
                 PROVE  \E k \in 1 .. Len(file') :
                           /\ file'[k].epoch = epoch /\ file'[k].seq = batch[j].seq
                           /\ file'[k].record = batch[j].record
      BY <1>a, <2>1 DEF WrittenInv, EntryIs
    <3>1. CASE j \in 1 .. written
      <4>1. PICK k \in 1 .. Len(file) : EntryIs(k, batch[j].seq, batch[j].record)
        BY <3>1 DEF DiskInv, WrittenInv
      <4>2. k \in 1 .. Len(file')
        BY <1>0, <2>5
      <4> QED
        BY <2>5, <4>1, <4>2 DEF EntryIs
    <3>2. CASE j = written + 1
      <4>1. Len(file) + 1 \in 1 .. Len(file')
        BY <1>0, <2>5
      <4> QED
        BY <2>4, <2>5, <3>2, <4>1 DEF q
    <3> QED
      BY <1>0, <2>1, <3>1, <3>2
  <2> QED
    BY <2>7, <2>8, <2>10, <2>11 DEF DiskInv
<1>6. CASE Log!Sync
  <2>1. /\ written = Len(batch) /\ synced' = Len(file) /\ written' = 0
        /\ Answers("ok") /\ UNCHANGED <<req, server, file>> /\ server = "running"
    <3>1. DOMAIN batch = 1 .. Len(batch)
      BY <1>0 DEF LogFacts
    <3> QED
      BY <1>6, <3>1 DEF Log!Sync, Log!MakeDurable, Log!NextBatch, Log!Answer, Log!Elems,
         Answers, Log!Running
  <2>2. \A n, r : OnDisk(n, r) => OnDisk(n, r)'
    BY <1>0, <1>a, <2>1, OnDiskKept
  <2>a. Old' = Old
    BY <1>a, <2>1 DEF Old, HasCut
  <2>3. RunsInv'
    <3>1. Old <= synced /\ Old \in Nat
      BY <1>0, <2>1, OldType DEF DiskInv, RunsInv
    <3>2. Old <= synced'
      BY <1>0, <2>1, <3>1
    <3> QED
      BY <1>a, <2>1, <2>a, <3>2 DEF DiskInv, RunsInv
  <2>4. ShownInv'
    <3> SUFFICES ASSUME NEW n \in 1 .. nextApplySeq - 1
                 PROVE  /\ Old + n <= synced'
                        /\ file[Old + n].seq = n
      BY <1>a, <2>1, <2>a DEF ShownInv
    <3>1. Old + n <= synced /\ file[Old + n].seq = n
      BY <2>1 DEF DiskInv, ShownInv
    <3>2. nextApplySeq \in Nat /\ Old \in Nat
      BY <1>0, OldType DEF LogFacts, StoreInv, StoreTypes
    <3> QED
      BY <1>0, <2>1, <3>1, <3>2
  <2>5. ASSUME NEW w \in Writer, done'[w] = "ok", done[w] # "ok"
        PROVE  OnDisk(req[w].seq, req[w].record)'
    <3>1. PICK j \in 1 .. Len(batch) : batch[j].writer = w
      BY <2>1, <2>5 DEF Answers
    <3>2. req[w] = batch[j]
      BY <1>0, <3>1 DEF LogFacts
    <3>3. PICK k \in 1 .. Len(file) : EntryIs(k, batch[j].seq, batch[j].record)
      BY <2>1, <3>1 DEF DiskInv, WrittenInv
    <3> QED
      BY <1>a, <2>1, <3>2, <3>3 DEF OnDisk, EntryIs
  <2>6. ToApplyInv'
    <3>1. ASSUME NEW w \in Writer, Answered(w)'
          PROVE  OnDisk(req[w].seq, req[w].record)'
      <4>1. CASE Answered(w)
        <5>1. OnDisk(req[w].seq, req[w].record)
          BY <4>1 DEF DiskInv, ToApplyInv
        <5> QED
          BY <2>1, <2>2, <5>1
      <4>2. CASE ~Answered(w)
        BY <1>a, <2>5, <3>1, <4>2 DEF Answered
      <4> QED
        BY <4>1, <4>2
    <3> QED
      BY <1>a, <2>1, <2>2, <3>1 DEF DiskInv, ToApplyInv
  <2>7. WrittenInv'
    BY <2>1 DEF WrittenInv
  <2> QED
    BY <2>3, <2>4, <2>6, <2>7 DEF DiskInv
<1> QED
  BY <1>1, <1>2, <1>3, <1>4, <1>5, <1>6 DEF LogStep, Log!Commit

LEMMA DiskCrash ==
    ASSUME LogP!LogInv, StoreInv, DiskInv, Crash
    PROVE  DiskInv' /\ (\A k \in 1 .. synced : file'[k] = file[k]) /\ synced <= synced'
<1>1. /\ file' \in Seq(LogP!Entry) /\ Len(file') <= Len(file) /\ synced' = Len(file')
      /\ \A k \in 1 .. Len(file') : LogP!Id(file'[k]) = LogP!Id(file[k])
      /\ \A k \in 1 .. synced : k <= Len(file') /\ file'[k] = file[k]
  <2>1. LogP!Crash
    BY LogOthers DEF Crash
  <2> QED
    BY <2>1, LogAssumed, LogP!CrashType
    DEF LogP!LogInv, LogP!Crash, LogP!WALAssumption
<1>2. /\ server' = "down" /\ epoch' = epoch + 1 /\ written' = 0 /\ pending' = {}
      /\ done' = [w \in Writer |-> None] /\ stage' = [w \in Writer |-> "idle"]
  BY DEF Crash, Log!Crash
<1>3. /\ Len(file') \in Nat /\ Len(file) \in Nat /\ synced \in Nat /\ epoch \in Nat
      /\ None # "ok" /\ file \in Seq(FileEntry)
  BY <1>1, LogIs, LogAssumed DEF LogFacts, LogP!WALAssumption
<1>4. \A k \in 1 .. Len(file') :
         /\ k \in 1 .. Len(file)
         /\ file'[k].epoch = file[k].epoch /\ file'[k].seq = file[k].seq
  BY <1>1, <1>3 DEF LogP!Id
<1>5. RunsInv'
  <2>1. \A k \in 1 .. Len(file) : file[k].epoch <= epoch /\ file[k].epoch \in Nat
    <3>1. \A k \in 1 .. Len(file) : file[k] \in FileEntry /\ file[k] \in LogP!Elems(file)
      BY <1>3 DEF LogP!Elems
    <3> QED
      BY <3>1 DEF LogP!LogInv, LogP!OrderInv, FileEntry
  <2>2. \A k \in 1 .. Len(file') : file'[k].epoch # epoch + 1
    BY <1>1, <1>3, <1>4, <2>1
  <2>3. \A k \in 1 .. Len(file') : file'[k].seq >= 1
    BY <1>1, <1>4 DEF DiskInv, RunsInv
  <2> QED
    BY <1>1, <1>2, <2>2, <2>3 DEF RunsInv
<1>6. ShownInv' /\ ToApplyInv' /\ WrittenInv'
  BY <1>2, <1>3 DEF ShownInv, ToApplyInv, WrittenInv, Answered
<1>7. synced <= Len(file')
  <2>1. CASE synced = 0
    BY <1>3, <2>1
  <2>2. CASE synced # 0
    <3>1. synced \in 1 .. synced
      BY <1>3, <2>2
    <3> QED
      BY <1>1, <3>1
  <2> QED
    BY <2>1, <2>2
<1> QED
  BY <1>1, <1>5, <1>6, <1>7 DEF DiskInv

\* Replay reads the file up to its end, or to a cut record there.
LEMMA DiskNew ==
    ASSUME LogP!LogInv, LogP!DurableInv, StoreInv, DiskInv, New
    PROVE  /\ DiskInv' /\ synced = Len(file) /\ UNCHANGED <<file, synced>>
           /\ Len(replayed') = IF HasCut THEN Len(file) - 1 ELSE Len(file)
           /\ DOMAIN replayed' = 1 .. Len(replayed')
           /\ \A k \in 1 .. Len(replayed') : replayed'[k] = file[k]
<1>0. LogFacts /\ file \in Seq(FileEntry) /\ Len(file) \in Nat /\ DOMAIN file = 1 .. Len(file)
  BY LogIs DEF LogFacts
<1>1. /\ server = "down" /\ server' = "running" /\ nextApplySeq' = 1
      /\ UNCHANGED <<stage, done, req, pending, file, synced, epoch, batch, written>>
  BY DEF New, Log!Open, FirstSeq, Log!writerVars, Log!fileVars, Log!batchVars
<1>2. synced = Len(file) /\ \A k \in 1 .. Len(file) : file[k].epoch # epoch
  BY <1>1 DEF DiskInv, RunsInv
<1> DEFINE n == LogP!Readable(file)
<1>3. /\ replayed' = SubSeq(file, 1, n) /\ n \in 0 .. Len(file)
      /\ \A k \in 1 .. n : file[k].cut = "whole"
      /\ n < Len(file) => file[n + 1].cut # "whole"
  <2>1. LogP!Open
    BY LogOthers DEF New
  <2>2. file \in Seq(LogP!Entry)
    BY DEF LogP!LogInv, LogP!TypeInv, LogP!TypeOK
  <2>3. /\ LogP!Readable(file) \in 0 .. Len(file)
        /\ \A k \in 1 .. LogP!Readable(file) : file[k].cut = "whole"
        /\ LogP!Readable(file) < Len(file) => file[LogP!Readable(file) + 1].cut # "whole"
    BY <2>2, LogAssumed, LogP!ReadableType DEF LogP!WALAssumption
  <2> QED
    BY <2>1, <2>3 DEF LogP!Open
<1> HIDE DEF n
<1>4. \A k \in 1 .. Len(file) : file[k].cut # "whole" => k = Len(file)
  BY <1>1 DEF LogP!DurableInv, LogP!CutInv, LogP!CutAt
<1>5. (HasCut => n = Len(file) - 1) /\ (~HasCut => n = Len(file))
  <2>1. n < Len(file) => n + 1 \in 1 .. Len(file)
    BY <1>0, <1>3
  <2>0. n \in Nat /\ Len(file) \in Nat
    BY <1>0, <1>3
  <2>2. CASE n < Len(file)
    <3>1. HasCut /\ n + 1 = Len(file)
      BY <1>3, <1>4, <2>1, <2>2 DEF HasCut
    <3>2. n = Len(file) - 1
      BY <2>0, <3>1
    <3> QED
      BY <3>1, <3>2
  <2>3. CASE n = Len(file)
    BY <1>3, <2>3 DEF HasCut
  <2>4. n < Len(file) \/ n = Len(file)
    BY <1>0, <1>3
  <2> QED
    BY <2>2, <2>3, <2>4
<1>6. /\ Len(replayed') = n /\ DOMAIN replayed' = 1 .. n
      /\ \A k \in 1 .. n : replayed'[k] = file[k]
  BY <1>0, <1>3
<1>7. Old' = Len(file)
  <2>1. HasCut' <=> HasCut
    BY <1>1 DEF HasCut
  <2>2. Old' = n + (IF HasCut THEN 1 ELSE 0)
    BY <1>6, <2>1 DEF Old
  <2>3. CASE HasCut
    BY <1>0, <1>5, <2>2, <2>3
  <2>4. CASE ~HasCut
    BY <1>0, <1>5, <2>2, <2>4
  <2> QED
    BY <2>3, <2>4
<1>8. RunsInv'
  <2>1. \A k \in 1 .. Len(file) : ~(k > Len(file))
    BY <1>0
  <2> QED
    BY <1>0, <1>1, <1>2, <1>7, <2>1 DEF DiskInv, RunsInv
<1>9. ShownInv' /\ ToApplyInv' /\ WrittenInv'
  BY <1>1 DEF DiskInv, ShownInv, ToApplyInv, WrittenInv, Answered, OnDisk, EntryIs
<1> QED
  BY <1>1, <1>2, <1>5, <1>6, <1>8, <1>9 DEF DiskInv

LEMMA DiskStep ==
    ASSUME LogP!CutOnce, LogP!LogInv, LogP!DurableInv, StoreInv, DiskInv, [Next]_vars
    PROVE  DiskInv'
<1>1. ASSUME NEW w \in Writer,
             (\E k \in Key : Delete(w, k) \/ \E v \in Value : Set(w, k, v))
      PROVE  DiskInv'
  <2>1. PICK r \in Record : Write(w, r)
    BY <1>1 DEF Delete, Set, Record
  <2> QED
    BY <2>1, DiskCalls
<1>2. CASE UNCHANGED vars
  BY <1>2 DEF vars, logVars, storeVars, DiskInv, RunsInv, ShownInv, ToApplyInv, WrittenInv,
     Answered, OnDisk, EntryIs, Old, HasCut
<1> QED
  BY <1>1, <1>2, DiskCalls, DiskApplyNext, DiskLogStep, DiskCrash, DiskNew DEF Next

LEMMA DiskInvariant ==
    ASSUME LogP!CutOnce
    PROVE  Spec => [](LogP!LogInv /\ LogP!DurableInv /\ StoreInv /\ DiskInv)
<1>1. Init => LogP!LogInv /\ LogP!DurableInv /\ StoreInv /\ DiskInv
  BY LogInit, StoreInit, DiskInit
<1>2. LogP!LogInv /\ LogP!DurableInv /\ StoreInv /\ DiskInv /\ [Next]_vars
      => LogP!LogInv' /\ LogP!DurableInv' /\ StoreInv' /\ DiskInv'
  BY LogKept, LogDurable, StoreStep, DiskStep
<1> QED
  BY <1>1, <1>2, PTL DEF Spec

-----------------------------------------------------------------------------
(* The refinement of DurableMap.                                           *)

\* One entry at most is cut, at place c.
WholeBut(f, c) ==
    c \in Nat \ {0} /\ \A k \in 1 .. Len(f) : f[k].cut = "whole" <=> k # c

LEMMA SomeCut ==
    ASSUME NEW f \in Seq(FileEntry), NEW x,
           \A k \in 1 .. Len(f) : f[k].cut # "whole" => k = x
    PROVE  \E c : WholeBut(f, c)
<1>1. CASE \E k \in 1 .. Len(f) : f[k].cut # "whole"
  <2>1. PICK c \in 1 .. Len(f) : f[c].cut # "whole"
    BY <1>1
  <2>2. c \in Nat \ {0}
    OBVIOUS
  <2>3. \A k \in 1 .. Len(f) : f[k].cut = "whole" <=> k # c
    BY <2>1
  <2>4. WholeBut(f, c)
    BY <2>2, <2>3 DEF WholeBut
  <2> QED
    BY <2>4
<1>2. CASE \A k \in 1 .. Len(f) : f[k].cut = "whole"
  <2>1. Len(f) + 1 \in Nat \ {0} /\ \A k \in 1 .. Len(f) : k # Len(f) + 1
    OBVIOUS
  <2>2. WholeBut(f, Len(f) + 1)
    BY <1>2, <2>1 DEF WholeBut
  <2> QED
    BY <2>2
<1> QED
  BY <1>1, <1>2

\* How many whole entries are among the first n, and where the k-th stands.
Before(n, c) == IF c <= n THEN n - 1 ELSE n
Skip(k, c) == IF k < c THEN k ELSE k + 1

LEMMA BeforeGrows ==
    ASSUME NEW a \in Nat, NEW b \in Nat, a <= b, NEW c \in Nat \ {0}
    PROVE  Before(a, c) \in Nat /\ Before(b, c) \in Nat /\ Before(a, c) <= Before(b, c)
BY DEF Before

LEMMA RecordsAre ==
    ASSUME NEW f \in Seq(FileEntry), NEW n \in 0 .. Len(f), NEW c, WholeBut(f, c)
    PROVE  /\ RecordsOf(f, n) \in Seq(Record) /\ Len(RecordsOf(f, n)) = Before(n, c)
           /\ \A k \in 1 .. Before(n, c) : RecordsOf(f, n)[k] = f[Skip(k, c)].record
<1> DEFINE s == [k \in 1 .. n |-> f[k].record]
<1>1. n \in Nat /\ (\A k \in 1 .. n : k \in 1 .. Len(f)) /\ c \in Nat \ {0}
  BY DEF WholeBut
<1>2. \A k \in 1 .. n : f[k].record \in Record
  <2>1. \A k \in 1 .. Len(f) : f[k] \in FileEntry
    OBVIOUS
  <2> QED
    BY <1>1, <2>1 DEF FileEntry
<1>3. /\ s \in Seq(Record) /\ Len(s) = n /\ n \in 0 .. Len(s)
      /\ \A k \in 1 .. n : s[k] = f[k].record
  BY <1>1, <1>2
<1> DEFINE S == {k \in 1 .. n : f[k].cut = "whole"}
<1>4. S = (1 .. n) \ {c}
  BY <1>1 DEF WholeBut
<1>5. RecordsOf(f, n) = Only(s, S)
  BY DEF RecordsOf
<1> HIDE DEF s, S
<1>6. CASE c <= n
  <2>1. c \in 1 .. Len(s) /\ Before(n, c) = Len(s) - 1
    BY <1>1, <1>3, <1>6 DEF Before
  <2>2. /\ Only(s, S) \in Seq(Record) /\ Len(Only(s, S)) = Len(s) - 1
        /\ \A k \in 1 .. Len(s) - 1 : Only(s, S)[k] = IF k < c THEN s[k] ELSE s[k + 1]
    BY <1>3, <1>4, <2>1, OnlyBut
  <2>3. ASSUME NEW k \in 1 .. Before(n, c)
        PROVE  Only(s, S)[k] = f[Skip(k, c)].record
    <3>1. Only(s, S)[k] = s[Skip(k, c)]
      BY <2>1, <2>2 DEF Skip
    <3>2. Skip(k, c) \in 1 .. n
      BY <1>1, <1>3, <2>1 DEF Skip
    <3> QED
      BY <1>3, <3>1, <3>2
  <2> QED
    BY <1>5, <2>1, <2>2, <2>3
<1>7. CASE ~(c <= n)
  <2>1. S = 1 .. n /\ Before(n, c) = n
    BY <1>1, <1>4, <1>7 DEF Before
  <2>2. /\ Only(s, S) \in Seq(Record) /\ Len(Only(s, S)) = n
        /\ \A k \in 1 .. n : Only(s, S)[k] = s[k]
    BY <1>3, <2>1, OnlyPrefix
  <2>3. \A k \in 1 .. n : Skip(k, c) = k
    BY <1>1, <1>7 DEF Skip
  <2> QED
    BY <1>3, <1>5, <2>1, <2>2, <2>3
<1> QED
  BY <1>6, <1>7

\* They depend on the first n entries only.
LEMMA RecordsDepend ==
    ASSUME NEW f, NEW g, NEW n, \A k \in 1 .. n : f[k] = g[k]
    PROVE  RecordsOf(f, n) = RecordsOf(g, n)
<1>1. [k \in 1 .. n |-> f[k].record] = [k \in 1 .. n |-> g[k].record]
  OBVIOUS
<1>2. {k \in 1 .. n : f[k].cut = "whole"} = {k \in 1 .. n : g[k].cut = "whole"}
  OBVIOUS
<1> QED
  BY <1>1, <1>2 DEF RecordsOf

\* What is durable stays: the journal is the same or longer.
LEMMA JournalKept ==
    ASSUME LogP!LogInv, LogP!LogInv', LogP!DurableInv',
           synced <= synced', \A k \in 1 .. synced : file'[k] = file[k],
           UNCHANGED <<replayed, nextApplySeq, data>>
    PROVE  [Abstract!Next]_(Abstract!vars)
<1> DEFINE J == RecordsOf(file, synced)
           K == RecordsOf(file', synced')
<1>1. /\ synced \in Nat /\ synced' \in Nat
      /\ file' \in Seq(FileEntry) /\ synced' \in 0 .. Len(file') /\ synced \in 0 .. Len(file')
  BY LogIs, LogIsNext DEF LogFacts
<1>2. PICK c : WholeBut(file', c)
  <2>1. \A k \in 1 .. Len(file') : file'[k].cut # "whole" => k = LogP!CutAt'
    BY DEF LogP!DurableInv, LogP!CutInv
  <2> QED
    BY <1>1, <2>1, SomeCut
<1>3. J = RecordsOf(file', synced)
  BY RecordsDepend
<1>4. /\ J \in Seq(Record) /\ Len(J) = Before(synced, c)
      /\ \A k \in 1 .. Before(synced, c) : J[k] = file'[Skip(k, c)].record
  BY <1>1, <1>2, <1>3, RecordsAre
<1>5. /\ K \in Seq(Record) /\ Len(K) = Before(synced', c)
      /\ \A k \in 1 .. Before(synced', c) : K[k] = file'[Skip(k, c)].record
  BY <1>1, <1>2, RecordsAre
<1> HIDE DEF J, K
<1>6. /\ J \in Seq(Record) /\ K \in Seq(Record)
      /\ Len(J) \in Nat /\ Len(K) \in Nat /\ Len(J) <= Len(K)
  <2>1. c \in Nat \ {0}
    BY <1>2 DEF WholeBut
  <2>2. /\ Before(synced, c) \in Nat /\ Before(synced', c) \in Nat
        /\ Before(synced, c) <= Before(synced', c)
    BY <1>1, <2>1, BeforeGrows
  <2> QED
    BY <1>4, <1>5, <2>2
<1>7. \A k \in 1 .. Len(J) : K[k] = J[k]
  <2>1. \A k \in 1 .. Len(J) : k \in 1 .. Len(K)
    BY <1>6
  <2> QED
    BY <1>4, <1>5, <2>1
<1>8. Abstract!Extends(K, J)
  <2>1. SubSeq(K, 1, Len(J)) \in Seq(Record) /\ Len(SubSeq(K, 1, Len(J))) = Len(J)
    BY <1>6
  <2>2. \A k \in 1 .. Len(J) : SubSeq(K, 1, Len(J))[k] = J[k]
    BY <1>6, <1>7
  <2>3. SubSeq(K, 1, Len(J)) = J
    BY <1>6, <2>1, <2>2
  <2> QED
    BY <1>6, <2>3 DEF Abstract!Extends
<1> QED
  BY <1>8 DEF Abstract!Next, Abstract!Persist, Abstract!vars, J, K

\* The writes of the file are brought into the map in their order.
LEMMA ShowsNext ==
    ASSUME LogP!LogInv, LogP!DurableInv, StoreInv, DiskInv,
           NEW w \in Writer, ApplyNext(w)
    PROVE  Abstract!Show
<1> DEFINE J == RecordsOf(file, synced)
           m == Len(replayed) + nextApplySeq
<1>1. PICK p \in pending :
         /\ stage[w] = "applying" /\ p.seq = nextApplySeq
         /\ data' = [data EXCEPT ![p.record.key] = p.record.value]
         /\ nextApplySeq' = nextApplySeq + 1 /\ UNCHANGED <<file, synced, replayed>>
  BY DEF ApplyNext, InTurn, logVars
<1>2. server = "running"
  BY <1>1 DEF StoreInv, StageInv
<1>3. PICK k \in 1 .. synced : EntryIs(k, p.seq, p.record)
  BY DEF DiskInv, ToApplyInv, OnDisk
<1>4. k = Old + nextApplySeq /\ file[k].record = p.record
  BY <1>1, <1>2, <1>3, AtItsPlace DEF EntryIs
<1>5. /\ file \in Seq(FileEntry) /\ synced \in 0 .. Len(file) /\ synced \in Nat
      /\ Len(replayed) \in Nat /\ nextApplySeq \in Nat \ {0} /\ k \in 1 .. Len(file)
  BY LogIs DEF LogFacts, StoreInv, StoreTypes
<1>6. \A j \in 1 .. Len(file) : file[j].cut # "whole" => j = Len(replayed) + 1
  BY <1>2 DEF LogP!DurableInv, LogP!CutInv, LogP!CutAt
<1>7. PICK c : WholeBut(file, c)
  BY <1>5, <1>6, SomeCut
<1>8. /\ J \in Seq(Record) /\ Len(J) = Before(synced, c)
      /\ \A j \in 1 .. Before(synced, c) : J[j] = file[Skip(j, c)].record
  BY <1>5, <1>7, RecordsAre
<1>9. RecordsOf(file', synced') = J
  BY <1>1
<1> HIDE DEF J, m
<1>10. m \in 1 .. Before(synced, c) /\ Skip(m, c) = k
  <2>1. CASE HasCut
    <3>1. c = Len(replayed) + 1
      BY <1>6, <1>7, <2>1 DEF HasCut, WholeBut
    <3>2. k = Len(replayed) + 1 + nextApplySeq
      BY <1>4, <2>1, <1>5 DEF Old
    <3>3. k <= synced
      BY <1>5
    <3> QED
      BY <1>5, <3>1, <3>2, <3>3 DEF m, Before, Skip
  <2>2. CASE ~HasCut
    <3>1. c \in Nat /\ c > Len(file)
      <4>1. c \notin 1 .. Len(file)
        BY <1>7, <2>2 DEF HasCut, WholeBut
      <4> QED
        BY <1>5, <1>7, <4>1 DEF WholeBut
    <3>2. k = m
      BY <1>4, <1>5, <2>2 DEF Old, m
    <3>3. k <= synced
      BY <1>5
    <3> QED
      BY <1>5, <3>1, <3>2, <3>3 DEF Before, Skip
  <2> QED
    BY <2>1, <2>2
<1>11. J[m] = p.record /\ m <= Len(J) /\ m \in Nat /\ Len(J) \in Nat
  BY <1>4, <1>8, <1>10
<1>12. /\ Len(replayed) + nextApplySeq - 1 < Len(J)
       /\ Len(replayed) + nextApplySeq - 1 + 1 = m
       /\ Len(replayed') + nextApplySeq' - 1 = Len(replayed) + nextApplySeq - 1 + 1
  BY <1>1, <1>5, <1>11 DEF m
<1>13. data' = Abstract!Applied(data, J[Len(replayed) + nextApplySeq - 1 + 1])
  BY <1>1, <1>11, <1>12 DEF Abstract!Applied
<1> QED
  BY <1>9, <1>12, <1>13 DEF Abstract!Show, J

\* Replay brings all of them back.
LEMMA Recovers ==
    ASSUME LogP!LogInv, LogP!DurableInv, StoreInv, DiskInv, New
    PROVE  Abstract!Recover
<1> DEFINE n == Len(replayed')
           J == RecordsOf(file, synced)
<1>1. /\ synced = Len(file) /\ UNCHANGED <<file, synced>> /\ DOMAIN replayed' = 1 .. n
      /\ n = IF HasCut THEN Len(file) - 1 ELSE Len(file)
      /\ \A k \in 1 .. n : replayed'[k] = file[k]
  BY DiskNew
<1>2. /\ server = "down" /\ nextApplySeq' = 1
      /\ data' = Abstract!MapOf([k \in 1 .. n |-> replayed'[k].record])
  BY <1>1 DEF New, Log!Open, FirstSeq
<1>3. file \in Seq(FileEntry) /\ Len(file) \in Nat /\ synced \in 0 .. Len(file)
  BY <1>1, LogIs DEF LogFacts
<1>4. \A j \in 1 .. Len(file) : file[j].cut # "whole" => j = Len(file)
  BY <1>2 DEF LogP!DurableInv, LogP!CutInv, LogP!CutAt
<1>5. PICK c : WholeBut(file, c)
  BY <1>3, <1>4, SomeCut
<1>6. /\ J \in Seq(Record) /\ Len(J) = Before(synced, c)
      /\ \A j \in 1 .. Before(synced, c) : J[j] = file[Skip(j, c)].record
  BY <1>3, <1>5, RecordsAre
<1> HIDE DEF J, n
<1>7. n \in Nat /\ Before(synced, c) = n /\ \A j \in 1 .. n : Skip(j, c) = j
  <2>1. CASE HasCut
    <3>1. c = Len(file) /\ c \in Nat \ {0}
      BY <1>4, <1>5, <2>1 DEF HasCut, WholeBut
    <3>2. n = Len(file) - 1
      BY <1>1, <2>1
    <3> QED
      BY <1>1, <1>3, <3>1, <3>2 DEF Before, Skip
  <2>2. CASE ~HasCut
    <3>1. c \in Nat /\ c > Len(file)
      <4>1. c \notin 1 .. Len(file)
        BY <1>5, <2>2 DEF HasCut, WholeBut
      <4> QED
        BY <1>3, <1>5, <4>1 DEF WholeBut
    <3>2. n = Len(file)
      BY <1>1, <2>2
    <3> QED
      BY <1>1, <1>3, <3>1, <3>2 DEF Before, Skip
  <2> QED
    BY <2>1, <2>2
<1>8. [k \in 1 .. n |-> replayed'[k].record] = J
  <2>1. J = [k \in 1 .. n |-> J[k]]
    BY <1>6, <1>7
  <2>2. \A k \in 1 .. n : replayed'[k].record = J[k]
    BY <1>1, <1>6, <1>7
  <2>3. [k \in 1 .. n |-> replayed'[k].record] = [k \in 1 .. n |-> J[k]]
    BY <2>2
  <2> QED
    BY <2>1, <2>3
<1>9. Len(replayed') + nextApplySeq' - 1 = Len(J)
  BY <1>2, <1>6, <1>7 DEF n
<1>10. RecordsOf(file', synced') = J
  BY <1>1 DEF J
<1> QED
  BY <1>2, <1>8, <1>9, <1>10 DEF Abstract!Recover, J

\* The steps of the log that the store has no part in add to the file at
\* most, and sync it.
LEMMA LogStepFile ==
    ASSUME LogP!CutOnce, LogFacts, LogStep
    PROVE  /\ synced <= synced' /\ \A k \in 1 .. synced : file'[k] = file[k]
           /\ UNCHANGED <<replayed, nextApplySeq, data>>
<1> USE DEF Log!queueVars, Log!fileVars, Log!writerVars, Log!crashVars, Log!batchVars
<1>1. /\ file \in Seq(FileEntry) /\ synced \in 0 .. Len(file) /\ Len(file) \in Nat
      /\ synced \in Nat
  BY DEF LogFacts
<1>2. UNCHANGED <<replayed, nextApplySeq, data>>
  BY LogStepIs
<1>3. CASE Log!WriteRecord
  <2> DEFINE e == Log!EntryOf(batch[written + 1], "whole")
  <2>1. file' = Append(file, e) /\ synced' = synced
    BY <1>3 DEF Log!WriteRecord
  <2> HIDE DEF e
  <2>2. \A k \in 1 .. Len(file) : Append(file, e)[k] = file[k]
    BY <1>1
  <2>3. \A k \in 1 .. synced : k \in 1 .. Len(file)
    BY <1>1
  <2> QED
    BY <1>1, <1>2, <2>1, <2>2, <2>3
<1>4. CASE Log!Sync
  BY <1>1, <1>2, <1>4 DEF Log!Sync, Log!MakeDurable
<1>5. CASE ~Log!WriteRecord /\ ~Log!Sync
  <2>1. ASSUME NEW w \in Writer, Log!TakeNumber(w) \/ Log!Send(w)
        PROVE  UNCHANGED <<file, synced>>
    BY <2>1 DEF Log!TakeNumber, Log!Send
  <2>2. UNCHANGED <<file, synced>>
    BY <1>5, <2>1 DEF LogStep, Log!Commit, Log!TakeFirst, Log!Collect, Log!StopCollecting,
       Log!CollectZero, Log!Count, Log!WriteFails, Log!SyncFails, Log!Exit, Log!Close,
       Log!CloseReturn, Log!OpenFails, LogP!CutOnce
  <2> QED
    BY <1>1, <1>2, <2>2
<1> QED
  BY <1>3, <1>4, <1>5

LEMMA MapsSteps ==
    ASSUME LogP!CutOnce, LogP!LogInv, LogP!LogInv', LogP!DurableInv, LogP!DurableInv',
           StoreInv, DiskInv, [Next]_vars
    PROVE  [Abstract!Next]_(Abstract!vars)
<1>1. LogFacts /\ synced \in Nat
  <2>1. LogFacts
    BY LogIs
  <2> QED
    BY <2>1, SyncedType
<1>2. ASSUME UNCHANGED <<file, synced, replayed, nextApplySeq, data>>
      PROVE  [Abstract!Next]_(Abstract!vars)
  BY <1>2 DEF Abstract!vars
<1>3. ASSUME NEW w \in Writer,
             \/ \E k \in Key : Delete(w, k) \/ \E v \in Value : Set(w, k, v)
             \/ Appended(w) \/ Refused(w)
      PROVE  [Abstract!Next]_(Abstract!vars)
  BY <1>2, <1>3 DEF Delete, Set, Write, Appended, Refused, Log!CallAppend, Log!Return,
     Log!Refuse, Log!fileVars, Log!crashVars
<1>4. ASSUME NEW w \in Writer, ApplyLock(w) \/ ApplyUnlock(w)
      PROVE  [Abstract!Next]_(Abstract!vars)
  BY <1>2, <1>4 DEF ApplyLock, ApplyUnlock, logVars
<1>5. ASSUME NEW w \in Writer, ApplyNext(w)
      PROVE  [Abstract!Next]_(Abstract!vars)
  BY <1>5, ShowsNext DEF Abstract!Next
<1>6. CASE LogStep
  BY <1>1, <1>6, LogStepFile, JournalKept
<1>7. CASE Crash
  <2>1. UNCHANGED <<replayed, nextApplySeq, data>>
    BY <1>7 DEF Crash, Log!Crash
  <2> QED
    BY <1>7, <2>1, DiskCrash, JournalKept
<1>8. CASE New
  BY <1>8, Recovers DEF Abstract!Next
<1>9. CASE UNCHANGED vars
  BY <1>2, <1>9 DEF vars, logVars, storeVars
<1> QED
  BY <1>3, <1>4, <1>5, <1>6, <1>7, <1>8, <1>9 DEF Next

LEMMA MapsInit == Init => Abstract!Init
<1> SUFFICES ASSUME Init PROVE Abstract!Init
  OBVIOUS
<1>1. /\ file = <<>> /\ synced = 0 /\ replayed = <<>> /\ nextApplySeq = 1
      /\ data = [k \in Key |-> None] /\ <<>> \in Seq(FileEntry) /\ Len(<<>>) = 0
  BY DEF Init, Log!Init
<1>2. RecordsOf(file, synced) \in Seq(Record) /\ Len(RecordsOf(file, synced)) = 0
  <2>1. /\ file \in Seq(FileEntry) /\ synced \in 0 .. Len(file)
        /\ WholeBut(file, 1) /\ Before(synced, 1) = 0
    BY <1>1 DEF WholeBut, Before
  <2>2. /\ RecordsOf(file, synced) \in Seq(Record)
        /\ Len(RecordsOf(file, synced)) = Before(synced, 1)
    BY <2>1, RecordsAre
  <2> QED
    BY <2>1, <2>2
<1>3. RecordsOf(file, synced) = <<>>
  BY <1>2
<1> QED
  BY <1>1, <1>3 DEF Abstract!Init

\* The store on its log is a durable map: it shows the durable writes one
\* after the other in their order, and a restart shows all of them.
THEOREM MapCorrect == ASSUME LogP!CutOnce PROVE Spec => ImplementsDurableMap
<1>1. LogP!LogInv /\ LogP!LogInv' /\ LogP!DurableInv /\ LogP!DurableInv' /\ StoreInv
      /\ DiskInv /\ [Next]_vars => [Abstract!Next]_(Abstract!vars)
  BY MapsSteps
<1> QED
  BY <1>1, MapsInit, DiskInvariant, PTL DEF Spec, ImplementsDurableMap, Abstract!Spec
================================================================================
