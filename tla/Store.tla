--------------------------------- MODULE Store ---------------------------------
(***************************************************************************)
(* The store (internal/store) on its write-ahead log: the map, and writers *)
(* that append their record to the log and then have applyOrdered bring it *)
(* into the map, in the order of the log's numbers.  WAL models the log;   *)
(* its steps are taken here together with what the caller does with them.  *)
(*                                                                         *)
(* applyOrdered holds applyMu throughout and takes s.mu for each record it *)
(* applies, so that a Get may come between two records.  A Get reads data  *)
(* and changes nothing; it has no action.                                  *)
(***************************************************************************)
EXTENDS Positions

CONSTANTS Writer, Key, Value, None, QueueCap, MayFail, MayClose,
          CrashTears, WriteTears, MaxSeq, MaxEpoch

VARIABLES
    mu, closed, nextSeq, queue, pc, req, done, committer, batch, written,
    closing, file, synced, server, epoch, replayed, acked,  \* of the log
    stage,         \* where each writer is in Set or Delete
    applyMu,       \* the writer that holds it
    pending, nextApplySeq, data   \* the fields of Store

\* A Delete's record has no value.
Record == [key : Key, value : Value \cup {None}]

Log == INSTANCE WAL

ASSUME StoreAssumption == None \notin Value /\ Log!WALAssumption

logVars == <<mu, closed, nextSeq, queue, pc, req, done, committer, batch, written,
             closing, file, synced, server, epoch, replayed, acked>>
storeVars == <<stage, applyMu, pending, nextApplySeq, data>>
vars == <<logVars, storeVars>>

\* The records that stand whole among the first n entries of file f.
RecordsOf(f, n) ==
    Only([k \in 1 .. n |-> f[k].record], {k \in 1 .. n : f[k].cut = "whole"})

\* What the store and its log implement: the journal is the synced part of
\* the file.
Abstract == INSTANCE DurableMap WITH
    journal <- RecordsOf(file, synced),
    shown   <- Len(replayed) + nextApplySeq - 1

-----------------------------------------------------------------------------
Init ==
    /\ Log!Init
    /\ stage = [w \in Writer |-> "idle"]
    /\ applyMu = None
    /\ pending = {} /\ nextApplySeq = 1
    /\ data = [k \in Key |-> None]

Write(w, r) ==
    /\ stage[w] = "idle"
    /\ Log!CallAppend(w, r)
    /\ stage' = [stage EXCEPT ![w] = "append"]
    /\ UNCHANGED <<applyMu, pending, nextApplySeq, data>>

Set(w, k, v) == Write(w, [key |-> k, value |-> v])

Delete(w, k) == Write(w, [key |-> k, value |-> None])

\* Append has returned: without an error, applyOrdered is next.
Appended(w) ==
    /\ Log!Return(w)
    /\ stage' = [stage EXCEPT ![w] = IF done[w] = "ok" THEN "apply" ELSE "idle"]
    /\ UNCHANGED <<applyMu, pending, nextApplySeq, data>>

Refused(w) ==
    /\ Log!Refuse(w)
    /\ stage' = [stage EXCEPT ![w] = "idle"]
    /\ UNCHANGED <<applyMu, pending, nextApplySeq, data>>

-----------------------------------------------------------------------------
(* applyOrdered.                                                           *)

Numbered(w) == [seq |-> req[w].seq, record |-> req[w].record]

\* Mutant of Keep: a record that is out of turn is not kept.
KeepIfInTurn(w) ==
    pending' = IF req[w].seq = nextApplySeq THEN {Numbered(w)} ELSE pending

Keep(w) == pending' = pending \cup {Numbered(w)}

ApplyLock(w) ==
    /\ stage[w] = "apply" /\ applyMu = None
    /\ applyMu' = w
    /\ Keep(w)
    /\ stage' = [stage EXCEPT ![w] = "applying"]
    /\ UNCHANGED <<logVars, nextApplySeq, data>>

\* Mutant of InTurn: the numbers are not compared.
AnyTurn == pending

\* The records whose turn it is (one at most).
InTurn == {p \in pending : p.seq = nextApplySeq}

ApplyNext(w) ==
    /\ stage[w] = "applying"
    /\ \E p \in InTurn :
          /\ data' = [data EXCEPT ![p.record.key] = p.record.value]
          /\ pending' = pending \ {p}
    /\ nextApplySeq' = nextApplySeq + 1
    /\ UNCHANGED <<logVars, stage, applyMu>>

\* The loop ends, and Set or Delete returns, whether the record of w was
\* applied or still waits for an earlier one.
ApplyUnlock(w) ==
    /\ stage[w] = "applying" /\ InTurn = {}
    /\ applyMu' = None
    /\ stage' = [stage EXCEPT ![w] = "idle"]
    /\ UNCHANGED <<logVars, pending, nextApplySeq, data>>

-----------------------------------------------------------------------------
\* The memory of the process is lost; data and nextApplySeq keep what nobody
\* can look at until New makes new ones.
Crash ==
    /\ Log!Crash
    /\ stage' = [w \in Writer |-> "idle"]
    /\ applyMu' = None
    /\ pending' = {}
    /\ UNCHANGED <<nextApplySeq, data>>

\* Mutant of FirstSeq: the numbers go on from where the file ends.
FileSeq == Len(file) + 1

\* The number Replay says the log begins with.
FirstSeq == 1

\* New: the map that the replayed records make.
New ==
    /\ Log!Open
    /\ data' = Abstract!MapOf([k \in DOMAIN replayed' |-> replayed'[k].record])
    /\ nextApplySeq' = FirstSeq
    /\ UNCHANGED <<stage, applyMu, pending>>

\* The steps of the log that the store has no part in.
LogStep ==
    /\ \/ \E w \in Writer : Log!TakeNumber(w) \/ Log!Send(w)
       \/ Log!Commit
       \/ Log!Close \/ Log!CloseReturn
       \/ Log!OpenFails
    /\ UNCHANGED storeVars

Next ==
    \/ \E w \in Writer :
          \/ \E k \in Key : Delete(w, k) \/ \E v \in Value : Set(w, k, v)
          \/ Appended(w) \/ Refused(w)
          \/ ApplyLock(w) \/ ApplyNext(w) \/ ApplyUnlock(w)
    \/ LogStep
    \/ Crash \/ New

Spec == Init /\ [][Next]_vars

-----------------------------------------------------------------------------
(* Properties.                                                             *)

\* Type correctness: the log's, the store's own fields, one holder of
\* applyMu, and no number pending that was applied already.
TypeOK ==
    /\ Log!TypeOK
    /\ stage \in [Writer -> {"idle", "append", "apply", "applying"}]
    /\ applyMu \in Writer \cup {None}
    /\ \A w \in Writer : (applyMu = w) <=> (stage[w] = "applying")
    /\ pending \subseteq [seq : 1..MaxSeq, record : Record]
    /\ nextApplySeq \in 1..(MaxSeq + 1)
    /\ \A p \in pending : p.seq >= nextApplySeq
    /\ data \in [Key -> Value \cup {None}]

\* The store implements DurableMap: the map always shows a prefix of the
\* durable records, in their order (store.go:92-119: "WAL-first"), and what
\* it showed before a crash it shows after it (store.go:29-43).
ImplementsDurableMap == Abstract!Spec

\* Whatever the order in which the writers reach applyOrdered, the last of
\* them leaves nothing behind: once no call of the store has a record to apply,
\* the map shows every record that was answered as durable with all before
\* it (store.go:92-119).  A batch that failed leaves a gap in the numbers, and
\* what comes after it waits for ever.
QuietIsApplied ==
    Log!Running /\ (\A w \in Writer : /\ stage[w] \in {"idle", "append"}
                                     /\ done[w] # "ok")
    => \A n \in 1..MaxSeq :
          (\A m \in 1..n : <<epoch, m>> \in acked) => nextApplySeq > n

\* What the log promises a store that is opened again after a crash; see WAL.
AckedIsReplayed == Log!AckedIsReplayed
===============================================================================
