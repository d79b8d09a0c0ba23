--------------------------------- MODULE WAL ---------------------------------
(***************************************************************************)
(* The write-ahead log (internal/wal): writers that append records through *)
(* a bounded queue, the commit goroutine that takes what is queued as one  *)
(* batch, writes it and syncs once, Close, and the crash and reopening of  *)
(* the process with the Replay of the file.                                *)
(*                                                                         *)
(* w.mu is held between steps only by a writer that waits for room in the  *)
(* queue; every other critical section is one step.  The file is a         *)
(* sequence of entries, one per record written, the first `synced' of them *)
(* on stable storage.                                                      *)
(***************************************************************************)
EXTENDS Integers, Sequences, FiniteSets

CONSTANTS
    Writer,    \* goroutines that call Append
    Record,    \* what they append
    None,      \* no value: the mutex is free, a done channel is empty
    QueueCap,  \* capacity of the queue (1024 in Open)
    MayFail,   \* whether a Write or a Sync of the file may fail
    MayClose,  \* whether Close may be called
    CrashTears, WriteTears,  \* where a record may be cut, by a crash that
               \* leaves a part of it and by a Write that fails
    MaxSeq,    \* bound: calls of Append between two crashes
    MaxEpoch   \* bound: crashes

ASSUME WALAssumption ==
    /\ IsFiniteSet(Writer)
    /\ None \notin Writer \cup {"ok", "failed"}
    /\ QueueCap \in Nat \ {0}
    /\ MayFail \in BOOLEAN
    /\ MayClose \in BOOLEAN
    /\ CrashTears \cup WriteTears \subseteq {"header", "body"}
    /\ MaxSeq \in Nat
    /\ MaxEpoch \in Nat

VARIABLES
    mu,         \* the writer that waits for room in the queue with w.mu held
    closed, nextSeq, queue,  \* the fields of WAL (closed: the queue as well)
    pc,         \* where each writer is in Append
    req,        \* its pendingWrite
    done,       \* what is in the done channel of its pendingWrite
    committer,  \* where the commit goroutine is
    batch, written,  \* its batch and how many records of it are written
    closing,    \* where Close is
    file, synced,
    server,     \* the process: running, down, or refused to start
    epoch,      \* history: crashes so far
    replayed,   \* what the last Replay returned
    acked       \* history: the requests answered with a nil error

writerVars == <<pc, req, done>>
queueVars  == <<mu, closed, nextSeq, queue>>
batchVars  == <<committer, batch, written>>
fileVars   == <<file, synced>>
crashVars  == <<server, epoch, replayed>>
vars == <<writerVars, queueVars, batchVars, closing, fileVars, crashVars, acked>>

-----------------------------------------------------------------------------
Request == [writer : Writer, epoch : Nat, seq : Nat, record : Record]

\* An entry of the file is a request's record, whole or cut short: in its
\* first four bytes, or later ("body").
Entry == [epoch : Nat, seq : Nat, record : Record,
          cut : {"whole", "header", "body"}]

EntryOf(q, cut) ==
    [epoch |-> q.epoch, seq |-> q.seq, record |-> q.record, cut |-> cut]

Id(e) == <<e.epoch, e.seq>>

Ids(S) == {Id(e) : e \in S}

Elems(s) == {s[k] : k \in DOMAIN s}

\* How many records Replay decodes before the file ends or is cut.
Readable(f) ==
    CHOOSE n \in 0..Len(f) :
        /\ \A k \in 1..n : f[k].cut = "whole"
        /\ n < Len(f) => f[n + 1].cut # "whole"

\* What follows them makes Replay return an error: a tail of at most four
\* bytes does (binary.Read's io.ErrUnexpectedEOF, or io.EOF from ReadFull),
\* and so may a cut record in the middle, whose length then covers bytes of
\* the records after it.
MayReject(f) ==
    LET n == Readable(f)
    IN  n < Len(f) /\ (f[n + 1].cut = "header" \/ n + 1 < Len(f))

\* Replay ends the log there without an error: at the end of the file, at a
\* tail that is shorter than its length says, or at a cut record in the
\* middle whose length reaches beyond the end.
MayAccept(f) ==
    LET n == Readable(f)
    IN  n < Len(f) => f[n + 1].cut = "body" \/ n + 1 < Len(f)

-----------------------------------------------------------------------------
Init ==
    /\ mu = None /\ closed = FALSE /\ nextSeq = 0 /\ queue = <<>>
    /\ pc   = [w \in Writer |-> "idle"]
    /\ req  = [w \in Writer |-> None]
    /\ done = [w \in Writer |-> None]
    /\ committer = "idle" /\ batch = <<>> /\ written = 0
    /\ closing = "no"
    /\ file = <<>> /\ synced = 0
    /\ server = "running" /\ epoch = 0 /\ replayed = <<>>
    /\ acked = {}

Running == server = "running"

-----------------------------------------------------------------------------
(* Append.                                                                 *)

\* The bound counts the calls that have not taken their number yet.
CallAppend(w, r) ==
    /\ Running /\ pc[w] = "idle"
    /\ nextSeq + Cardinality({v \in Writer : pc[v] = "lock"}) < MaxSeq
    /\ pc'  = [pc EXCEPT ![w] = "lock"]
    /\ req' = [req EXCEPT ![w] =
                  [writer |-> w, epoch |-> epoch, seq |-> 0, record |-> r]]
    /\ UNCHANGED <<done, queueVars, batchVars, closing, fileVars, crashVars,
                   acked>>

\* Mutant of IsOpen: closed is not looked at.
ClosedUnseen == TRUE

IsOpen == ~closed

\* Mutant of HoldLock: w.mu is released before the send.
LetLockGo(w) == UNCHANGED mu

HoldLock(w) == mu' = w

\* w.mu is taken; the mutex is kept until the request is in the queue, so
\* that requests are queued in the order of their numbers.
TakeNumber(w) ==
    /\ Running /\ pc[w] = "lock" /\ mu = None /\ IsOpen
    /\ HoldLock(w)
    /\ nextSeq' = nextSeq + 1
    /\ req' = [req EXCEPT ![w].seq = nextSeq + 1]
    /\ pc'  = [pc EXCEPT ![w] = "send"]
    /\ UNCHANGED <<done, closed, queue, batchVars, closing, fileVars,
                   crashVars, acked>>

\* The call of a closed WAL returns an error.
Refuse(w) ==
    /\ Running /\ pc[w] = "lock" /\ mu = None /\ ~IsOpen
    /\ pc' = [pc EXCEPT ![w] = "idle"]
    /\ UNCHANGED <<req, done, queueVars, batchVars, closing, fileVars,
                   crashVars, acked>>

\* The send blocks, with w.mu held, while the queue is full.
Send(w) ==
    /\ Running /\ pc[w] = "send" /\ Len(queue) < QueueCap
    /\ queue' = Append(queue, req[w])
    /\ mu' = None
    /\ pc' = [pc EXCEPT ![w] = "wait"]
    /\ UNCHANGED <<req, done, closed, nextSeq, batchVars, closing, fileVars,
                   crashVars, acked>>

Return(w) ==
    /\ Running /\ pc[w] = "wait" /\ done[w] # None
    /\ done' = [done EXCEPT ![w] = None]
    /\ pc'   = [pc EXCEPT ![w] = "idle"]
    /\ UNCHANGED <<req, queueVars, batchVars, closing, fileVars, crashVars,
                   acked>>

-----------------------------------------------------------------------------
(* The commit goroutine.                                                   *)

TakeFirst ==
    /\ Running /\ committer = "idle" /\ queue # <<>>
    /\ batch' = <<Head(queue)>>
    /\ queue' = Tail(queue)
    /\ committer' = "collecting"
    /\ UNCHANGED <<writerVars, mu, closed, nextSeq, written, closing,
                   fileVars, crashVars, acked>>

Collect ==
    /\ Running /\ committer = "collecting" /\ queue # <<>>
    /\ batch' = Append(batch, Head(queue))
    /\ queue' = Tail(queue)
    /\ UNCHANGED <<writerVars, mu, closed, nextSeq, committer, written,
                   closing, fileVars, crashVars, acked>>

StopCollecting ==
    /\ Running /\ committer = "collecting" /\ queue = <<>> /\ ~closed
    /\ committer' = "counting"
    /\ UNCHANGED <<writerVars, queueVars, batch, written, closing, fileVars,
                   crashVars, acked>>

\* A receive from a closed and empty channel is always ready: the select
\* appends zero requests to the batch and never takes its default again.
CollectZero ==
    /\ Running /\ committer = "collecting" /\ queue = <<>> /\ closed
    /\ committer' = "spinning"
    /\ UNCHANGED <<writerVars, queueVars, batch, written, closing, fileVars,
                   crashVars, acked>>

\* The statistics are counted under w.mu (their values are left out), and
\* the batch is encoded, which never fails.
Count ==
    /\ Running /\ committer = "counting" /\ mu = None
    /\ committer' = "writing"
    /\ written' = 0
    /\ UNCHANGED <<writerVars, queueVars, batch, closing, fileVars, crashVars,
                   acked>>

WriteRecord ==
    /\ Running /\ committer = "writing" /\ written < Len(batch)
    /\ file' = Append(file, EntryOf(batch[written + 1], "whole"))
    /\ written' = written + 1
    /\ UNCHANGED <<writerVars, queueVars, committer, batch, closing, synced,
                   crashVars, acked>>

\* Mutant of Answer: the loop ends after the first request of the batch.
AnswerFirst(a) == done' = [done EXCEPT ![Head(batch).writer] = a]

\* What the commit goroutine sends to the done channels of its batch.
Answer(a) ==
    done' = [w \in Writer |->
                IF \E q \in Elems(batch) : q.writer = w THEN a ELSE done[w]]

\* The batch is over.
NextBatch == committer' = "idle" /\ batch' = <<>> /\ written' = 0

\* A Write fails, possibly after a part of the record; what was written of
\* the batch stays in the file.
WriteFails ==
    /\ Running /\ MayFail /\ committer = "writing" /\ written < Len(batch)
    /\ \/ UNCHANGED file
       \/ \E t \in WriteTears : file' = Append(file, EntryOf(batch[written + 1], t))
    /\ Answer("failed")
    /\ NextBatch
    /\ UNCHANGED <<pc, req, queueVars, closing, synced, crashVars, acked>>

\* Mutant of MakeDurable: the file is not synced.
StayUnsynced == UNCHANGED synced

MakeDurable == synced' = Len(file)

Sync ==
    /\ Running /\ committer = "writing" /\ written = Len(batch)
    /\ MakeDurable
    /\ Answer("ok")
    /\ acked' = acked \cup Ids(Elems(batch))
    /\ NextBatch
    /\ UNCHANGED <<pc, req, queueVars, closing, file, crashVars>>

SyncFails ==
    /\ Running /\ MayFail /\ committer = "writing" /\ written = Len(batch)
    /\ Answer("failed")
    /\ NextBatch
    /\ UNCHANGED <<pc, req, queueVars, closing, fileVars, crashVars, acked>>

\* The queue is closed and drained.
Exit ==
    /\ Running /\ committer = "idle" /\ queue = <<>> /\ closed
    /\ committer' = "exited"
    /\ UNCHANGED <<writerVars, queueVars, batch, written, closing, fileVars,
                   crashVars, acked>>

-----------------------------------------------------------------------------
(* Close; a second call returns at once and changes nothing.               *)

\* Mutant of Unlock: w.mu is kept while Close waits.
KeepLock == mu' = "Close"

\* Close has taken w.mu and releases it before it waits.
Unlock == UNCHANGED mu

Close ==
    /\ Running /\ MayClose /\ mu = None /\ ~closed
    /\ closed' = TRUE
    /\ closing' = "waiting"
    /\ Unlock
    /\ UNCHANGED <<writerVars, nextSeq, queue, batchVars, fileVars,
                   crashVars, acked>>

CloseReturn ==
    /\ Running /\ closing = "waiting" /\ committer = "exited"
    /\ closing' = "done"
    /\ UNCHANGED <<writerVars, queueVars, batchVars, fileVars, crashVars,
                   acked>>

-----------------------------------------------------------------------------
(* The end of the process and its next start.                              *)

\* What is synced survives; what is not may be lost from some record on, and
\* that record may be cut.  Nothing else of the process is left.
Crash ==
    /\ Running /\ epoch < MaxEpoch
    /\ \E n \in synced..Len(file) :
          \/ file' = SubSeq(file, 1, n)
          \/ /\ n < Len(file)
             /\ \E t \in CrashTears :
                   file' = Append(SubSeq(file, 1, n), [file[n + 1] EXCEPT !.cut = t])
    /\ synced' = Len(file')
    /\ server' = "down" /\ epoch' = epoch + 1
    /\ mu' = None /\ closed' = FALSE /\ nextSeq' = 0 /\ queue' = <<>>
    /\ pc'   = [w \in Writer |-> "idle"]
    /\ req'  = [w \in Writer |-> None]
    /\ done' = [w \in Writer |-> None]
    /\ committer' = "idle" /\ batch' = <<>> /\ written' = 0
    /\ closing' = "no"
    /\ UNCHANGED <<replayed, acked>>

\* Open and Replay: the records before the first that is cut.  The file is
\* opened for appending and keeps what Replay stopped at.
Open ==
    /\ server = "down" /\ MayAccept(file)
    /\ server' = "running"
    /\ replayed' = SubSeq(file, 1, Readable(file))
    /\ UNCHANGED <<writerVars, queueVars, batchVars, closing, fileVars, epoch,
                   acked>>

\* Replay returns an error, New and main give up.
OpenFails ==
    /\ server = "down" /\ MayReject(file)
    /\ server' = "refused"
    /\ UNCHANGED <<writerVars, queueVars, batchVars, closing, fileVars, epoch,
                   replayed, acked>>

-----------------------------------------------------------------------------
Commit ==
    \/ TakeFirst \/ Collect \/ StopCollecting \/ CollectZero \/ Count
    \/ WriteRecord \/ WriteFails \/ Sync \/ SyncFails \/ Exit

Next ==
    \/ \E w \in Writer :
          \/ \E r \in Record : CallAppend(w, r)
          \/ TakeNumber(w) \/ Refuse(w) \/ Send(w) \/ Return(w)
    \/ Commit
    \/ Close \/ CloseReturn
    \/ Crash \/ Open \/ OpenFails

Spec == Init /\ [][Next]_vars

\* The scheduler runs every goroutine that can run, and sync.Mutex hands the
\* lock to a waiter that others keep overtaking (starvation mode), which is
\* the strong fairness of the steps that take w.mu.  Calls of Append and of
\* Close are made or not.
Fairness ==
    /\ \A w \in Writer : /\ SF_vars(TakeNumber(w) \/ Refuse(w))
                         /\ WF_vars(Send(w)) /\ WF_vars(Return(w))
    /\ SF_vars(Count)
    /\ WF_vars(Commit)
    /\ WF_vars(CloseReturn)

LiveSpec == Spec /\ Fairness

-----------------------------------------------------------------------------
(* Properties.                                                             *)

\* Type correctness: in particular w.mu is held exactly by the writer that
\* is about to send, and an answer waits only where a writer waits for it.
TypeOK ==
    /\ mu \in Writer \cup {None}
    /\ closed \in BOOLEAN
    /\ nextSeq \in 0..MaxSeq
    /\ queue \in Seq(Request) /\ Len(queue) <= QueueCap
    /\ pc \in [Writer -> {"idle", "lock", "send", "wait"}]
    /\ req \in [Writer -> Request \cup {None}]
    /\ done \in [Writer -> {None, "ok", "failed"}]
    /\ committer \in {"idle", "collecting", "spinning", "counting", "writing",
                      "exited"}
    /\ batch \in Seq(Request)
    /\ written \in 0..Len(batch)
    /\ closing \in {"no", "waiting", "done"}
    /\ file \in Seq(Entry)
    /\ synced \in 0..Len(file)
    /\ server \in {"running", "down", "refused"}
    /\ epoch \in 0..MaxEpoch
    /\ replayed \in Seq(Entry)
    /\ acked \subseteq (Nat \X Nat)
    /\ \A w \in Writer : (mu = w) <=> (pc[w] = "send")
    /\ \A w \in Writer : done[w] # None => pc[w] = "wait"

\* The requests of w in the queue and in the batch, and the answer to one.
Places(w) ==
    Cardinality({k \in DOMAIN queue : queue[k].writer = w})
      + Cardinality({k \in DOMAIN batch : batch[k].writer = w})
      + (IF done[w] # None THEN 1 ELSE 0)

\* No request is lost or answered twice: while its writer waits there is just
\* one, or its answer, through collecting, failed batches and closing
\* (wal.go:259-334; a second answer would block on the done channel).
OneAnswer ==
    \A w \in Writer : Places(w) = IF pc[w] = "wait" THEN 1 ELSE 0

Before(e, f) ==
    e.epoch < f.epoch \/ (e.epoch = f.epoch /\ e.seq < f.seq)

\* The records are in the file in the order of the numbers Append gave them,
\* which is the order the store applies them in and the order Replay returns
\* them in (wal.go:104-116: w.mu is held across the send).
FileInOrder ==
    \A j, k \in DOMAIN file : j < k => Before(file[j], file[k])

\* Nobody is about to send on the closed queue, which would panic
\* (wal.go:106-114, 88-89).
NoSendOnClosed == closed => \A w \in Writer : pc[w] # "send"

\* A record whose Append returned nil before a crash is among those Replay
\* returns after it (wal.go:331-334 answer once the batch is durable).
AckedIsReplayed ==
    server = "running" =>
        \A a \in acked : a[1] < epoch => a \in Ids(Elems(replayed))

\* Every call of Append returns, whether the file fails or not: nobody waits
\* for ever for w.mu, for room in the queue or for an answer (wal.go:104-122,
\* 274).  This takes no more than QueueCap + 1 writers, and a log that is not
\* closed meanwhile.
AppendReturns ==
    \A w \in Writer : pc[w] = "lock" ~> pc[w] = "idle" \/ closed

\* Close returns (wal.go:93), unless it comes while a batch is collected or while
\* requests are still queued: the commit goroutine then collects what is left,
\* and goes on receiving from the closed queue for ever (wal.go:259-270).
CloseReturns ==
    closing = "waiting" ~> closing # "waiting" \/ committer = "spinning"
=============================================================================
