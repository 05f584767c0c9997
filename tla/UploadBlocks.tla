---------------------------- MODULE UploadBlocks ----------------------------
(***************************************************************************)
(* uploadAndCollectBlockData and the commit that follows it (uploadFile,   *)
(* steps 2 and 3): a reader is cut into blocks, every full batch is handed *)
(* to one goroutine per block, all uploads of a ProtonDrive share          *)
(* blockUploadSemaphore, and the revision is committed when the last batch *)
(* is stored.  Uploads run concurrently; a caller may cancel its context.  *)
(*                                                                         *)
(* A block is known by its Index.  The file is not fixed in advance: every *)
(* read may yield a full block, a last short one, the end or an error.     *)
(***************************************************************************)
EXTENDS Naturals, Sequences, FiniteSets, SequencesExt

CONSTANTS
    Uploads,    \* concurrent calls of uploadFile
    N,          \* Config.ConcurrentBlockUploadCount
    BatchSize,  \* UPLOAD_BATCH_BLOCK_SIZE
    MaxBlocks   \* bound, per upload: blocks in its file

ASSUME ConstantsAssumption ==
    /\ N \in Nat /\ BatchSize \in Nat \ {0} /\ MaxBlocks \in [Uploads -> Nat]

VARIABLES
    pc,         \* per upload: where uploadFile is
    i,          \* the loop counter: the Index of the next block
    more,       \* shouldContinue
    last,       \* the loop is over: the pending flush is the final one
    pending,    \* pendingUploadBlocks, as the Indexes of the blocks
    manifest,   \* manifestSignatureData, as the Indexes of the blocks hashed
    sizes,      \* blockSizes
    task,       \* per block: its goroutine
    chan,       \* errChan
    got,        \* results collected from errChan
    firstErr,   \* firstErr # nil in collectUploadErrors
    cancelled,  \* cancelUploads was called for this batch
    ctxDone,    \* the caller cancelled its context
    cur,        \* semaphore.Weighted: permits taken
    waiters,    \* semaphore.Weighted: goroutines queued for a permit
    stored,     \* server: blocks stored for the draft revision
    active      \* server: the revision was committed

loopVars  == <<i, more, last, pending, manifest, sizes>>
batchVars == <<chan, got, firstErr, cancelled>>
semVars   == <<cur, waiters>>
vars == <<pc, loopVars, task, batchVars, ctxDone, semVars, stored, active>>

Blocks == UNION {1..MaxBlocks[u] : u \in Uploads}

TaskStates == {"none", "start", "waiting", "granted", "uploading", "release", "done"}

TypeOK ==
    /\ pc \in [Uploads -> {"verify", "top", "read", "request", "collect", "commit",
                           "returned", "failed"}]
    /\ i \in [Uploads -> Nat \ {0}]
    /\ more \in [Uploads -> BOOLEAN] /\ last \in [Uploads -> BOOLEAN]
    /\ pending \in [Uploads -> Seq(Blocks)] /\ manifest \in [Uploads -> Seq(Blocks)]
    /\ sizes \in [Uploads -> Seq({"full", "short"})]
    /\ task \in [Uploads -> [Blocks -> TaskStates]]
    /\ chan \in [Uploads -> Seq({"ok", "err"})]
    /\ got \in [Uploads -> Nat]
    /\ firstErr \in [Uploads -> BOOLEAN] /\ cancelled \in [Uploads -> BOOLEAN]
    /\ ctxDone \in [Uploads -> BOOLEAN]
    /\ cur \in Nat /\ waiters \in Seq(Uploads \X Blocks)
    /\ stored \in [Uploads -> SUBSET Blocks] /\ active \in [Uploads -> BOOLEAN]

Init ==
    /\ pc = [u \in Uploads |-> "verify"]
    /\ i = [u \in Uploads |-> 1]
    /\ more = [u \in Uploads |-> TRUE] /\ last = [u \in Uploads |-> FALSE]
    /\ pending = [u \in Uploads |-> <<>>] /\ manifest = [u \in Uploads |-> <<>>]
    /\ sizes = [u \in Uploads |-> <<>>]
    /\ task = [u \in Uploads |-> [k \in Blocks |-> "none"]]
    /\ chan = [u \in Uploads |-> <<>>] /\ got = [u \in Uploads |-> 0]
    /\ firstErr = [u \in Uploads |-> FALSE] /\ cancelled = [u \in Uploads |-> FALSE]
    /\ ctxDone = [u \in Uploads |-> FALSE]
    /\ cur = 0 /\ waiters = <<>>
    /\ stored = [u \in Uploads |-> {}] /\ active = [u \in Uploads |-> FALSE]

Goto(u, where) == pc' = [pc EXCEPT ![u] = where]

-----------------------------------------------------------------------------
(* The reading loop *)

\* getRevisionVerificationCompat, before anything is read
Verify(u) ==
    /\ pc[u] = "verify"
    /\ \E where \in {"top", "failed"} : Goto(u, where)
    /\ UNCHANGED <<loopVars, task, batchVars, ctxDone, semVars, stored, active>>

\* Where the upload goes when a flush has succeeded.
AfterFlush(final) == IF final THEN "commit" ELSE "read"

\* uploadPendingBlocks is called; with nothing pending it returns nil.
Flush(u, final) == Goto(u, IF pending[u] = <<>> THEN AfterFlush(final) ELSE "request")

\* (Variants named *_Mutant are the definition below them with a defect; the
\* specification does not use them.)
\* The final flush forgotten after a short block.
LoopTop_Mutant(u) ==
    /\ pc[u] = "top"
    /\ IF ~more[u] THEN Goto(u, "commit") /\ last' = [last EXCEPT ![u] = TRUE]
       ELSE /\ IF i[u] > 1 /\ (i[u] - 1) % BatchSize = 0 THEN Flush(u, FALSE)
                                                         ELSE Goto(u, "read")
            /\ UNCHANGED last
    /\ UNCHANGED <<i, more, pending, manifest, sizes, task, batchVars, ctxDone, semVars,
                   stored, active>>

\* The head of the loop: a batch is flushed before the block after it is read.
LoopTop(u) ==
    /\ pc[u] = "top"
    /\ IF ~more[u] THEN Flush(u, TRUE) /\ last' = [last EXCEPT ![u] = TRUE]
       ELSE /\ IF i[u] > 1 /\ (i[u] - 1) % BatchSize = 0 THEN Flush(u, FALSE)
                                                         ELSE Goto(u, "read")
            /\ UNCHANGED last
    /\ UNCHANGED <<i, more, pending, manifest, sizes, task, batchVars, ctxDone, semVars,
                   stored, active>>

\* Indexes that start at 0.
ReadBlock_Mutant(u) ==
    /\ pc[u] = "read" /\ i[u] <= MaxBlocks[u]
    /\ \E size \in {"full", "short"} :
         /\ sizes' = [sizes EXCEPT ![u] = Append(@, size)]
         /\ more' = [more EXCEPT ![u] = size = "full"]
    /\ pending' = [pending EXCEPT ![u] = Append(@, i[u] - 1)]
    /\ manifest' = [manifest EXCEPT ![u] = Append(@, i[u] - 1)]
    /\ i' = [i EXCEPT ![u] = @ + 1]
    /\ Goto(u, "top")
    /\ UNCHANGED <<last, task, batchVars, ctxDone, semVars, stored, active>>

\* io.ReadFull yields a full block, or a short one: then the file has ended.
ReadBlock(u) ==
    /\ pc[u] = "read" /\ i[u] <= MaxBlocks[u]
    /\ \E size \in {"full", "short"} :
         /\ sizes' = [sizes EXCEPT ![u] = Append(@, size)]
         /\ more' = [more EXCEPT ![u] = size = "full"]
    /\ pending' = [pending EXCEPT ![u] = Append(@, i[u])]
    /\ manifest' = [manifest EXCEPT ![u] = Append(@, i[u])]
    /\ i' = [i EXCEPT ![u] = @ + 1]
    /\ Goto(u, "top")
    /\ UNCHANGED <<last, task, batchVars, ctxDone, semVars, stored, active>>

\* io.EOF with nothing read: break.
ReadEnd(u) ==
    /\ pc[u] = "read"
    /\ last' = [last EXCEPT ![u] = TRUE]
    /\ Flush(u, TRUE)
    /\ UNCHANGED <<i, more, pending, manifest, sizes, task, batchVars, ctxDone, semVars,
                   stored, active>>

\* The reader fails, or encrypting or signing the block does.
ReadFails(u) ==
    /\ pc[u] = "read"
    /\ Goto(u, "failed")
    /\ UNCHANGED <<loopVars, task, batchVars, ctxDone, semVars, stored, active>>

-----------------------------------------------------------------------------
(* uploadPendingBlocks *)

\* RequestBlockUpload answers with one upload link per pending block; a
\* goroutine is started for each.
RequestBlockUpload(u) ==
    /\ pc[u] = "request"
    /\ task' = [task EXCEPT ![u] = [k \in Blocks |->
                  IF k \in ToSet(pending[u]) THEN "start" ELSE @[k]]]
    /\ chan' = [chan EXCEPT ![u] = <<>>] /\ got' = [got EXCEPT ![u] = 0]
    /\ firstErr' = [firstErr EXCEPT ![u] = FALSE]
    /\ cancelled' = [cancelled EXCEPT ![u] = FALSE]
    /\ Goto(u, "collect")
    /\ UNCHANGED <<loopVars, ctxDone, semVars, stored, active>>

\* It fails, or validateUploadBatchCardinality refuses the number of links.
RequestFails(u) ==
    /\ pc[u] = "request"
    /\ Goto(u, "failed")
    /\ UNCHANGED <<loopVars, task, batchVars, ctxDone, semVars, stored, active>>

\* collectUploadErrors takes one result; the first error cancels the others.
Collect(u) ==
    /\ pc[u] = "collect" /\ got[u] < Len(pending[u]) /\ chan[u] # <<>>
    /\ LET failed == Head(chan[u]) = "err"
       IN  /\ firstErr'  = [firstErr EXCEPT ![u] = @ \/ failed]
           /\ cancelled' = [cancelled EXCEPT ![u] = @ \/ failed]
    /\ chan' = [chan EXCEPT ![u] = Tail(@)]
    /\ got' = [got EXCEPT ![u] = @ + 1]
    /\ UNCHANGED <<pc, loopVars, task, ctxDone, semVars, stored, active>>

\* Returns at the first error, without waiting for the other results.
EndOfBatch_Mutant(u) ==
    /\ pc[u] = "collect" /\ (firstErr[u] \/ got[u] = Len(pending[u]))
    /\ cancelled' = [cancelled EXCEPT ![u] = TRUE]
    /\ IF firstErr[u]
       THEN Goto(u, "failed") /\ UNCHANGED pending
       ELSE Goto(u, AfterFlush(last[u])) /\ pending' = [pending EXCEPT ![u] = <<>>]
    /\ UNCHANGED <<i, more, last, manifest, sizes, task, chan, got, firstErr, ctxDone,
                   semVars, stored, active>>

\* All results are in: the batch is dropped if there was no error.
EndOfBatch(u) ==
    /\ pc[u] = "collect" /\ got[u] = Len(pending[u])
    /\ cancelled' = [cancelled EXCEPT ![u] = TRUE]       \* defer cancelUploads()
    /\ IF firstErr[u]
       THEN Goto(u, "failed") /\ UNCHANGED pending
       ELSE Goto(u, AfterFlush(last[u])) /\ pending' = [pending EXCEPT ![u] = <<>>]
    /\ UNCHANGED <<i, more, last, manifest, sizes, task, chan, got, firstErr, ctxDone,
                   semVars, stored, active>>

-----------------------------------------------------------------------------
(* uploadBlockWrapper: the goroutine of one block *)

UploadCtxDone(u) == cancelled[u] \/ ctxDone[u]

SetTask(u, k, s) == task' = [task EXCEPT ![u][k] = s]

Send(u, result) == chan' = [chan EXCEPT ![u] = Append(@, result)]

\* blockUploadSemaphore.Acquire takes a free permit or queues; with the context
\* done it does neither.
Acquire(u, k) ==
    /\ task[u][k] = "start" /\ ~UploadCtxDone(u)
    /\ IF cur < N /\ waiters = <<>>
       THEN SetTask(u, k, "uploading") /\ cur' = cur + 1 /\ UNCHANGED waiters
       ELSE SetTask(u, k, "waiting") /\ waiters' = Append(waiters, <<u, k>>) /\ UNCHANGED cur
    /\ UNCHANGED <<pc, loopVars, batchVars, ctxDone, stored, active>>

\* The goroutine is not queued yet, or leaves the queue.
Unqueued(u, k) ==
    \/ task[u][k] = "start" /\ UNCHANGED waiters
    \/ /\ task[u][k] = "waiting"
       /\ \E n \in DOMAIN waiters :
            waiters[n] = <<u, k>> /\ waiters' = RemoveAt(waiters, n)

\* Sends the error and goes on, its `return` missing.
AcquireFailsNoReturn_Mutant(u, k) ==
    /\ UploadCtxDone(u) /\ Unqueued(u, k)
    /\ SetTask(u, k, "uploading") /\ Send(u, "err")
    /\ UNCHANGED <<pc, loopVars, got, firstErr, cancelled, ctxDone, cur, stored, active>>

AcquireFails(u, k) ==
    /\ UploadCtxDone(u) /\ Unqueued(u, k)
    /\ SetTask(u, k, "done") /\ Send(u, "err")
    /\ UNCHANGED <<pc, loopVars, got, firstErr, cancelled, ctxDone, cur, stored, active>>

\* A permit given back goes to the first waiter, if there is one.
GiveBack(t) ==
    IF waiters = <<>>
    THEN task' = t /\ cur' = cur - 1 /\ UNCHANGED waiters
    ELSE LET w == Head(waiters)
         IN  task' = [t EXCEPT ![w[1]][w[2]] = "granted"] /\ waiters' = Tail(waiters)
             /\ UNCHANGED cur

\* A waiter that was given a permit looks at its context once more.
Granted(u, k) ==
    /\ task[u][k] = "granted"
    /\ IF UploadCtxDone(u)
       THEN Send(u, "err") /\ GiveBack([task EXCEPT ![u][k] = "done"])
       ELSE SetTask(u, k, "uploading") /\ UNCHANGED <<chan, semVars>>
    /\ UNCHANGED <<pc, loopVars, got, firstErr, cancelled, ctxDone, stored, active>>

\* Returns before the deferred Release when the block fails.
UploadBlock_Mutant(u, k) ==
    /\ task[u][k] = "uploading"
    /\ \/ /\ Send(u, "ok") /\ stored' = [stored EXCEPT ![u] = @ \cup {k}]
          /\ SetTask(u, k, "release")
       \/ Send(u, "err") /\ UNCHANGED stored /\ SetTask(u, k, "done")
    /\ UNCHANGED <<pc, loopVars, got, firstErr, cancelled, ctxDone, semVars, active>>

\* UploadBlock returns; an error does not tell whether the block was stored.
UploadBlock(u, k) ==
    /\ task[u][k] = "uploading"
    /\ \/ Send(u, "ok") /\ stored' = [stored EXCEPT ![u] = @ \cup {k}]
       \/ Send(u, "err") /\ stored' \in {stored, [stored EXCEPT ![u] = @ \cup {k}]}
    /\ SetTask(u, k, "release")
    /\ UNCHANGED <<pc, loopVars, got, firstErr, cancelled, ctxDone, semVars, active>>

\* defer blockUploadSemaphore.Release(1): after the result was sent
Release(u, k) ==
    /\ task[u][k] = "release"
    /\ GiveBack([task EXCEPT ![u][k] = "done"])
    /\ UNCHANGED <<pc, loopVars, batchVars, ctxDone, stored, active>>

-----------------------------------------------------------------------------
(* commitNewRevision, and the caller *)

\* The server makes the revision the active one; the answer may be lost.
CommitRevision(u) ==
    /\ pc[u] = "commit"
    /\ active' = [active EXCEPT ![u] = TRUE]
    /\ \E where \in {"returned", "failed"} : Goto(u, where)
    /\ UNCHANGED <<loopVars, task, batchVars, ctxDone, semVars, stored>>

CommitFails(u) ==
    /\ pc[u] = "commit"
    /\ Goto(u, "failed")
    /\ UNCHANGED <<loopVars, task, batchVars, ctxDone, semVars, stored, active>>

Returned(u) == pc[u] \in {"returned", "failed"}

CancelContext(u) ==
    /\ ~Returned(u) /\ ~ctxDone[u]
    /\ ctxDone' = [ctxDone EXCEPT ![u] = TRUE]
    /\ UNCHANGED <<pc, loopVars, task, batchVars, semVars, stored, active>>

Goroutine(u, k) ==
    \/ Acquire(u, k) \/ AcquireFails(u, k) \/ Granted(u, k)
    \/ UploadBlock(u, k) \/ Release(u, k)

UploadFile(u) ==
    \/ Verify(u) \/ LoopTop(u) \/ ReadBlock(u) \/ ReadEnd(u) \/ ReadFails(u)
    \/ RequestBlockUpload(u) \/ RequestFails(u) \/ Collect(u) \/ EndOfBatch(u)
    \/ CommitRevision(u) \/ CommitFails(u)

\* Every upload has returned and every goroutine has ended.
AllDone ==
    /\ \A u \in Uploads : Returned(u) /\ \A k \in Blocks : task[u][k] \in {"none", "done"}
    /\ UNCHANGED vars

Next ==
    \/ \E u \in Uploads : UploadFile(u) \/ CancelContext(u) \/ \E k \in Blocks : Goroutine(u, k)
    \/ AllDone

Spec == Init /\ [][Next]_vars

\* Goroutines are scheduled and requests are answered or fail, so an upload that
\* can take a step, in any of its goroutines, takes one; nothing makes a caller
\* cancel.
FairSpec ==
    Spec /\ \A u \in Uploads : WF_vars(UploadFile(u) \/ \E k \in Blocks : Goroutine(u, k))

-----------------------------------------------------------------------------
(* Properties *)

\* Whatever became active has every block of the file on the server, in a
\* manifest that lists them in order, with one size for each.
CommittedIsComplete ==
    \A u \in Uploads : active[u] =>
        /\ manifest[u] = [b \in 1..(i[u] - 1) |-> b]
        /\ Len(sizes[u]) = Len(manifest[u])
        /\ ToSet(manifest[u]) \subseteq stored[u]

\* When uploadPendingBlocks has returned, no goroutine of its still sends a
\* block: a retry of the upload does not meet the writes of the attempt before.
NoStragglers ==
    \A u \in Uploads : pc[u] # "collect" =>
        \A k \in Blocks : task[u][k] \in {"none", "release", "done"}

\* The goroutines that hold a permit
Holders ==
    {t \in Uploads \X Blocks : task[t[1]][t[2]] \in {"granted", "uploading", "release"}}

\* The semaphore counts its holders, on every error and cancellation path, and
\* no more than N blocks are in flight.
PermitsConserved == cur = Cardinality(Holders) /\ cur <= N

\* errChan never blocks a sender: it has room for every result not collected.
ErrChanHasRoom ==
    \A u \in Uploads : pc[u] = "collect" => got[u] + Len(chan[u]) <= Len(pending[u])

\* Every upload returns, and gives back its permits.
UploadsReturn ==
    \A u \in Uploads :
        <>(Returned(u) /\ \A k \in Blocks : task[u][k] \in {"none", "done"})
=============================================================================
