--------------------------- MODULE DownloadReader ---------------------------
(***************************************************************************)
(* DownloadFile and the reader it returns: the active revision is looked   *)
(* up, its blocks and attributes are fetched, the reader skips to the      *)
(* offset (by the block sizes in the attributes, or byte by byte), and     *)
(* then serves the caller's Reads from a buffer filled with a batch of     *)
(* blocks at a time.  Meanwhile other clients commit and delete revisions, *)
(* and blocks fail to arrive or fail their integrity check.                *)
(*                                                                         *)
(* A byte is <<revision, position>>; block b of revision r ends after byte *)
(* Ends[r][b].                                                             *)
(***************************************************************************)
EXTENDS Integers, Sequences

CONSTANTS
    Revisions,  \* revisions the file may have
    NoRevision, \* not a revision
    Ends,       \* [Revisions -> Seq(Nat)]: where each block ends
    XAttr,      \* [Revisions -> ...]: the extended attributes of a revision hold
                \* the block "sizes", "no sizes", or are "missing"
    Batch,      \* DOWNLOAD_BATCH_BLOCK_SIZE
    Offsets,    \* offsets a caller asks for
    ReadSizes,  \* lengths of the slices a caller reads into
    SkipSize,   \* the length of the slice io.Discard reads into
    MaxChanges, \* bound: changes made by other clients
    MaxFaults   \* bound: blocks that do not arrive intact

NumBlocks(r) == Len(Ends[r])

\* The bytes of revision r before its block b + 1
Start(r, b) == IF b = 0 THEN 0 ELSE Ends[r][b]

FileSize == [r \in Revisions |-> Start(r, NumBlocks(r))]

ASSUME RevisionsAssumption ==
    /\ NoRevision \notin Revisions
    /\ Ends \in [Revisions -> Seq(Nat)]
    /\ \A r \in Revisions : \A b \in 1..NumBlocks(r) : Start(r, b - 1) < Ends[r][b]
    /\ XAttr \in [Revisions -> {"sizes", "no sizes", "missing"}]

ASSUME CallsAssumption ==
    /\ Batch \in Nat \ {0} /\ SkipSize \in Nat \ {0}
    /\ Offsets \subseteq Int /\ ReadSizes \subseteq Nat \ {0}
    /\ MaxChanges \in Nat /\ MaxFaults \in Nat

VARIABLES
    active,     \* server: the active revision
    kept,       \* server: the revisions it has
    changes,    \* changes made by other clients so far
    pc,         \* where DownloadFile, or the Read in progress, is
    seeking,    \* the Read is one of those that skip to the offset
    asked,      \* the offset of the call
    skip,       \* what io.CopyN has still to discard
    revision,   \* reader.revision
    attrs,      \* fileSystemAttrs: the revision they are those of
    nextRevision,  \* reader.nextRevision
    from,       \* `offset` of populateBufferOnRead
    i,          \* its loop counter
    data,       \* reader.data: the bytes not read yet
    want,       \* len(p) of the Read in progress
    closed,     \* reader.protonDrive is nil
    fetched,    \* history: the blocks this download has received
    faults,     \* blocks that did not arrive intact so far
    corrupt,    \* history: a block failed its hash since the call
    pos,        \* history: offset of the next byte the caller is owed
    chunk,      \* history: what the last Read returned
    eof         \* history: it returned io.EOF

serverVars == <<active, kept, changes>>
openVars   == <<asked, revision, attrs>>
readerVars == <<nextRevision, data, from, i, fetched, corrupt>>
callerVars == <<pos, chunk, eof>>
vars == <<serverVars, pc, seeking, openVars, skip, readerVars, want, closed, faults, callerVars>>

TypeOK ==
    /\ active \in Revisions \cup {NoRevision} /\ kept \subseteq Revisions
    /\ changes \in 0..MaxChanges /\ faults \in 0..MaxFaults
    /\ pc \in {"idle", "list", "blocks", "attrs", "skip", "open", "read", "fetch", "panicked"}
    /\ seeking \in BOOLEAN /\ closed \in BOOLEAN /\ corrupt \in BOOLEAN /\ eof \in BOOLEAN
    /\ asked \in Int /\ skip \in Int /\ want \in Nat /\ pos \in Nat
    /\ revision \in Revisions \cup {NoRevision} /\ attrs \in Revisions \cup {NoRevision}
    /\ nextRevision \in Nat /\ from \in Nat /\ i \in Nat /\ fetched \subseteq Nat
    /\ data \in Seq(Revisions \X Nat) /\ chunk \in Seq(Revisions \X Nat)

Init ==
    /\ active \in Revisions /\ kept = {active} /\ changes = 0
    /\ pc = "idle" /\ seeking = FALSE /\ asked = 0 /\ skip = 0
    /\ revision = NoRevision /\ attrs = NoRevision
    /\ nextRevision = 0 /\ from = 0 /\ i = 0 /\ data = <<>> /\ want = 0
    /\ closed = FALSE /\ fetched = {} /\ faults = 0 /\ corrupt = FALSE
    /\ pos = 0 /\ chunk = <<>> /\ eof = FALSE

\* Bytes first..last of revision r
Bytes(r, first, last) == [k \in 1..(last - first + 1) |-> <<r, first + k - 1>>]

BlockBytes(r, b) == Bytes(r, Start(r, b - 1) + 1, Ends[r][b])

-----------------------------------------------------------------------------
(* Other clients *)

\* A revision is committed, a new one or an old one restored.
CommitRevision(r) ==
    /\ changes < MaxChanges /\ active \in Revisions /\ active # r
    /\ active' = r /\ kept' = kept \cup {r} /\ changes' = changes + 1
    /\ UNCHANGED <<pc, seeking, openVars, skip, readerVars, want, closed, faults, callerVars>>

\* An obsolete revision is deleted.
DeleteRevision(r) ==
    /\ changes < MaxChanges /\ r \in kept \ {active}
    /\ kept' = kept \ {r} /\ changes' = changes + 1 /\ UNCHANGED active
    /\ UNCHANGED <<pc, seeking, openVars, skip, readerVars, want, closed, faults, callerVars>>

\* The file is deleted with all its revisions.
DeleteFile ==
    /\ changes < MaxChanges /\ active \in Revisions
    /\ active' = NoRevision /\ kept' = {} /\ changes' = changes + 1
    /\ UNCHANGED <<pc, seeking, openVars, skip, readerVars, want, closed, faults, callerVars>>

-----------------------------------------------------------------------------
(* DownloadFile *)

\* Everything of the call and of its reader is dropped.
Reset ==
    /\ pc' = "idle" /\ seeking' = FALSE /\ asked' = 0 /\ skip' = 0 /\ want' = 0
    /\ revision' = NoRevision /\ attrs' = NoRevision
    /\ nextRevision' = 0 /\ from' = 0 /\ i' = 0 /\ data' = <<>> /\ closed' = FALSE
    /\ fetched' = {} /\ corrupt' = FALSE /\ pos' = 0 /\ chunk' = <<>> /\ eof' = FALSE

\* The type of the link, the keyring of its parent, its own and the session key
Call(offset) ==
    /\ pc = "idle"
    /\ pc' = "list" /\ asked' = offset
    /\ UNCHANGED <<serverVars, seeking, revision, attrs, skip, readerVars, want, closed,
                   faults, callerVars>>

\* A lookup or a request of DownloadFile fails: return nil, 0, nil, err.
CallFails ==
    /\ pc \in {"list", "blocks", "attrs"}
    /\ Reset
    /\ UNCHANGED <<serverVars, faults>>

\* GetRevisions: exactly one revision is active, unless the file is gone.
GetRevisions ==
    /\ pc = "list" /\ active \in Revisions
    /\ revision' = active /\ pc' = "blocks"
    /\ UNCHANGED <<serverVars, seeking, asked, attrs, skip, readerVars, want, closed,
                   faults, callerVars>>

\* The revision found may be deleted by now.
GetRevisionAllBlocks ==
    /\ pc = "blocks" /\ revision \in kept
    /\ pc' = "attrs"
    /\ UNCHANGED <<serverVars, seeking, openVars, skip, readerVars, want, closed, faults,
                   callerVars>>

\* (Variants named *_Mutant are the definition below them with a defect; the
\* specification does not use them.)
\* The sizes are added up, and the download starts at the first block all the same.
BlockOf_Mutant(r, offset) == 0

\* The block the offset lies in, 0-based: the first that ends at or after it.
BlockOf(r, offset) ==
    CHOOSE b \in 0..(NumBlocks(r) - 1) :
        offset <= Ends[r][b + 1] /\ \A k \in 0..(b - 1) : Ends[r][k + 1] < offset

\* The block before it, as if blocks were counted from 1
SeekBySizes_Mutant(r, offset) ==
    IF offset <= FileSize[r] /\ NumBlocks(r) > 0
    THEN /\ nextRevision' = BlockOf(r, offset) - 1
         /\ skip' = offset - Start(r, BlockOf(r, offset))
    ELSE skip' = offset /\ UNCHANGED nextRevision

\* The loop over BlockSizes; beyond the end it changes nothing.
SeekBySizes(r, offset) ==
    IF offset <= FileSize[r] /\ NumBlocks(r) > 0
    THEN /\ nextRevision' = BlockOf(r, offset)
         /\ skip' = offset - Start(r, BlockOf(r, offset))
    ELSE skip' = offset /\ UNCHANGED nextRevision

\* Attributes of the link, as in GetActiveRevisionAttrs: of what is active now.
GetAttrs_Mutant ==
    /\ pc = "attrs" /\ active \in Revisions /\ XAttr[revision] # "missing"
    /\ attrs' = active
    /\ IF XAttr[active] = "sizes"
       THEN SeekBySizes(active, asked)
       ELSE skip' = asked /\ UNCHANGED nextRevision
    /\ pc' = "skip" /\ seeking' = TRUE
    /\ UNCHANGED <<serverVars, asked, revision, data, from, i, fetched, corrupt, want, closed,
                   faults, callerVars>>

\* The reader is made and io.CopyN begins to discard what is before the offset.
GetAttrs ==
    /\ pc = "attrs" /\ XAttr[revision] # "missing"
    /\ attrs' = revision
    /\ IF XAttr[revision] = "sizes"
       THEN SeekBySizes(revision, asked)
       ELSE skip' = asked /\ UNCHANGED nextRevision
    /\ pc' = "skip" /\ seeking' = TRUE
    /\ UNCHANGED <<serverVars, asked, revision, data, from, i, fetched, corrupt, want, closed,
                   faults, callerVars>>

\* GetDecXAttrString answers nil, and its ModificationTime is read.
NilAttrs ==
    /\ pc = "attrs" /\ XAttr[revision] = "missing"
    /\ pc' = "panicked"
    /\ UNCHANGED <<serverVars, seeking, openVars, skip, readerVars, want, closed, faults,
                   callerVars>>

\* io.CopyN has more to discard: it reads again.
Skip ==
    /\ pc = "skip" /\ skip > 0
    /\ pc' = "read" /\ want' = IF skip < SkipSize THEN skip ELSE SkipSize
    /\ UNCHANGED <<serverVars, seeking, openVars, skip, readerVars, closed, faults, callerVars>>

\* ErrSeekOffsetAfterSkippingBlocks: a negative offset
SkipFails ==
    /\ pc = "skip" /\ skip < 0
    /\ Reset
    /\ UNCHANGED <<serverVars, faults>>

\* All is discarded: DownloadFile returns the reader.
Skipped ==
    /\ pc = "skip" /\ skip = 0
    /\ pc' = "open" /\ seeking' = FALSE /\ pos' = asked
    /\ UNCHANGED <<serverVars, openVars, skip, readerVars, want, closed, faults, chunk, eof>>

-----------------------------------------------------------------------------
(* The reader *)

Read(n) ==
    /\ pc = "open"
    /\ pc' = "read" /\ want' = n
    /\ UNCHANGED <<serverVars, seeking, openVars, skip, readerVars, closed, faults, callerVars>>

\* The caller stops reading; it may still call Read on the closed reader.
Close ==
    /\ pc = "open"
    /\ closed' = TRUE
    /\ UNCHANGED <<serverVars, pc, seeking, openVars, skip, readerVars, want, faults, callerVars>>

Drop ==
    /\ pc = "open" /\ closed
    /\ Reset
    /\ UNCHANGED <<serverVars, faults>>

\* r.data.Read(p): the next bytes of the buffer go to the caller, or are discarded.
Serve ==
    LET n == IF Len(data) < want THEN Len(data) ELSE want
    IN  /\ data' = SubSeq(data, n + 1, Len(data))
        /\ IF seeking
           THEN pc' = "skip" /\ skip' = skip - n /\ UNCHANGED callerVars
           ELSE /\ pc' = "open" /\ pos' = pos + n /\ chunk' = SubSeq(data, 1, n)
                /\ eof' = FALSE /\ UNCHANGED skip
        /\ UNCHANGED <<serverVars, seeking, openVars, nextRevision, from, i, fetched, corrupt,
                       want, closed, faults>>

ServeBuffered == pc = "read" /\ data # <<>> /\ Serve

\* A Read fails: the caller gets the error, DownloadFile returns it.
ReadFails(end) ==
    IF seeking THEN Reset
    ELSE /\ pc' = "open" /\ chunk' = <<>> /\ eof' = end
         /\ UNCHANGED <<seeking, openVars, skip, nextRevision, from, i, fetched, want, closed,
                        pos>>

\* No io.EOF at the end: Read returns 0, nil.
EndOfFile_Mutant ==
    /\ pc = "read" /\ data = <<>> /\ nextRevision = NumBlocks(revision)
    /\ ReadFails(FALSE)
    /\ IF seeking THEN TRUE ELSE UNCHANGED <<data, corrupt>>
    /\ UNCHANGED <<serverVars, faults>>

\* The buffer is empty and no block is left.
EndOfFile ==
    /\ pc = "read" /\ data = <<>> /\ nextRevision = NumBlocks(revision)
    /\ ReadFails(TRUE)
    /\ IF seeking THEN TRUE ELSE UNCHANGED <<data, corrupt>>
    /\ UNCHANGED <<serverVars, faults>>

Populate ==
    /\ pc = "read" /\ data = <<>> /\ nextRevision < NumBlocks(revision)
    /\ pc' = "fetch" /\ from' = nextRevision /\ i' = nextRevision
    /\ UNCHANGED <<serverVars, seeking, openVars, skip, nextRevision, data, fetched, corrupt,
                   want, closed, faults, callerVars>>

\* The condition of the loop over the blocks of the batch
MoreToFetch == pc = "fetch" /\ i - from < Batch /\ i < NumBlocks(revision)

\* A block arrives and passes all checks.
GetBlock ==
    /\ MoreToFetch /\ ~closed
    /\ data' = data \o BlockBytes(revision, i + 1)
    /\ fetched' = fetched \cup {i + 1}
    /\ nextRevision' = i + 1 /\ i' = i + 1
    /\ UNCHANGED <<serverVars, pc, seeking, openVars, skip, from, corrupt, want, closed, faults,
                   callerVars>>

\* It does not arrive, cannot be decrypted or has a wrong signature.  The blocks
\* of a deleted revision may be gone for good.
GetBlockFails ==
    /\ MoreToFetch /\ ~closed
    /\ IF revision \in kept THEN faults < MaxFaults /\ faults' = faults + 1 ELSE UNCHANGED faults
    /\ ReadFails(FALSE)
    /\ IF seeking THEN TRUE ELSE UNCHANGED <<data, corrupt>>
    /\ UNCHANGED serverVars

\* Its hash is wrong, which is found after it was written to the buffer.
BadHash ==
    /\ MoreToFetch /\ ~closed /\ faults < MaxFaults
    /\ faults' = faults + 1
    /\ ReadFails(FALSE)
    /\ IF seeking THEN TRUE
       ELSE data' = data \o BlockBytes(revision, i + 1) /\ corrupt' = TRUE
    /\ UNCHANGED serverVars

\* reader.protonDrive.c, after Close
NilDrive ==
    /\ MoreToFetch /\ closed
    /\ pc' = "panicked"
    /\ UNCHANGED <<serverVars, seeking, openVars, skip, readerVars, want, closed, faults,
                   callerVars>>

ServeFetched == pc = "fetch" /\ ~MoreToFetch /\ Serve

-----------------------------------------------------------------------------
Others == (\E r \in Revisions : CommitRevision(r) \/ DeleteRevision(r)) \/ DeleteFile

DownloadFile ==
    \/ CallFails \/ GetRevisions \/ GetRevisionAllBlocks \/ GetAttrs \/ NilAttrs
    \/ Skip \/ SkipFails \/ Skipped

Reader ==
    \/ ServeBuffered \/ EndOfFile \/ Populate \/ GetBlock \/ GetBlockFails \/ BadHash
    \/ NilDrive \/ ServeFetched

Caller == (\E o \in Offsets : Call(o)) \/ (\E n \in ReadSizes : Read(n)) \/ Close \/ Drop

Panicked == pc = "panicked" /\ UNCHANGED vars

Next == Others \/ DownloadFile \/ Reader \/ Caller \/ Panicked

Spec == Init /\ [][Next]_vars

\* A request is answered or fails, and a caller that has a reader goes on to
\* read from it (or closes it).
FairSpec == Spec /\ WF_vars(DownloadFile \/ Reader \/ \E n \in ReadSizes : Read(n))

-----------------------------------------------------------------------------
(* Properties *)

Gone == pc \in {"idle", "panicked"}

Opening == ~Gone /\ (seeking \/ pc \in {"list", "blocks", "attrs"})

\* A caller that was given a reader gets the bytes of one revision, that of the
\* attributes it was given, from the offset it asked for to the end, whatever
\* fails in between and whatever other clients do; only a wrong hash ends this.
Stream == INSTANCE ByteStream WITH
    Size   <- FileSize,
    status <- IF Gone THEN "idle" ELSE IF Opening THEN "opening"
              ELSE IF corrupt THEN "broken" ELSE "open",
    asked  <- IF Gone THEN 0 ELSE asked,
    file   <- IF Gone \/ Opening THEN NoRevision ELSE revision,
    attrs  <- IF Gone \/ Opening THEN NoRevision ELSE attrs,
    pos    <- IF Gone \/ corrupt THEN 0 ELSE pos,
    chunk  <- IF Gone \/ corrupt THEN <<>> ELSE chunk,
    eof    <- ~Gone /\ ~corrupt /\ eof
Implements == Stream!Spec

\* "Download will start from the specified block": with the block sizes known,
\* no block that ends before the offset is fetched.
SeekSkipsBlocks ==
    ~Gone /\ revision \in Revisions /\ XAttr[revision] = "sizes" /\ asked <= FileSize[revision]
        => \A b \in fetched : asked <= Ends[revision][b]

\* Whoever keeps reading comes to the end, unless the revision is deleted.
ReachesEnd ==
    pc = "open" /\ ~closed ~> eof \/ closed \/ revision \notin kept

\* A file whose attributes are missing can be downloaded, or not, but does not
\* end the caller's process: nil is dereferenced after Close at most.
NoAttrsNoPanic == pc = "panicked" => closed
=============================================================================
