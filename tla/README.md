# A verification project for Proton-API-Bridge

Proton-API-Bridge is a Go library that gives programs such as rclone a view of
a Proton Drive account: end-to-end encrypted links (files and folders) on a
server, a client-side cache of links and keyrings, and upload and download of
encrypted blocks.  This directory holds TLA+ models of the parts of it whose
correctness depends on the order in which things happen, TLC runs that check
them on small instances, and TLAPS proofs that their safety properties and the
two refinements hold for instances of every size.

Run `tlc -config MCLinkCache_race.cfg MCLinkCache` to check a model and
`tlapm LinkCacheProofs.tla` (or any other of the eight `*Proofs` modules) to check
its proofs.  `PROJECT.json` lists the runs, the source lines each definition
translates, the theorems, the hazards and the findings.

## 1. Inventory

| component | source | state it keeps | operations |
|---|---|---|---|
| link and keyring cache | `cache.go` | `data`: link ID -> (link, keyring); `children`: link ID -> IDs cached under it; one RWMutex | `_get`, `_insert`, `_remove`, `ClearCache`, `getLink`, `getLinkKR`, `getLinkKRByID` and their non-caching versions |
| link operations | `folder.go`, `delete.go`, `file.go`, `search.go`, `drive.go` | none of their own; locals that hold `*proton.Link` across requests | list, create, move, trash, empty, attributes, search by name |
| block upload | `file_upload.go` | a batch of pending blocks, `errChan`, the drive's `blockUploadSemaphore` | `uploadAndCollectBlockData`, `collectUploadErrors`, `commitNewRevision` |
| drafts and conflicts | `file_upload.go` | none locally; draft links and revisions on the server | `createFileUploadDraft`, `handleRevisionConflict`, `recoverBrokenConflictState` |
| download | `file_download.go`, `file.go`, `crypto.go` | the reader: buffer, next block, EOF flag | `DownloadFile`, `Read`, `Close`, block verification |
| recursive listing and search | `folder_recursive.go`, `search_recursive.go` | the call stack, the list of paths | `listDirectoriesRecursively`, `SearchByNameRecursively` |
| mail | `mail.go` | locals of `SendEmail`; the caller's `errChan` | `SendEmail` |
| session | `common/user.go`, `common/keyring.go`, `common/proton_manager.go` | credential in the config, in the API client and in a file | `Login`, `NewProtonDrive`, `Logout`, the handlers for refreshed tokens |
| setup and configuration | `drive.go`, `shares.go`, `volumes.go`, `common/config.go` | main share, keyrings, options | `NewProtonDrive` |
| API compatibility | `compat_reflect.go`, parts of `folder.go`, `file_upload.go` | none | choose an API method by reflection |

How they interact.  Every operation is an ordinary function on the caller's
goroutine: it reads links and keyrings through the cache, sends requests with
`protonDrive.c`, and drops links from the cache with `removeLinkIDFromCache`.
A cache access holds the mutex; nothing is held from one access to the next or
over a request.  Callers share the cache and the semaphore, nothing else.  An
upload starts one goroutine per block and hears from them on `errChan`.  There
is no event system: changes made by other clients reach the cache only when an
entry is dropped and fetched again.

What is hard.

* Cache: links held in locals and in the cache age independently; a request's
  answer is inserted after whatever happened in between; keyrings are found by
  recursion over cached parents; a contradiction between the two maps ends the
  whole process with `log.Fatalln`; `_remove_nolock` recurses through maps it
  is changing.
* Operations: they mix links of different ages when they re-encrypt a
  passphrase, and must invalidate exactly what they change.
* Block upload: batch boundaries, the final flush, errors and cancellation with
  goroutines under way, one semaphore for all uploads.
* Drafts: a name conflict is resolved by a sequence of requests while other
  clients do the same; crashes and lost answers leave drafts behind.
* Download: errors after part of a batch has reached the buffer, seeking by sizes that belong to one
  revision while other clients replace the file.
* Walks: the tree changes between two listings of one walk.
* Session: the API client refreshes tokens at any time, which makes every copy of the old ones worthless.
* Mail: `SendEmail` goes on after an error, and its results are all the caller learns.
* The API client repeats requests whose answers it loses (`defaultAPIRequestRetryCount`).

What makes each correct: the maps of the cache agree and a removal is atomic
and complete; a keyring lookup decrypts every link with the key its passphrase
is encrypted to; an operation that refreshes its link acts on the fresh one; no
link is ever left encrypted to the wrong parent; a committed revision has all
its blocks; permits are conserved and no goroutine outlives its batch; two
clients never write into one revision, and a client that may replace drafts
always gets its upload through in the end; a download delivers the bytes of one revision from the offset on;
a walk lists what stayed in place once; a caller that keeps what it is returned and told can take up its session after a
crash, tokens and key pass; a first result of nil means that the mail has gone out whole.

`PROJECT.json` lists the hazards of the code, each at its line and with the
properties aimed at it; those without a property say why.

## 2. Modules

| module | what it is |
|---|---|
| `LinkTable` | the two maps of `cache.go` and its critical sections as operators: `Insert`, `Remove`, `SetKeyring` |
| `CacheTable` | abstract specification: the table changes by whole insertions, removals and clearings |
| `CacheRemove` | the recursion of `_remove_nolock`, one step per call, iteration and return; refines `CacheTable` |
| `LinkCache` | the cache, the operations that use it, several callers, the server and other clients |
| `LinkCacheInvariant` | the inductive invariant of `LinkCache` |
| `LinkCacheProofs` | what holds of `LinkCache` whoever calls it |
| `LinkCacheAloneProofs` | what holds of it for a program with one caller |
| `CacheRemoveProofs` | theorems about `CacheRemove`, the refinement among them |
| `UploadBlocks`, `UploadBlocksProofs` | reading loop, batches, goroutines, semaphore, commit |
| `UploadDraft`, `UploadDraftProofs` | `createFileUploadDraft` with several clients and an unreliable network |
| `ByteStream` | abstract specification: the bytes of one revision, in order, from an offset to the end |
| `DownloadReader`, `DownloadReaderProofs` | `DownloadFile` and its reader, with other clients that commit and delete revisions; refines `ByteStream` |
| `TreeWalk`, `TreeWalkProofs` | the recursive listing and the recursive search over a tree that others change |
| `Session` | login, credential file, refresh, logout, crash |
| `SendMail` | `SendEmail` on goroutines that share a channel and the session |
| `CompatRoute` | the choice of an API method by reflection |
| `DriveClient`, `DriveClientProofs` | composes the last three: a program that embeds the library |
| `MC*` | instances for TLC |

Definitions named `*_Mutant` are copies of the definition below them with a
plausible defect (a missing invalidation, a skipped flush, a lost release).
No specification uses them; each shows that a property can fail.

### LinkTable, CacheTable, CacheRemove

A table is a record of the two Go maps, as total functions: an absent entry of
`data` is `None`, an absent children map is empty (the code ends the process in
the same way whether the parent's map is missing or lacks the link).  `Remove`
gives the result of a removal at once: the links reached are the least set that
contains the link and, when children are included, is closed under "cached and
registered under a link of the set".  `RemoveIsFatal` says when the code would
reach one of its two `log.Fatalln`.

That the code computes this is what `CacheRemove` shows.  It keeps the stack of
active calls, and lets `range` yield any child that is still in the map and was
not yielded before (a key deleted before its turn is not yielded; nothing is
added while the lock is held).  The refinement mapping reads the table as it
was when the lock was taken, so that one removal is one step of `CacheTable`.
Because `InsertLink` takes any link with any parent but itself, the tables
include loops of cached parents, registrations left under earlier parents and
children of links that are not cached.

### LinkCache

`server` has one record per link ID: the parent, the node its passphrase is
encrypted to (`encTo`, equal to the parent when all is well), the state and a
version that counts changes.  A cached link is such a record as it was when the
server answered.  The keyring of a node is represented by the node, that of the
share by `NoLink`; `GetKeyRing(parentKR)` succeeds exactly if the keyring is the
one the passphrase is encrypted to.

An operation is a sequence of step names (`Program`): one for each cache
removal, link or keyring lookup, check and request in the Go function, in its
order.  `Proceed` goes on to the next step and enters the lookup it begins with;
every failing step ends the operation (`return err`).  `MoveByID` stands for
`MoveFileByID` and `MoveFolderByID`, which are the same code.  `UploadNewFile`
and `UploadNewRevision` keep of an upload what the cache sees of it; creation
and commit of a new file are one server step there, their inner order belongs to
the two upload modules.

A lookup is a small machine per caller (`call`).  `get` tries the cache, `fetch`
is the request, `insert` puts the answer into the cache: three steps, because
others act between them.  `kr`, `plant` and `krById` are `getLinkKR`, its
insertion of an uncached link and `getLinkKRByID`; `climb` is the stack of
pending `getLinkKR` calls, and `unwind` decrypts them from the top down.  The
code writes `data.kr` through a pointer without the lock.  The entry may have been
replaced meanwhile, and the memory model does not say when another goroutine
sees the write; so with other callers `Decrypt` may or may not change the table.
A `log.Fatalln` or a stack overflow ends the process: the cache and all
operations vanish and, for the latter, the program may be started again.

Two things are bounded: `MaxChanges` changes of server state, and `MaxDepth`
nested keyring lookups before the stack counts as exhausted.  Every instance has
fewer links than `MaxDepth`, or as many, so a lookup exceeds it only in a loop.

`MoveEmptyFolderToTrashByID` is `MoveFolderToTrashByID` with `onlyOnEmpty`: its listing and the
request that trashes are two steps.

Left out: names, hashes, signatures, content; the sleep after a move; the
listing and checking inside `GetActiveRevisionWithAttrs`, which is one of the
reads of a download here and spelled out in `DownloadReader`.

The server is external.  It is assumed to refuse moving an inactive link,
moving into an inactive folder or into the link's own subtree, trashing a link
that is not an active child of the named parent, and creating in a folder that is
not active; and, once a link is deleted, not to return it.

### UploadBlocks

`pc` follows `uploadFile` through verification, the reading loop, `RequestBlockUpload`,
collection and commit.  The file is not fixed in advance: each read yields a full
block, a short one, the end or an error.  A block is its Index.  Each goroutine
goes from `start` over `waiting`, `granted` and `uploading` to `release` and
`done`.  `semaphore.Weighted` is modelled as its source works: a free permit is taken
only if nobody waits, otherwise the caller queues; a permit given back goes to the
first waiter, who looks at its context once more and gives it on if that is done.  A goroutine whose context
is done before it has a permit leaves the queue it may be in (`Unqueued`) and holds none.
The result is sent before the deferred release.  An upload that fails may have
stored its block.  A caller may cancel its context at any time.

### UploadDraft

Every request of `createFileUploadDraft` is a step, between which other clients
act.  A fault (bounded by `MaxFaults`) is a request that is not carried out, an answer
that is lost after the server acted (the call then fails, or the API client, which is
created with a retry count, makes the same request again), a crash between two requests, or the server
dropping the revision of a draft while its name stays reserved: the "broken
conflict state" of `handleRevisionConflict`.  `retried` says that `createFileAction`
has run twice; `SubmitAgain` then ignores the flag, as the code does.  `MaxRevs` bounds the
revisions created; when it is reached the server has no room (`ServerFull`).
Assumed of the server: a name has at most one active or draft link, a file at most
one draft revision ("there is a restriction of 1 draft revision per file"),
`DeleteChildren` refuses links that are not drafts, `DeleteRevision` "will fail if the file
only have a draft but no active revisions", and the revisions of a deleted or broken
link are reported as not found.

### DownloadReader, ByteStream

A byte is a pair of a revision and a position, so that a mixture of revisions, a gap or a
repetition shows.  `Ends` gives the end of each block of each revision.  `DownloadFile` is a step
for each request (`GetRevisions`, `GetRevisionAllBlocks`), one for the attributes and the seek
(`GetAttrs`), and then the same `Read` that the caller uses, driven by `io.CopyN` until `skip`
bytes are discarded.  `Populate`, `GetBlock` and the failures are the loop of
`populateBufferOnRead`: a block that arrives advances `nextRevision` and stays in the buffer when a
later block of the batch fails.  `BadHash` puts the block into the buffer and then fails, as
`decryptBlockIntoBuffer` does.  Every other error of a block (request, decryption,
signature) is `GetBlockFails`.  After `Close` the drive is nil; a `Read` that needs a block then ends
the process (`NilDrive`).

The refinement mapping shows the caller's view: nothing while `DownloadFile` runs, then the revision
and attributes it was given, the position and what the last `Read` returned.  `ByteStream` lets a call
fail without losing its place; a hash error is its `Break`, after which nothing is promised.

Assumed: the block sizes in a revision's attributes, if there are any, are those of its
blocks, and blocks are not empty.

### TreeWalk

A walk is a stack of loops, each with the folder's path and the children it has not come to yet,
as its listing had them.  `visit` is the link passed to the next call.  The listing and the search
differ in which states they walk through (`Walked`), what they do at a link, and when they stop;
`ListChildren`, `NextChild` and `LoopEnds` are common to them.  Between any two steps other clients
create, commit, move, trash, restore and delete.  A keyring, a name or, with `download`, a file on disk
that cannot be had ends the walk (`WalkFails`).

Assumed of the server: one answer of `ListChildren` is a snapshot (the API client collects its pages),
a name is used once among the active and draft links of a folder, at the start too (`NamesUnique`), and folders form no loop.
Listings begin at the root, as every call of `listDirectoriesRecursively` in the repository does; a search begins anywhere.
`StablePaths` gives the paths of links that have not changed since the call began, level by level (`Down`).

### Session, SendMail, CompatRoute, DriveClient

The tokens of a session are its UID and the number of times they had been refreshed; only the newest are accepted
by the server.  A credential is tokens with or without `SaltedKeyPass` (`salted`), without which `getAccountKRs` unlocks
nothing: a login that reuses a credential without it gets no further than `keys`, as `""` decodes to a slice that is not nil, so that
no salts are fetched (`common/user.go:71-75`, `common/keyring.go:22-75`).  There are copies in the API client (tokens only), in the
config, in the file and with the caller (`told`: what `NewProtonDrive` returned, with the key pass, and what the auth
handler was called with, without it).  The key pass is derived from the password of the account and its salt; the
password is assumed not to change, so that all sessions have one.

The steps of `Login` and `NewProtonDrive` follow the code's order, in particular that the handlers are registered before
the first request, that the credential a first login returns is the one it began with, that the key pass is there only after
`getAccountKRs`, that the caller is returned it only by `NewProtonDrive`, and that the file is truncated before it is written.
The process may crash anywhere, and is started again with any credential of `Available`: tokens that the
caller was told or the file holds, stale ones included, without a key pass or with one it has from
anywhere.  With a file, starting on a credential without a key pass overwrites it with that one before it fails.  The
config that a failed login leaves filled in (`common/user.go:130-133`) is in memory; no caller is assumed to look there.

`SendEmail` is a goroutine per mail.  An error is put on `errChan`, which has `ChanSize` places, and
the function goes on: without a draft it dereferences nil at the first use of the draft's ID (`Dies`), without attachments it
sends the mail bare.  Nothing in the repository calls `SendEmail`; the caller modelled receives until it has the nil of each mail.

`CompatRoute` gives the API client any of the five kinds of method under each of the two names and
follows `findAndCallMethod` and `moveLinkCompat`; `getRevisionVerificationCompat` makes the same choices.
A request that the API client repeats by itself counts as one.

In `DriveClient` the three share the session: a request is carried out only while the client's
tokens are accepted, and a panic or `log.Fatalln` in a mail ends everything in the process.  The program logs out only when its
calls have returned.

## 3. Runs

Passing runs:

| run | instance | what it shows |
|---|---|---|
| `alone` | a root, two folders (one of them yet to be created) and a file; one caller; 3 changes | With nobody else about, the cached tree is the server's between operations (`TreeCoherent`), trashing takes out of the cache every link that cached parents lead from to the trashed one, at any depth (`TrashFlushes`; past an evicted link it does not reach, and nothing is promised), and the cached parents never form a loop (`NeverOverflows`). Any operation that did not drop what it moved or trashed would break this. |
| `others` | a root and two folders, one caller, another client that moves and changes links, lost replies, restarts; 3 changes | An operation that starts by dropping its link acts on a link at least as new as its own start (`RefreshedBeforeUse`); a move or creation never leaves a link its parent's key cannot open (`ServerDecryptable`), although the parents used may be stale: the server then refuses, or the re-encryption fails. |
| `race` | a root, a folder, a file, two interleaved callers, one move by another client | No `log.Fatalln` (`NeverFatal`), no link decrypted with another's key (`KeyringSound`), and the inductive invariant of the proofs (`IInv`). |
| `uncached` | `EnableCaching = FALSE`, uploads, a download, moves, lost replies | The non-caching lookup uses matching keys, and every operation returns (`OpsReturn`). |
| `remove` | every table that three links can make | `Implements` (the refinement), `MapsAgree`, `NoReentry` (the recursion enters no link twice). |
| `uploads` | two uploads of up to 5 blocks and 1 block, batches of 2, one permit | A committed revision has every block, in order and with its size (`CommittedIsComplete`); no sender on `errChan` blocks (`ErrChanHasRoom`); no goroutine outlives its batch (`NoStragglers`), permits are conserved (`PermitsConserved`) and, under fairness, every upload returns (`UploadsReturn`). |
| `draft` | two clients, one of which replaces drafts; 5 revisions, 2 faults | `NoSharedRevision`, `ConservativeKeepsDrafts`, and under fairness `RetrySucceeds`. |
| `download` | four revisions (three blocks with sizes, two blocks without, empty, without attributes), offsets from -1 to beyond the end, batches of 2, 2 changes by others, 2 faults | The caller gets the bytes of one revision from its offset on, whatever fails or changes (`Implements`); a seek fetches no block that ends before the offset (`SeekSkipsBlocks`); whoever keeps reading reaches the end (`ReachesEnd`). |
| `walk` | a root, two nested folders, a file, a file of the same name yet to be created; six listings and searches; 3 changes by others | What stays in place is listed once, under its path and within the depth (`ListsStableOnce`); no two links are listed under one path (`PathsDistinct`), so that a download of the tree overwrites nothing; nil means that nothing of the name stayed in place (`NilMeansAbsent`); the walk ends (`WalkReturns`). |
| `client` | two logins, one refresh each, with and without a file; a mail with two attachments and one to an external recipient on a channel of one place; every pair of methods | A caller that was returned a credential, or whose drive is open, can put together accepted tokens and a key pass (`CallerCanResume`); from the moment a login has its keys, the file holds the key pass, and it or the handler the tokens (`FileCanResume`). `FirstNilMeansSent`, `AtMostOneRoute`, and under fairness `MailsEnd`. |

The type invariants are checked in `alone`, `uploads`, `draft`, `download`, `walk` and `client`.

Why the bounds are enough.  `alone`: creating, moving and trashing one folder takes
three changes, which exercises each invalidation after every other operation.
`others`, `loop`: a loop of cached parents needs two folders and three changes (below).
`race`: the races are between one caller's request and insertion, or between two steps of
its climb, and another's removal or one move; a further change adds a further version of
the same link, not a new kind of interleaving.  `remove`: three links give every shape of
`data` and `children` that two nested calls and a third link outside them can meet.
`uploads`: 5 = 2 * 2 + 1 covers an empty file, one short and one full batch, a file that
ends on a batch boundary and one that ends just after it; a batch of two on one permit has a goroutine of the
other upload queue between, before or behind its own, with either upload being cancelled.  `download`: with three blocks
of different sizes offsets fall inside, at and after every boundary; `DOWNLOAD_BATCH_BLOCK_SIZE` is 1 today,
the run takes 2 so that a batch can fail half-way and a short batch ends the file; of two changes by others one
can replace the revision between two requests and the other delete it; two faults hit one Read twice, or two Reads.
`walk`: three changes move a folder out of the part listed, back, and change what is in it; two nested folders are
the least in which a folder can be moved below one listed later.  `client`: one refresh makes a stale copy,
two sessions tell copies of different sessions apart; a channel of one place with two mails makes a sender wait for the other's result.  `draft`: one fault leaves a draft, the second
meets the attempt to get past it; five revisions let both clients start over twice.

Besides the runs above, three configurations are kept to show what the findings below say:
`MCLinkCache_refill.cfg`, `MCLinkCache_loop.cfg` and `MCUploadDraft_norev.cfg` each end in a violation of the one property
they name.

Fairness.  `LinkCache!FairSpec`: weak fairness of each caller's next step inside an
operation.  It is ordinary code on a scheduled goroutine, and each request is answered or
fails, by the HTTP client's limits or the context.  Beginning operations, other clients
and restarts have none.  `UploadBlocks!FairSpec`: an upload that can take a step, in
any of its goroutines, takes one (weaker than fairness of each goroutine, and enough, since each
has finitely many steps); cancellation has none.  `UploadDraft!FairSpec`: a client's requests are
answered, and a client that has not succeeded tries again, which is what rclone's retries do;
faults, reaping and uploads begun after success have none.  `RetrySucceeds` allows
for other clients that go on creating revisions until the bound is met.  `DownloadReader!FairSpec`: requests are answered
or fail, and a caller with a reader goes on to read from it; closing, faults and other clients have none.
`TreeWalk!FairSpec`: the walk's goroutine runs and its requests are answered.  `DriveClient!FairSpec`: each mail's goroutine runs,
and the caller receives; sessions, refreshes and crashes have none.

`CHECK_DEADLOCK` is never switched off.

### Findings

Runs that end in a violation, each of one statement of the repository:

* `own_commit` / `ByIDGetsLatest`.  The README says that functions `...ByID` need to
  remove the link first "in order to get the latest data!".  `GetActiveRevisionAttrsByID`
  does not, nor does any upload invalidate the file it committed: after one's own new revision, the
  attributes by ID are those of the old one until something else drops the link.
* `noattrs` / `NoAttrsNoPanic`.  `GetActiveRevisionWithAttrs` reads the modification time of attributes
  that may be nil ("Might return nil when xattr is missing", `file.go:46`, where they are checked): downloading a revision
  without attributes ends the process, although `DownloadFile` has a branch for nil attributes and a
  fallback for missing sizes.

Shown by a configuration that is kept:

* `MCLinkCache_refill.cfg` / `RefreshedBeforeUse`.  One caller's `GetLink` has been answered; the file changes; a
  second caller drops the link; the first caller's insertion puts the old answer back; the second
  takes it from the cache as "the latest".  The passing run `others` checks the same property
  for a single caller, which cannot do this to itself.
* `MCLinkCache_loop.cfg` / `NeverOverflows`.  `a` is cached as a child of `b`.  Another client moves `a` to the root and `b`
  into `a`.  `b` is fetched now: each cached parent names the other, and `getLinkKR` recurses
  until the stack is exhausted, which in Go ends the process.
* `MCUploadDraft_norev.cfg` / `DraftHasRevision`.  `createFileUploadDraft` submits the creation again at most once, but
  ignores that the second conflict too was resolved by deleting a draft: it returns without an
  error, with the deleted link and an empty revision ID, and the upload fails later, at the
  first request that names the revision (`file_upload.go:381`).

Met on the way, without a run:

* Between the search for an active file and the search for a draft the
  draft may become active, and `ErrCantLocateRevision` is returned for a file that is there
  (`file_upload.go:338-352`); the retry that `RetrySucceeds` is about gets past it.
* A request that the API client repeats meets its own effect: `CreateFile` finds its own draft and, unless drafts are to be
  replaced, the upload is refused because of it; a repeated commit reports an error for a file that was committed.
* A block whose hash is wrong is in the buffer when `Read` returns the error; the next `Read` returns those bytes, and
  the block is then fetched again and returned once more (`crypto.go:151-165`; `README.md:57` lists "Check signature and hash" as done).
* A seek beyond the end fetches every block before it fails: no block size matches, so the download starts at block 0 (`file_download.go:149-160`).
* The size `DownloadFile` returns is that of the link, which may be of an earlier time than the revision (`file_download.go:180`).
* A draft that cannot be created always ends in a nil dereference, or in an error of the attachments and then a nil
  dereference (`mail.go:28-38`), and an external recipient in `log.Fatalln` (`mail.go:152`), of which `README.md:68` says that all were removed.
  A mail whose attachments fail is sent without them, after the error was reported.
* The credential `Login` returns and writes to the file is the one it began with, and the file never hears of a refresh; only the auth
  handler does, and it is given tokens without the key pass (`common/user.go:130-145`).  `CallerCanResume` needs both sources for that reason.
* Without a file, a crash before `NewProtonDrive` returns leaves a caller with no key pass: whatever tokens its handler was
  given, the keys stay locked (`common/user.go:71-78`, `common/keyring.go:37-62`).
* Between `os.Create` and `WriteString` the file is empty (`common/user.go:28-33`): a crash there, also in a login that reuses the
  credential, loses the key pass it held.  `FileCanResume` begins when the file is written.
* `MoveFolderToTrashByID` with `onlyOnEmpty` lists the children and then trashes (`delete.go:49-60`): a child that another client
  creates between the two is trashed too.  The client has no request that does both, and no document promises more.
* A login or setup that fails after the password was accepted leaves the session open on the server, and the caller has no
  credential to close it with (`common/user.go:98-137`, `drive.go:63-131`).
* `ErrFailedToUnlockUserKeys` is never returned: it stands behind a test of an `err` that is nil there (`common/keyring.go:63-67`).
* While another client moves folders, a listing may have a moved link twice, or not at all; `ListsStableOnce` is about the others.

## 4. Proofs

Every safety invariant, every action property and both refinements that a passing run checks are
also proved, for all values of the constants: any number of links, callers, clients, blocks, mails
and steps, with the bounds of the runs (`MaxChanges`, `MaxFaults`, `MaxRevs` and the like) being arbitrary numbers.

| module | theorems (and the property each states) |
|---|---|
| `LinkCacheProofs` | `Invariance` (`IInv`), `TypeCorrect` (`TypeOK`), `NoFatal` (`NeverFatal`), `KeyringsRight` (`KeyringSound`), `NothingLocked` (`ServerDecryptable`) |
| `LinkCacheAloneProofs` | `Preparation` (the invariant for one caller), `RefreshesFirst` (`RefreshedBeforeUse`), `TrashEmptiesCache` (`TrashFlushes`), `RecursionEnds` (`NeverOverflows`), `CacheCoherent` (`TreeCoherent`) |
| `CacheRemoveProofs` | `RemovalInvariance`, `RemovalsAgree` (`MapsAgree`), `RemovalsEnd` (`NoReentry`), `RemovalsNeverFatal` (`[]~dead`), `Refinement` (`Implements`) |
| `UploadBlocksProofs` | `Invariance`, `TypeCorrect` (`TypeOK`), `Complete` (`CommittedIsComplete`), `Stragglers` (`NoStragglers`), `Permits` (`PermitsConserved`), `Room` (`ErrChanHasRoom`) |
| `UploadDraftProofs` | `Invariance`, `TypeCorrect` (`TypeOK`), `Exclusive` (`NoSharedRevision`), `Conservative` (`ConservativeKeepsDrafts`) |
| `DownloadReaderProofs` | `Invariance`, `TypeCorrect` (`TypeOK`), `SeekSkips` (`SeekSkipsBlocks`), `Refinement` (`Implements`) |
| `TreeWalkProofs` | `Invariance`, `TypeCorrect` (`TypeOK`), `Distinct` (`PathsDistinct`), `Absent` (`NilMeansAbsent`), `ListedOnce` (`ListsStableOnce`) |
| `DriveClientProofs` | `Invariance`, `TypeCorrect` (`TypeOK`), `Resumable` (`CallerCanResume`), `FileResumable` (`FileCanResume`), `FirstNil` (`FirstNilMeansSent`), `OneRoute` (`AtMostOneRoute`) |

### Assumptions

The named assumptions of the modules, which TLC evaluates in every run of theirs, and so finds satisfied by
each instance:

* `LinkCache`: `ConstantsAssumption` (the types; the root is a folder without a parent), `OpsAssumption` (the operations are
  those of `Program`), `NoneAssumption` (Go's nil is not a link, an entry or an operation) and `TreeAssumption`
  (the links there are at the start hang from the root: the parent of each exists, and they form no loop).
  `Links` need not be finite, except in `RecursionEnds`.
* `CacheRemove`: nil is not a link.
* `UploadBlocks`: the semaphore's size is a number (zero allowed), the batch size is positive, each file has some number of blocks.
* `UploadDraft`: the replacing clients are clients, the bounds are numbers, nil is not a number.
* `DownloadReader`: blocks are not empty, sizes come from the attributes if there are any, the batch size and the lengths of
  reads are positive; offsets are any integers.
* `TreeWalk`: finitely many links, names unique in each folder at the start, result codes are not links, listings begin at the root.
* `Session`, `SendMail`: `Nothing` is no number, no tokens and no credential, `Empty` no credential; the channel has room for at least one result.

`LinkCacheAloneProofs` adds hypotheses to its theorems, each because the property is false without it:

* `OneCaller`: one goroutine calls the bridge (two callers refute `RefreshedBeforeUse`, configuration `refill`).
* `"move" \notin OthersMay`, for `RecursionEnds`: another client's move makes the loop of configuration `loop`.
* `Undisturbed` (no other client moves or trashes), for `CacheCoherent`.
* `LostReplies = FALSE`, for `CacheCoherent`: a trash request whose answer is lost leaves the link cached as active.
* `Ops \cap ByLink = {}`, for `RecursionEnds` and `CacheCoherent`: an operation on a `*proton.Link` that the program kept from
  earlier caches that link, however old it is by now (`Plant`).
* `Cardinality(Links) <= MaxDepth`, for `RecursionEnds`: the stack has room for one call per link.

The instance of run `alone` satisfies all of them at once, with changes, moves and trashing by its caller.

### The arguments

None of the properties is inductive as it stands.  Each module states the invariant it needs, proves that every action
preserves each of its conjuncts, one lemma per action, and derives the properties; the temporal step is by PTL.

**The cache, whoever calls** (`LinkCacheInvariant`).  `KeyringSound` speaks of a lookup that is about to
decrypt; that it brings the right key depends on what it was looking for ten steps earlier, while other
callers replaced the very entries it read.  `IInv` closes the gap with four facts:

1. `ServerOK`, `HeldOK`, and parts of the others: every link anybody holds, on the server, in the
   cache, in a local or on a climb, is a *snapshot*: its passphrase is encrypted to the parent
   that the same record names.  It may be old, but it is consistent in itself.  This is where the
   code's habit of taking the parent and the passphrase from one `*proton.Link` matters
   (`Climb_Mutant` breaks it).
2. `TableOK`: an entry is of the link it is stored under, has no keyring but its own, and is
   registered with its parent.  This makes `RemoveIsFatal` false, for any loop or leftover.
3. `LookupOK`: a lookup in progress is for a node (`Goal`) fixed by the operation's step; the
   links of its climb lead up from there, each being the parent named by the one before
   (`ClimbOK`), and what it fetches, finds or unwinds with is the node `Wanted` at its end.  Other callers' steps
   cannot disturb it, because it speaks of the caller's own locals only.
4. `Ready`: the links and keyrings the earlier steps of an operation were to provide are there; so a
   move re-encrypts to the keyring of the very folder it names as destination.

`Proceed` and `Enter` are dealt with once for all operations: facts about `Program` (which steps come
before which) are lemmas by cases on the operation, and the rest never opens it.

**The cache, for one caller** (`LinkCacheAloneProofs`).  Here the order of steps inside an operation carries the
argument.  `ProgramShape` says of all operations where the removals are: a removal with all
children ends an operation that began with the removal of its link and then fetched it; a move comes directly after
a second removal; a trash directly before the removal of the tree; the operations on the whole drive clear the cache first.
`Prepared` says what this leaves behind at each step (the link is not cached when its move goes out, is cached when its
tree is removed, can only be fetched when an operation by ID looks it up).  `ParentsKnown` then says that every link the
client has anywhere, in the cache, in the operation or on a climb, exists and has the parent the server has for it.  It is preserved because
the client gets links from nowhere but the server (`Provenance`), and because the only step that changes the parent of an
existing link is the client's own move, of a link that it has nowhere at that moment.  With `Rooted`, that the server's tree has no
loop (a move below itself is refused; a new link has nothing below it), the links of a climb are pairwise different
(`ClimbShort`), hence no more than there are links, and the recursion ends.  `StatesKnown` says the same of states, with one
exception, the link whose removal is the step at hand.

For `TrashEmptiesCache`: `removeTree` follows registrations, the property cached parents.  Every cached link is registered with
its parent (`TableOK`), so what the removal reaches is closed under cached parents (`RemovesBelow`), and `Prepared` has
the trashed link in the cache when the removal starts, without which it would return at once.

**The recursive removal** (`CacheRemoveProofs`).  The delicate step is the `delete(cache.children, link.LinkID)` after the
loop, which throws away a whole map of registrations.  The invariant says why nothing cached is lost with it: every link a
call has yielded is no longer in `data`, except the one just being entered (`FramesOK`), and the loop ends only when
every child still in the map has been yielded.  For the refinement, `HistoryOK` relates the maps in the middle of a removal to
those at the lock: `data` lacks just the links gone so far, `children` lacks their registrations and the maps of the calls that
have returned, and below a call that has returned nothing cached is left.  When the last call returns, what is gone is
closed under the recursion and contains nothing that was not to go, which is the set `CacheTable` removes in one step.

**Block upload** (`UploadBlocksProofs`).  `LoopOK` ties the counter, the batch, the manifest and the sizes of the loop together;
`TaskOK` says of each goroutine, by the position of its block before, in or after the batch, in which states it may be;
`ResultsOK` counts: results collected plus results on the channel are the goroutines that have reported, and as long
as all are good each of their blocks is stored.  That gives completeness, room on the channel and no stragglers.
`QueueOK` (a permit is free only if nobody waits; whoever waits is queued once) is what the conservation of permits rests on.

**Drafts** (`UploadDraftProofs`).  A revision number is given out once, and no two clients upload into one revision because a client gets its
revision by creating it: drafts found on the way are deleted or refused, never taken over.  That a conservative client spares
live drafts follows from `ClientOK`: it deletes a link only in `recover`, when nobody can read its revisions any more.

**Download** (`DownloadReaderProofs`).  `BufferOK`: the buffer is the file from the reader's place to the end of the last block
fetched, unless a hash error has corrupted it.  Each step of the reader is then a step of `ByteStream` or stutters.  That later blocks start later
needs induction over the block number; it is done by a least counterexample (`LeastElement`, from the library's
theorem on minimal elements of well-founded relations).

**Walks** (`TreeWalkProofs`).  `ListCovers` and `SearchCovers`: each path of stable links has been written, or has a link on it that the walk is yet to look
at; so when nothing is left, everything has been written.  `ChainsOK`: on a path as it is
written, each link that has not changed lies in the folder before it.  `NamesOK` says why no two paths coincide although names are unique
only at each moment: names still to be walked differ from all that is written, and one listing is one snapshot.  The paths
are related to the recursive function `Down` by least counterexamples as well.

**Session, mail, routes** (`DriveClientProofs`).  `KeptOK`: no copy of
tokens is ahead of its session.  `RefreshesTold`: the accepted tokens are those the session began with, or have been given to the handler, as
long as no answer is lost.  `ConfigOK` and `FileOK`: once a login has its keys the config holds a credential with the key pass and,
if there is a file, so does the file.  `SourceOK`: a reused credential was put together from what the caller
had, so that having it in use loses nothing of that.  `MailOK`: as long as a mail has
reported nothing, nothing of it has failed.  `RouteOK`: before a route is done, nothing has been called.

### Only model-checked

Liveness under fairness (`OpsReturn`, `UploadsReturn`, `RetrySucceeds`, `ReachesEnd`, `WalkReturns`, `MailsEnd`), which this
prover cannot do; and the properties that the code violates (`ByIDGetsLatest`, `NoAttrsNoPanic`), for which a run shows how.

## 5. Not modelled

Crypto other than which key opens which passphrase and whether a block's checks succeed; which volume and share
`NewProtonDrive` picks; the configuration's defaults; `FieldByName` helpers that fill in a request; the integration test
helper.  The content and names of files are represented only as far as a property tells them apart.
What the API client does inside (pages of a listing, the refresh itself, the rate limits) is not part of
the repository; its visible effects, a refresh at any time and a repeated request, are modelled.

## 6. Plan

Done, in this order: `LinkTable`, `LinkCache`, its invariant and proofs; `CacheTable`, `CacheRemove` and its proofs;
`UploadBlocks`; `UploadDraft`; `DownloadReader` with `ByteStream`; `TreeWalk`; `Session`, `SendMail`, `CompatRoute`, `DriveClient`;
`onlyOnEmpty` in `LinkCache` and repeated requests in `UploadDraft`.

Then the proofs, in the order of section 4: `UploadBlocks`, the refinement of `CacheRemove`, `DriveClient`, `UploadDraft`,
`DownloadReader` and its refinement, `TreeWalk`, and `LinkCache` for one caller.

To come: for `LinkCache` with several callers, which of the properties for one caller survive for the links that only one of
them works on; an abstract specification of the upload (a file appears whole or not at all) that `UploadBlocks` and
`UploadDraft` implement together; the setup in `drive.go` and the volume and share it picks, of which `Session` has only the outcome.
