----------------------- MODULE LinkCacheAloneProofs -----------------------
(***************************************************************************)
(* What the cache promises a program that calls the bridge from one        *)
(* goroutine: the properties of LinkCache that other callers could break,  *)
(* proved for every drive, any length of behaviour and everything the      *)
(* other clients of the account may do that each of them tolerates.        *)
(*                                                                         *)
(* The invariant adds to IInv, which holds whoever calls, what the steps   *)
(* of an operation establish for its later steps (Prepared) and, as long   *)
(* as no other client moves links, that everything the client knows of the *)
(* tree is the server's tree (ParentsKnown), which has no loop (Rooted).   *)
(***************************************************************************)
EXTENDS LinkCacheProofs, FiniteSetTheorems

-----------------------------------------------------------------------------
(* What the steps of an operation leave to its later steps *)

\* Config.EnableCaching off: nothing is ever cached.
CacheOff == ~EnableCaching => Cached(cache) = {}

\* The operations that remove the link and everything cached below it.
Flushes(op) == \E n \in 1..Len(Program[op]) : Program[op][n] = "removeTree"

\* moveToTrash finds the link it has trashed in the cache: it was fetched there.
FlushReady(c) ==
    job[c] # None /\ EnableCaching /\ Flushes(job[c].op) /\ job[c].at > 2 =>
        job[c].l \in Cached(cache)

\* A link is out of the cache when the request to move it goes out.
MoveReady(c) == At(c, "move") => job[c].l \notin Cached(cache)

\* EmptyTrash and EmptyRootFolder work on an empty cache and hold no link.
ClearReady(c) ==
    job[c] # None /\ job[c].op \in Global =>
        /\ job[c].src = None /\ job[c].dst = None
        /\ job[c].at > 1 => Cached(cache) = {}

\* After the removal with which it begins, an operation by ID can only get a
\* link from the server, which never goes back to an earlier version.
Refreshing(c) ==
    job[c] # None /\ Program[job[c].op][1] = "remove" =>
        /\ job[c].floor <= server[job[c].l].ver
        /\ ActsOnLatest(c)
        /\ At(c, "getSrc") =>
             /\ call[c].at = "get" => job[c].l \notin Cached(cache)
             /\ call[c].at = "insert" => call[c].link.ver >= job[c].floor

Prepared(c) ==
    /\ CacheOff
    /\ FlushReady(c)
    /\ MoveReady(c)
    /\ ClearReady(c)
    /\ Refreshing(c)

-----------------------------------------------------------------------------
(* What the client knows of the tree *)

\* The client has the link x somewhere.
JobHas(j, x) == j # None /\ (x = j.src \/ x = j.dst)

CallHas(cl, x) ==
    \/ cl.at # "none" /\ \E k \in 1..Len(cl.climb) : x = cl.climb[k]
    \/ cl.at \in {"insert", "kr", "plant"} /\ x = cl.link

CacheHas(x) == \E l \in Cached(cache) : x = cache.data[l].link

Has(c, x) == CacheHas(x) \/ JobHas(job[c], x) \/ CallHas(call[c], x)

\* Every link the client has exists, and has the parent the server has for it.
ParentsKnown(c) ==
    \A x \in Snapshot : Has(c, x) =>
        /\ server[x.id].state # "absent"
        /\ x.parent = server[x.id].parent

\* Every link the client has is in the state the server has for it, but for the
\* one it is just putting into the trash.
StatesKnown(c) ==
    \A x \in Snapshot : Has(c, x) =>
        \/ x.state = server[x.id].state
        \/ At(c, "removeTree") /\ x.id = job[c].l

\* The server's tree has no loop, and nothing hangs from a link not yet created.
Rooted ==
    /\ \A S \in SUBSET Links : S # {} => \E l \in S : server[l].parent \notin S
    /\ \A l \in Links : server[l].parent \in Links => server[server[l].parent].state # "absent"

-----------------------------------------------------------------------------
(* The operations *)

AfterFetch == {"srcIsFile", "srcIsFolder", "query", "isEmpty", "trash", "removeTree"}

AfterClear == {"emptyTrash", "listRoot", "trashListed", "deleteListed"}

\* Where in its operation each of the steps comes that the cache depends on.
StepShape(op, k) ==
    LET step == Program[op][k]
    IN  /\ Program[op][1] = "remove" /\ step = "getSrc" => k = 2
        /\ Flushes(op) /\ k > 2 => step \in AfterFetch
        /\ step = "removeTree" => k = Len(Program[op])
        /\ step = "move" => k = Len(Program[op]) /\ k > 1 /\ Program[op][k - 1] = "remove"
        /\ step = "trash" => k < Len(Program[op]) /\ Program[op][k + 1] = "removeTree"
        /\ op \in Global => (k = 1 /\ step = "clear") \/ (k > 1 /\ step \in AfterClear)
        /\ step \in AfterClear => op \in Global /\ k > 1

Shape(op) ==
    /\ Flushes(op) => Program[op][1] = "remove" /\ Program[op][2] = "getSrc"
    /\ \A k \in 1..Len(Program[op]) : StepShape(op, k)

\* A removal with all children ends an operation that began with the removal of
\* its link and then fetched it; a move comes right after a second removal.
LEMMA ProgramShape == \A op \in DOMAIN Program : Shape(op)
<1>1. SUFFICES ASSUME NEW op \in DOMAIN Program
               PROVE  Shape(op)
  OBVIOUS
<1>2. CASE op = "GetLink"
  <2>1. Program[op] = GetLink /\ Len(GetLink) = 1
    BY <1>2 DEF Program, GetLink
  <2> QED
    BY <2>1, <1>2 DEF Shape, StepShape, Flushes, Global, AfterFetch, AfterClear, GetLink
<1>3. CASE op = "GetActiveRevisionAttrs"
  <2>1. Program[op] = GetActiveRevisionAttrs /\ Len(GetActiveRevisionAttrs) = 1
    BY <1>3 DEF Program, GetActiveRevisionAttrs
  <2> QED
    BY <2>1, <1>3 DEF Shape, StepShape, Flushes, Global, AfterFetch, AfterClear,
         GetActiveRevisionAttrs
<1>4. CASE op = "GetActiveRevisionAttrsByID"
  <2>1. Program[op] = GetActiveRevisionAttrsByID /\ Len(GetActiveRevisionAttrsByID) = 2
    BY <1>4 DEF Program, GetActiveRevisionAttrsByID
  <2> QED
    BY <2>1, <1>4 DEF Shape, StepShape, Flushes, Global, AfterFetch, AfterClear,
         GetActiveRevisionAttrsByID
<1>5. CASE op = "DownloadFileByID"
  <2>1. Program[op] = DownloadFileByID /\ Len(DownloadFileByID) = 6
    BY <1>5 DEF Program, DownloadFileByID
  <2> QED
    BY <2>1, <1>5 DEF Shape, StepShape, Flushes, Global, AfterFetch, AfterClear, DownloadFileByID
<1>6. CASE op = "ListDirectory"
  <2>1. Program[op] = ListDirectory /\ Len(ListDirectory) = 4
    BY <1>6 DEF Program, ListDirectory
  <2> QED
    BY <2>1, <1>6 DEF Shape, StepShape, Flushes, Global, AfterFetch, AfterClear, ListDirectory
<1>7. CASE op = "SearchByNameInActiveFolderByID"
  <2>1. Program[op] = SearchByNameInActiveFolderByID /\ Len(SearchByNameInActiveFolderByID) = 5
    BY <1>7 DEF Program, SearchByNameInActiveFolderByID
  <2> QED
    BY <2>1, <1>7 DEF Shape, StepShape, Flushes, Global, AfterFetch, AfterClear,
         SearchByNameInActiveFolderByID
<1>8. CASE op = "CreateNewFolderByID"
  <2>1. Program[op] = CreateNewFolderByID /\ Len(CreateNewFolderByID) = 4
    BY <1>8 DEF Program, CreateNewFolderByID
  <2> QED
    BY <2>1, <1>8 DEF Shape, StepShape, Flushes, Global, AfterFetch, AfterClear, CreateNewFolderByID
<1>9. CASE op = "MoveByID"
  <2>1. Program[op] = MoveByID /\ Len(MoveByID) = 9
    BY <1>9 DEF Program, MoveByID
  <2> QED
    BY <2>1, <1>9 DEF Shape, StepShape, Flushes, Global, AfterFetch, AfterClear, MoveByID
<1>10. CASE op = "MoveFileToTrashByID"
  <2>1. Program[op] = MoveFileToTrashByID /\ Len(MoveFileToTrashByID) = 5
    BY <1>10 DEF Program, MoveFileToTrashByID
  <2> QED
    BY <2>1, <1>10 DEF Shape, StepShape, Flushes, Global, AfterFetch, AfterClear,
         MoveFileToTrashByID
<1>11. CASE op = "MoveFolderToTrashByID"
  <2>1. Program[op] = MoveFolderToTrashByID /\ Len(MoveFolderToTrashByID) = 6
    BY <1>11 DEF Program, MoveFolderToTrashByID
  <2> QED
    BY <2>1, <1>11 DEF Shape, StepShape, Flushes, Global, AfterFetch, AfterClear,
         MoveFolderToTrashByID
<1>12. CASE op = "MoveEmptyFolderToTrashByID"
  <2>1. Program[op] = MoveEmptyFolderToTrashByID /\ Len(MoveEmptyFolderToTrashByID) = 6
    BY <1>12 DEF Program, MoveEmptyFolderToTrashByID
  <2> QED
    BY <2>1, <1>12 DEF Shape, StepShape, Flushes, Global, AfterFetch, AfterClear,
         MoveEmptyFolderToTrashByID
<1>13. CASE op = "UploadNewFile"
  <2>1. Program[op] = UploadNewFile /\ Len(UploadNewFile) = 3
    BY <1>13 DEF Program, UploadNewFile
  <2> QED
    BY <2>1, <1>13 DEF Shape, StepShape, Flushes, Global, AfterFetch, AfterClear, UploadNewFile
<1>14. CASE op = "UploadNewRevision"
  <2>1. Program[op] = UploadNewRevision /\ Len(UploadNewRevision) = 8
    BY <1>14 DEF Program, UploadNewRevision
  <2> QED
    BY <2>1, <1>14 DEF Shape, StepShape, Flushes, Global, AfterFetch, AfterClear, UploadNewRevision
<1>15. CASE op = "EmptyTrash"
  <2>1. Program[op] = EmptyTrash /\ Len(EmptyTrash) = 2
    BY <1>15 DEF Program, EmptyTrash
  <2> QED
    BY <2>1, <1>15 DEF Shape, StepShape, Flushes, Global, AfterFetch, AfterClear, EmptyTrash
<1>16. CASE op = "EmptyRootFolder"
  <2>1. Program[op] = EmptyRootFolder /\ Len(EmptyRootFolder) = 4
    BY <1>16 DEF Program, EmptyRootFolder
  <2> QED
    BY <2>1, <1>16 DEF Shape, StepShape, Flushes, Global, AfterFetch, AfterClear, EmptyRootFolder
<1>17. CASE op = "ClearCache"
  <2>1. Program[op] = ClearCache /\ Len(ClearCache) = 1
    BY <1>17 DEF Program, ClearCache
  <2> QED
    BY <2>1, <1>17 DEF Shape, StepShape, Flushes, Global, AfterFetch, AfterClear, ClearCache
<1> QED
  BY <1>2, <1>3, <1>4, <1>5, <1>6, <1>7, <1>8, <1>9,
     <1>10, <1>11, <1>12, <1>13, <1>14, <1>15, <1>16, <1>17 DEF Program

-----------------------------------------------------------------------------
(* The steps of a caller *)

\* What becomes of the operation of caller c in a step of it.
Returns(c) == job'[c] = None /\ call'[c] = NoCall

LooksUp(c) == job' = job /\ call[c].at # "none" /\ server' = server

Advances(c) ==
    /\ job'[c] # None
    /\ job'[c].op = job[c].op /\ job'[c].l = job[c].l /\ job'[c].d = job[c].d
    /\ job'[c].floor = job[c].floor /\ job'[c].at = job[c].at + 1
    /\ Step(c) # "getSrc" => job'[c].src = job[c].src
    /\ Step(c) \notin {"getDst", "findDst"} => job'[c].dst = job[c].dst
    /\ call'[c] = Enter(job'[c].op, job'[c].at, job'[c].l, job'[c].d, job'[c].src, job'[c].dst)

LEMMA ReturnReturns ==
    ASSUME CallersOK, NEW c \in Callers, Return(c)
    PROVE  Returns(c)
BY DEF Return, Returns, CallersOK

LEMMA ProceedAdvances ==
    ASSUME CallersOK, NEW c \in Callers, job[c] # None, NEW j \in Job,
           j.op = job[c].op, j.at = job[c].at, j.l = job[c].l, j.d = job[c].d,
           j.floor = job[c].floor,
           Step(c) # "getSrc" => j.src = job[c].src,
           Step(c) \notin {"getDst", "findDst"} => j.dst = job[c].dst,
           Proceed(c, j)
    PROVE  Returns(c) \/ (Advances(c) /\ job'[c].src = j.src /\ job'[c].dst = j.dst)
<1>1. CASE j.at < Len(Program[j.op])
  <2> DEFINE next == [j EXCEPT !.at = j.at + 1]
             cl == Enter(j.op, j.at + 1, j.l, j.d, j.src, j.dst)
  <2>1. job'[c] = next /\ call'[c] = cl
    BY <1>1 DEF Proceed, CallersOK
  <2>2. /\ next \in Job /\ next.at = j.at + 1
        /\ next.op = j.op /\ next.l = j.l /\ next.d = j.d /\ next.src = j.src
        /\ next.dst = j.dst /\ next.floor = j.floor
    BY DEF Job
  <2>3. next # None
    BY <2>2, NoneAssumption
  <2> HIDE DEF next
  <2> QED
    BY <2>1, <2>2, <2>3 DEF Advances
<1>2. CASE ~(j.at < Len(Program[j.op]))
  BY <1>2, ReturnReturns DEF Proceed
<1> QED
  BY <1>1, <1>2

LEMMA ProceedOn ==
    ASSUME CallersOK, NEW c \in Callers, job[c] # None, Proceed(c, job[c])
    PROVE  Returns(c) \/ (Advances(c) /\ job'[c].src = job[c].src /\ job'[c].dst = job[c].dst)
<1>1. job[c] \in Job
  BY DEF CallersOK
<1> QED
  BY <1>1, ProceedAdvances

\* The link that getLink has found becomes the source or the destination.
LEMMA DeliverLinkAdvances ==
    ASSUME CallersOK, NEW c \in Callers, call[c].at \in {"get", "insert"}, NEW link \in Link,
           DeliverLink(c, link)
    PROVE  \/ /\ call[c].wants = "kr" /\ job' = job
              /\ call' = [call EXCEPT ![c] = [call[c] EXCEPT !.at = "kr", !.link = link]]
           \/ /\ call[c].wants = "link"
              /\ Returns(c) \/ Advances(c)
              /\ Advances(c) /\ Step(c) = "getSrc" =>
                   job'[c].src = link /\ job'[c].dst = job[c].dst
              /\ Advances(c) /\ Step(c) # "getSrc" =>
                   job'[c].src = job[c].src /\ job'[c].dst = link
<1>1. /\ job[c] # None /\ job[c] \in Job
      /\ call[c] \in Call /\ LookupOK(call[c], job[c])
  BY InLookup
<1>2. CASE call[c].wants = "kr"
  BY <1>2 DEF DeliverLink
<1>3. CASE call[c].wants = "link"
  <2>1. Step(c) \in LinkSteps
    BY <1>1, <1>3 DEF LookupOK, Step
  <2> DEFINE j == IF Step(c) = "getSrc" THEN [job[c] EXCEPT !.src = link]
                                        ELSE [job[c] EXCEPT !.dst = link]
  <2>2. /\ j \in Job /\ j.op = job[c].op /\ j.at = job[c].at /\ j.l = job[c].l /\ j.d = job[c].d
        /\ j.floor = job[c].floor
        /\ j.src = IF Step(c) = "getSrc" THEN link ELSE job[c].src
        /\ j.dst = IF Step(c) = "getSrc" THEN job[c].dst ELSE link
    BY <1>1 DEF Job
  <2>3. Proceed(c, j)
    BY <1>3 DEF DeliverLink
  <2> HIDE DEF j
  <2>4. Returns(c) \/ (Advances(c) /\ job'[c].src = j.src /\ job'[c].dst = j.dst)
    BY <2>1, <2>2, <2>3, <1>1, ProceedAdvances DEF LinkSteps
  <2>5. ~(Returns(c) /\ Advances(c))
    BY DEF Returns, Advances
  <2> QED
    BY <1>3, <2>2, <2>4, <2>5
<1> QED
  BY <1>1, <1>2, <1>3 DEF Call

LEMMA LookupOutcome ==
    ASSUME IInv, NEW c \in Callers, Lookup(c)
    PROVE  /\ job[c] # None /\ call[c].at # "none" /\ Step(c) \in LinkSteps \cup KeyringSteps
           /\ Returns(c) \/ LooksUp(c) \/ Advances(c)
<1>1. CallersOK /\ call[c].at # "none"
  BY DEF Lookup, CacheLookup, Fetch, InsertFetched, LookupKeyring, Plant, LookupKeyringByID,
         Decrypt, DeliverKeyring, IInv
<1>2. /\ job[c] # None /\ job[c] \in Job /\ JobOK(job[c])
      /\ call[c] \in Call /\ LookupOK(call[c], job[c]) /\ TableOK(cache) /\ HeldOK
  BY <1>1, InLookup DEF IInv
<1>3. Step(c) \in LinkSteps \cup KeyringSteps
  BY <1>2 DEF LookupOK, Call, Step
<1>s. SUFFICES Returns(c) \/ LooksUp(c) \/ Advances(c)
  BY <1>1, <1>2, <1>3
<1>4. CASE CacheLookup(c)
  <2>1. CASE Hit(call[c].id)
    <3>1. call[c].at = "get" /\ DeliverLink(c, cache.data[call[c].id].link)
      BY <1>4, <2>1 DEF CacheLookup
    <3>2. cache.data[call[c].id].link \in Link
      BY <2>1, <1>2, CachedSnapshot, SnapshotIsLink
    <3> QED
      BY <3>1, <3>2, <1>1, <1>4, DeliverLinkAdvances DEF LooksUp, CacheLookup
  <2>2. CASE ~Hit(call[c].id)
    BY <2>2, <1>1, <1>4 DEF CacheLookup, LooksUp
  <2> QED
    BY <2>1, <2>2
<1>5. CASE Fetch(c) \/ Plant(c) \/ LookupKeyringByID(c)
  BY <1>1, <1>5 DEF Fetch, Plant, LookupKeyringByID, LooksUp
<1>6. CASE InsertFetched(c)
  <2>1. call[c].at = "insert" /\ call[c].link \in Link
    BY <1>2, <1>6, SnapshotIsLink DEF InsertFetched, LookupOK
  <2> QED
    BY <2>1, <1>1, <1>6, DeliverLinkAdvances DEF LooksUp, InsertFetched
<1>7. CASE LookupKeyring(c)
  <2>1. server' = server /\ (job' = job \/ Die("overflow"))
    BY <1>7 DEF LookupKeyring, Climb
  <2> QED
    BY <2>1, <1>1 DEF LooksUp, Returns, Die
<1>8. CASE Decrypt(c)
  BY <1>1, <1>8, ReturnReturns DEF Decrypt, LooksUp
<1>9. CASE DeliverKeyring(c)
  <2> DEFINE j == IF Step(c) \in {"krSrc", "krDst"} THEN [job[c] EXCEPT !.kr = call[c].kr]
                                                     ELSE job[c]
  <2>1. Return(c) \/ Proceed(c, j)
    BY <1>9 DEF DeliverKeyring
  <2>2. Step(c) \in {"krSrc", "krDst"} => call[c].kr \in Keyring \cup {None}
    BY <1>2 DEF Call
  <2>3. /\ j \in Job /\ j.op = job[c].op /\ j.at = job[c].at /\ j.l = job[c].l /\ j.d = job[c].d
        /\ j.floor = job[c].floor /\ j.src = job[c].src /\ j.dst = job[c].dst
    BY <1>2, <2>2 DEF Job
  <2> HIDE DEF j
  <2> QED
    BY <2>1, <2>3, <1>1, <1>2, ProceedAdvances, ReturnReturns
<1> QED
  BY <1>1, <1>2, <1>3, <1>4, <1>5, <1>6, <1>7, <1>8, <1>9 DEF Lookup

\* The steps with which an operation removes links from the cache.
Removals == {"remove", "removeTree", "clear"}

Work(c) == Request(c) \/ CheckLink(c) \/ Invalidate(c) \/ Clear(c)

\* Any other step of an operation completes it or ends the operation.  The only
\* link it brings in is the one findDst finds, and only three steps change the
\* cache.
LEMMA WorkOutcome ==
    ASSUME IInv, NEW c \in Callers, Work(c)
    PROVE  /\ job[c] # None /\ call[c].at = "none" /\ Step(c) \notin LinkSteps \cup KeyringSteps
           /\ Returns(c) \/ Advances(c)
           /\ Advances(c) /\ Step(c) = "findDst" =>
                \E l \in Links : server[l].state = "active" /\ job'[c].dst = server[l]
           /\ Step(c) \notin Removals => cache' = cache
           /\ Step(c) = "remove" =>
                cache' = IF EnableCaching THEN Remove(cache, job[c].l, FALSE) ELSE cache
           /\ Step(c) = "removeTree" =>
                cache' = IF EnableCaching THEN Remove(cache, job[c].l, TRUE) ELSE cache
           /\ Step(c) = "clear" => cache' = IF EnableCaching THEN EmptyTable ELSE cache
<1>1. CallersOK /\ TableOK(cache) /\ ServerOK
  BY DEF IInv
<1>2. PICK step \in PlainSteps \cup {"findDst", "listRoot"} : At(c, step)
  BY DEF Work, Request, Move, Trash, Create, FindDst, Commit, Read, ListEmpty,
         EmptyTrashOnServer, ListRoot, TrashListed, DeleteListed, CheckLink, Invalidate, Clear,
         PlainSteps
<1>3. job[c] # None /\ job[c] \in Job /\ Step(c) = step
  BY <1>1, <1>2, InStep
<1>4. step \notin LinkSteps \cup KeyringSteps
  BY DEF PlainSteps, LinkSteps, KeyringSteps
<1>5. call[c].at = "none"
  <2>1. SUFFICES ASSUME call[c].at # "none"
                 PROVE  FALSE
    OBVIOUS
  <2> QED
    BY <2>1, <1>1, <1>3, <1>4, InLookup DEF LookupOK, Call, Step
<1>6. \A s : At(c, s) => s = step
  BY <1>3 DEF At
<1>7. ~RemoveIsFatal(cache, job[c].l, TRUE) /\ ~RemoveIsFatal(cache, job[c].l, FALSE)
  BY <1>1, RemoveNotFatal
<1>8. CASE Move(c) \/ Trash(c) \/ Create(c) \/ Commit(c) \/ EmptyTrashOnServer(c)
           \/ TrashListed(c) \/ DeleteListed(c)
  <2>1. /\ step \notin Removals \cup {"findDst"} /\ cache' = cache
        /\ Proceed(c, job[c]) \/ Return(c)
    BY <1>6, <1>8 DEF Move, Trash, Create, Commit, EmptyTrashOnServer, TrashListed, DeleteListed,
                      Answer, Removals
  <2> QED
    BY <2>1, <1>1, <1>3, <1>4, <1>5, ProceedOn, ReturnReturns DEF Removals
<1>9. CASE Read(c) \/ ListEmpty(c) \/ CheckLink(c)
  <2>1. /\ step \notin Removals \cup {"findDst"} /\ cache' = cache
        /\ Proceed(c, job[c]) \/ Return(c)
    BY <1>6, <1>9 DEF Read, ListEmpty, CheckLink, Removals
  <2> QED
    BY <2>1, <1>1, <1>3, <1>4, <1>5, ProceedOn, ReturnReturns DEF Removals
<1>10. CASE Invalidate(c) \/ Clear(c)
  <2>1. step \in Removals /\ Proceed(c, job[c])
    BY <1>6, <1>7, <1>10 DEF Invalidate, Clear, RemoveLink, Removals
  <2>2. /\ step = "remove" =>
             cache' = IF EnableCaching THEN Remove(cache, job[c].l, FALSE) ELSE cache
        /\ step = "removeTree" =>
             cache' = IF EnableCaching THEN Remove(cache, job[c].l, TRUE) ELSE cache
        /\ step = "clear" => cache' = IF EnableCaching THEN EmptyTable ELSE cache
    BY <1>6, <1>7, <1>10 DEF Invalidate, Clear, RemoveLink, Removals
  <2>3. step # "findDst"
    BY <2>1 DEF Removals
  <2> QED
    BY <2>1, <2>2, <2>3, <1>1, <1>3, <1>4, <1>5, ProceedOn
<1>11. CASE FindDst(c)
  <2>1. PICK l \in Links : server[l].state = "active"
                        /\ Proceed(c, [job[c] EXCEPT !.dst = server[l]])
    BY <1>11 DEF FindDst
  <2>2. step = "findDst" /\ cache' = cache
    BY <1>6, <1>11 DEF FindDst
  <2> DEFINE j == [job[c] EXCEPT !.dst = server[l]]
  <2>3. /\ j \in Job /\ j.op = job[c].op /\ j.at = job[c].at /\ j.l = job[c].l /\ j.d = job[c].d
        /\ j.floor = job[c].floor /\ j.src = job[c].src /\ j.dst = server[l]
    BY <1>1, <1>3, SnapshotIsLink DEF Job, ServerOK
  <2> HIDE DEF j
  <2>4. Returns(c) \/ (Advances(c) /\ job'[c].dst = server[l])
    BY <2>1, <2>2, <2>3, <1>1, <1>3, ProceedAdvances DEF j
  <2>5. ~(Returns(c) /\ Advances(c))
    BY DEF Returns, Advances
  <2> QED
    BY <2>1, <2>2, <2>4, <2>5, <1>3, <1>4, <1>5 DEF Removals
<1>12. CASE ListRoot(c)
  <2> DEFINE listed == {server[l] : l \in {k \in Links : server[k].parent = Root /\ Reachable(k)}}
             j == [job[c] EXCEPT !.listed = listed]
  <2>1. step = "listRoot" /\ cache' = cache /\ Proceed(c, j)
    BY <1>6, <1>12 DEF ListRoot
  <2>2. listed \subseteq Link
    BY <1>1 DEF ServerOK, Snapshot
  <2> HIDE DEF listed
  <2>3. /\ j \in Job /\ j.op = job[c].op /\ j.at = job[c].at /\ j.l = job[c].l /\ j.d = job[c].d
        /\ j.floor = job[c].floor /\ j.src = job[c].src /\ j.dst = job[c].dst
    BY <1>3, <2>2 DEF Job
  <2> HIDE DEF j
  <2> QED
    BY <2>1, <2>3, <1>1, <1>3, <1>4, <1>5, ProceedAdvances DEF Removals
<1> QED
  BY <1>8, <1>9, <1>10, <1>11, <1>12 DEF Work, Request

\* A caller looks something up, does its work, or hears that a request failed.
LEMMA ContinueCases ==
    ASSUME IInv, NEW c \in Callers, Continue(c)
    PROVE  \/ Lookup(c)
           \/ Work(c)
           \/ job[c] # None /\ Returns(c) /\ UNCHANGED <<server, cache, process, held>>
<1>1. CASE RequestFails(c)
  <2>1. Returns(c)
    BY <1>1, ReturnReturns DEF RequestFails, IInv
  <2>2. job[c] # None
    BY <1>1, InLookup DEF RequestFails, At, IInv
  <2> QED
    BY <2>1, <2>2, <1>1 DEF RequestFails
<1> QED
  BY <1>1 DEF Continue, Work

-----------------------------------------------------------------------------
(* The table and the server *)

LEMMA CachedAfterInsert ==
    ASSUME NEW t, TableOK(t), NEW link \in Snapshot
    PROVE  /\ Cached(Insert(t, link)) = Cached(t) \cup {link.id}
           /\ \A l \in Links : Insert(t, link).data[l].link =
                                 IF l = link.id THEN link ELSE t.data[l].link
<1> DEFINE e == [link |-> link, kr |-> None]
           u == Insert(t, link)
<1>1. link \in Link /\ link.id \in Links
  BY SnapshotIsLink
<1>2. e \in Entry /\ e # None /\ e.link = link
  BY <1>1, NoneAssumption DEF Entry
<1>3. t.data \in [Links -> Entry \cup {None}]
  BY DEF TableOK, Table
<1>4. u.data = [t.data EXCEPT ![link.id] = e]
  BY DEF Insert
<1> HIDE DEF e, u
<1>5. \A l \in Links : u.data[l] = IF l = link.id THEN e ELSE t.data[l]
  BY <1>1, <1>3, <1>4
<1>6. Cached(u) = Cached(t) \cup {link.id}
  BY <1>1, <1>2, <1>5 DEF Cached
<1> QED
  BY <1>2, <1>5, <1>6 DEF u

LEMMA CachedAfterSetKeyring ==
    ASSUME NEW t, TableOK(t), NEW k \in Cached(t)
    PROVE  /\ Cached(SetKeyring(t, k, k)) = Cached(t)
           /\ \A l \in Links : l \in Cached(t) =>
                SetKeyring(t, k, k).data[l].link = t.data[l].link
<1> DEFINE e == [t.data[k] EXCEPT !.kr = k]
           u == SetKeyring(t, k, k)
<1>1. k \in Links /\ t.data[k] \in Entry
  BY DEF TableOK, EntryOK, Cached
<1>2. e \in Entry /\ e # None /\ e.link = t.data[k].link
  BY <1>1, NoneAssumption DEF Entry, Keyring, Parents
<1>3. t.data \in [Links -> Entry \cup {None}] /\ t \in Table
  BY DEF TableOK, Table
<1>4. u.data = [t.data EXCEPT ![k] = e]
  BY <1>3 DEF SetKeyring, Table
<1> HIDE DEF e, u
<1>5. \A l \in Links : u.data[l] = IF l = k THEN e ELSE t.data[l]
  BY <1>1, <1>3, <1>4
<1>6. Cached(u) = Cached(t)
  BY <1>1, <1>2, <1>5 DEF Cached
<1> QED
  BY <1>2, <1>5, <1>6 DEF u

LEMMA CachedAfterRemove ==
    ASSUME NEW t, NEW l, NEW b
    PROVE  /\ Cached(Remove(t, l, b)) = Cached(t) \ Reached(t, l, b)
           /\ l \notin Cached(Remove(t, l, b))
           /\ \A k \in Cached(Remove(t, l, b)) : Remove(t, l, b).data[k] = t.data[k]
<1>1. l \in Cached(t) => l \in Reached(t, l, b)
  BY DEF Reached
<1>2. \A k \in Links : Remove(t, l, b).data[k] =
                         IF k \in Reached(t, l, b) THEN None ELSE t.data[k]
  BY DEF Remove
<1>3. Cached(Remove(t, l, b)) = Cached(t) \ Reached(t, l, b)
  BY <1>2 DEF Cached
<1> QED
  BY <1>1, <1>2, <1>3 DEF Cached

LEMMA CachedEmpty == Cached(EmptyTable) = {}
BY DEF Cached, EmptyTable

\* What each change of the server's state does to a link.
LEMMA ServerChanges ==
    ASSUME ServerOK, NEW k \in Links, NEW l \in Links, NEW p, NEW key
    PROVE  /\ Moved(l, p, key)[k].state = server[k].state
           /\ Moved(l, p, key)[k].parent = IF k = l THEN p ELSE server[k].parent
           /\ Moved(l, p, key)[k].ver >= server[k].ver
           /\ Created(l, p, key)[k].state = IF k = l THEN "active" ELSE server[k].state
           /\ Created(l, p, key)[k].parent = IF k = l THEN p ELSE server[k].parent
           /\ Created(l, p, key)[k].ver >= server[k].ver
<1>1. server[k] \in Link /\ server[l] \in Link /\ server \in [Links -> Snapshot]
  BY SnapshotIsLink DEF ServerOK
<1>2. server[k].ver \in Nat /\ server[l].ver \in Nat
  BY <1>1 DEF Link
<1>3. CASE k = l
  BY <1>1, <1>2, <1>3 DEF Link, Moved, Created
<1>4. CASE k # l
  BY <1>1, <1>2, <1>4 DEF Link, Moved, Created
<1> QED
  BY <1>3, <1>4

LEMMA StatesChange ==
    ASSUME ServerOK, NEW k \in Links, NEW S
    PROVE  /\ Trashed(S)[k].state = IF k \in S THEN "trashed" ELSE server[k].state
           /\ Trashed(S)[k].parent = server[k].parent
           /\ Trashed(S)[k].ver >= server[k].ver
           /\ Deleted(S)[k].state \in {server[k].state, "deleted"}
           /\ Deleted(S)[k].parent = server[k].parent
           /\ Deleted(S)[k].ver >= server[k].ver
<1>1. server[k] \in Link
  BY SnapshotIsLink DEF ServerOK
<1>2. server[k].ver \in Nat
  BY <1>1 DEF Link
<1> QED
  BY <1>1, <1>2 DEF Link, Trashed, Deleted

LEMMA TouchedKeeps ==
    ASSUME ServerOK, NEW k \in Links, NEW l
    PROVE  /\ Touched(l)[k].state = server[k].state
           /\ Touched(l)[k].parent = server[k].parent
           /\ Touched(l)[k].ver >= server[k].ver
<1>1. server[k] \in Link /\ server \in [Links -> Snapshot] /\ server[k].ver \in Nat
  BY SnapshotIsLink DEF ServerOK
<1>2. CASE k = l
  BY <1>1, <1>2 DEF Link, Touched
<1>3. CASE k # l
  BY <1>1, <1>3 DEF Touched
<1> QED
  BY <1>2, <1>3

\* The server never goes back to an earlier version of a link.
LEMMA VersionsGrow ==
    ASSUME IInv, [Next]_vars, NEW k \in Links
    PROVE  server'[k].ver >= server[k].ver
<1>1. ServerOK /\ server[k].ver \in Nat
  BY SnapshotIsLink DEF IInv, ServerOK
<1>2. CASE server' = server
  BY <1>1, <1>2
<1>3. CASE OtherClient
  BY <1>1, <1>3, ServerChanges, StatesChange, TouchedKeeps DEF OtherClient
<1>4. ASSUME NEW c \in Callers, Request(c) PROVE server'[k].ver >= server[k].ver
  <2>1. CASE Move(c)
    <3>1. job[c].l \in Links
      BY <2>1, InStep DEF Move, IInv, Job
    <3>2. server' = Moved(job[c].l, job[c].dst.id, job[c].kr)
      BY <2>1 DEF Move, Answer
    <3> QED
      BY <3>1, <3>2, <1>1, ServerChanges
  <2>2. CASE Create(c)
    <3>1. PICK l \in Links : server' = Created(l, job[c].src.id, job[c].kr)
      BY <2>2 DEF Create, Answer
    <3> QED
      BY <3>1, <1>1, ServerChanges
  <2>3. CASE Commit(c)
    <3>1. server' = Touched(job[c].dst.id)
      BY <2>3 DEF Commit, Answer
    <3> QED
      BY <3>1, <1>1, TouchedKeeps
  <2>4. CASE Trash(c) \/ EmptyTrashOnServer(c) \/ TrashListed(c) \/ DeleteListed(c)
    <3>1. PICK S : server' = Trashed(S) \/ server' = Deleted(S)
      BY <2>4 DEF Trash, EmptyTrashOnServer, TrashListed, DeleteListed, Answer
    <3> QED
      BY <3>1, <1>1, StatesChange
  <2>5. CASE Read(c) \/ ListEmpty(c) \/ FindDst(c) \/ ListRoot(c)
    BY <2>5, <1>2 DEF Read, ListEmpty, FindDst, ListRoot
  <2> QED
    BY <1>4, <2>1, <2>2, <2>3, <2>4, <2>5 DEF Request
<1>5. ASSUME NEW c \in Callers, Continue(c), ~Request(c) PROVE server' = server
  BY <1>5 DEF Continue, Lookup, CacheLookup, Fetch, InsertFetched, LookupKeyring, Plant,
     LookupKeyringByID, Decrypt, DeliverKeyring, RequestFails, CheckLink, Invalidate, Clear
<1>6. ASSUME NEW c \in Callers, Begin(c) PROVE server' = server
  BY <1>6 DEF Begin
<1> QED
  BY <1>2, <1>3, <1>4, <1>5, <1>6 DEF Next, Restart, vars

-----------------------------------------------------------------------------
(* Operations are prepared for their next step *)

\* A lookup of the source ends with the cached link, or with the server's.
LEMMA GetSrcEnds ==
    ASSUME IInv, NEW c \in Callers, Lookup(c), Step(c) = "getSrc"
    PROVE  \/ /\ LooksUp(c) /\ cache' = cache /\ call'[c].at = "fetch"
              /\ call[c].at = "get" /\ ~Hit(job[c].l)
           \/ /\ LooksUp(c) /\ cache' = cache /\ call'[c].at = "insert"
              /\ call'[c].link = server[job[c].l]
           \/ /\ call[c].at = "get" /\ Hit(job[c].l) /\ cache' = cache
              /\ Returns(c) \/ Advances(c)
           \/ /\ call[c].at = "insert" /\ call[c].link \in Snapshot
              /\ call[c].link.id = job[c].l /\ cache' = Inserted(call[c].link)
              /\ Returns(c) \/ Advances(c)
              /\ Advances(c) => job'[c].src = call[c].link /\ job'[c].dst = job[c].dst
<1>1. CallersOK /\ TableOK(cache) /\ call[c].at # "none"
  BY LookupOutcome DEF IInv
<1>2. /\ job[c] # None /\ job[c] \in Job /\ JobOK(job[c])
      /\ call[c] \in Call /\ LookupOK(call[c], job[c]) /\ call \in [Callers -> Call]
  BY <1>1, InLookup DEF CallersOK
<1>3. call[c].wants = "link" /\ call[c].at \in {"get", "fetch", "insert"} /\ call[c].climb = <<>>
  BY <1>1, <1>2 DEF LookupOK, Call, Step, KeyringSteps
<1>4. Goal(job[c]) = job[c].l /\ Wanted(call[c], job[c]) = job[c].l
  BY <1>3 DEF Goal, Wanted, Step
<1>5. CASE CacheLookup(c)
  <2>1. call[c].at = "get" /\ call[c].id = job[c].l /\ cache' = cache /\ server' = server
    BY <1>2, <1>4, <1>5 DEF CacheLookup, LookupOK
  <2>2. CASE Hit(job[c].l)
    <3>1. DeliverLink(c, cache.data[job[c].l].link) /\ cache.data[job[c].l].link \in Link
      BY <2>1, <2>2, <1>1, <1>5, CachedSnapshot, SnapshotIsLink DEF CacheLookup
    <3>2. Returns(c) \/ Advances(c)
      BY <3>1, <2>1, <1>1, <1>3, DeliverLinkAdvances
    <3> QED
      BY <3>2, <2>1, <2>2
  <2>3. CASE ~Hit(job[c].l)
    <3>1. call' = [call EXCEPT ![c].at = "fetch"] /\ job' = job
      BY <2>1, <2>3, <1>5 DEF CacheLookup
    <3>2. call'[c].at = "fetch"
      BY <3>1, <1>2 DEF Call
    <3> QED
      BY <3>1, <3>2, <2>1, <2>3 DEF LooksUp
  <2> QED
    BY <2>2, <2>3
<1>6. CASE Fetch(c)
  <2>1. call[c].at = "fetch" /\ call[c].id = job[c].l
    BY <1>2, <1>4, <1>6 DEF Fetch, LookupOK
  <2>2. /\ call' = [call EXCEPT ![c] = [call[c] EXCEPT !.at = "insert", !.link = server[job[c].l]]]
        /\ job' = job /\ cache' = cache /\ server' = server
    BY <2>1, <1>6 DEF Fetch
  <2>3. call'[c].at = "insert" /\ call'[c].link = server[job[c].l]
    BY <2>2, <1>2 DEF Call
  <2> QED
    BY <2>1, <2>2, <2>3 DEF LooksUp
<1>7. CASE InsertFetched(c)
  <2>1. /\ call[c].at = "insert" /\ call[c].link \in Snapshot /\ call[c].link.id = job[c].l
        /\ cache' = Inserted(call[c].link) /\ DeliverLink(c, call[c].link)
    BY <1>2, <1>4, <1>7 DEF InsertFetched, LookupOK
  <2>2. call[c].link \in Link
    BY <2>1, SnapshotIsLink
  <2> QED
    BY <2>1, <2>2, <1>1, <1>3, DeliverLinkAdvances
<1> QED
  BY <1>3, <1>5, <1>6, <1>7 DEF Lookup, LookupKeyring, Plant, LookupKeyringByID, Decrypt,
     DeliverKeyring

\* A drive that does not cache has an empty cache.
LEMMA CacheOffOK ==
    ASSUME CacheOff, NEW c \in Callers, Callers = {c}, [Next]_vars
    PROVE  CacheOff'
<1>1. SUFFICES ASSUME ~EnableCaching
               PROVE  cache' = cache \/ cache' = EmptyTable
  BY <1>1, CachedEmpty DEF CacheOff
<1>2. CASE Lookup(c)
  BY <1>1, <1>2 DEF Lookup, CacheLookup, Fetch, InsertFetched, LookupKeyring, Plant,
     LookupKeyringByID, Decrypt, DeliverKeyring, Inserted, Hit, Climb, Die
<1>3. CASE Request(c)
  BY <1>3 DEF Request, Move, Trash, Create, FindDst, Commit, Read, ListEmpty, EmptyTrashOnServer,
     ListRoot, TrashListed, DeleteListed, Answer
<1>4. CASE RequestFails(c) \/ CheckLink(c) \/ Invalidate(c) \/ Clear(c)
  BY <1>1, <1>4 DEF RequestFails, CheckLink, Invalidate, RemoveLink, Clear, Die
<1>5. CASE Begin(c) \/ OtherClient \/ Restart \/ UNCHANGED vars
  BY <1>5 DEF Begin, OtherClient, Restart, vars
<1> QED
  BY <1>2, <1>3, <1>4, <1>5 DEF Next, Continue

\* An operation that goes on is at the next of its steps.
LEMMA NextStep ==
    ASSUME IInv, IInv', NEW c \in Callers, job[c] # None, Advances(c)
    PROVE  LET op == job[c].op
               n  == job[c].at
           IN  /\ n + 1 \in 1..Len(Program[op]) /\ Step(c)' = Program[op][n + 1]
               /\ StepShape(op, n + 1)
<1>1. job[c] \in Job /\ JobOK(job[c])
  BY DEF IInv, CallersOK, CallerOK
<1>2. JobOK(job'[c]) /\ job'[c].op = job[c].op /\ job'[c].at = job[c].at + 1
  BY DEF IInv, CallersOK, CallerOK, Advances
<1>3. job[c].op \in DOMAIN Program
  BY <1>1, OpsAssumption DEF Job
<1>4. Shape(job[c].op) /\ Len(Program[job[c].op]) \in Nat
  BY <1>3, ProgramShape, ProgramWellOrdered
<1>5. job[c].at + 1 \in 1..Len(Program[job[c].op])
  BY <1>2 DEF JobOK
<1> QED
  BY <1>2, <1>4, <1>5 DEF Step, Shape

LEMMA ThisStep ==
    ASSUME IInv, NEW c \in Callers, job[c] # None
    PROVE  LET op == job[c].op
               n  == job[c].at
           IN  /\ Shape(op) /\ StepShape(op, n)
               /\ Len(Program[op]) \in Nat /\ n \in Nat \ {0}
               /\ n \in 1..Len(Program[op]) /\ Step(c) = Program[op][n]
<1>1. job[c] \in Job /\ JobOK(job[c])
  BY DEF IInv, CallersOK, CallerOK
<1>2. job[c].op \in DOMAIN Program
  BY <1>1, OpsAssumption DEF Job
<1>3. Shape(job[c].op) /\ Len(Program[job[c].op]) \in Nat
  BY <1>2, ProgramShape, ProgramWellOrdered
<1> QED
  BY <1>1, <1>3 DEF JobOK, Step, Shape

\* A lookup fetches the source for the steps that rely on its being cached.
LEMMA LookupPrepares ==
    ASSUME IInv, IInv', NEW c \in Callers, Prepared(c), CacheOff', Lookup(c)
    PROVE  Prepared(c)'
<1> DEFINE op == job[c].op
           n  == job[c].at
<1>1. /\ job[c] # None /\ Step(c) \in LinkSteps \cup KeyringSteps
      /\ Returns(c) \/ LooksUp(c) \/ Advances(c)
  BY LookupOutcome
<1>2. /\ Shape(op) /\ StepShape(op, n) /\ Len(Program[op]) \in Nat /\ n \in Nat \ {0}
      /\ n \in 1..Len(Program[op]) /\ Step(c) = Program[op][n]
  BY <1>1, ThisStep
<1>3. /\ Step(c) \notin AfterFetch \cup AfterClear \cup {"clear", "remove", "move"}
  BY <1>1 DEF LinkSteps, KeyringSteps, AfterFetch, AfterClear
<1>4. op \notin Global /\ ~(Flushes(op) /\ n > 2)
  BY <1>2, <1>3 DEF StepShape
<1>5. job[c].l \in Links /\ server' = server
  BY <1>1 DEF Lookup, CacheLookup, Fetch, InsertFetched, LookupKeyring, Plant, LookupKeyringByID,
     Decrypt, DeliverKeyring, IInv, CallersOK, Job
<1>6. CASE Returns(c)
  BY <1>6 DEF Returns, Prepared, FlushReady, MoveReady, ClearReady, Refreshing, At
<1>7. CASE LooksUp(c)
  <2>1. job' = job
    BY <1>7 DEF LooksUp
  <2>2. FlushReady(c)' /\ ClearReady(c)'
    BY <2>1, <1>4 DEF FlushReady, ClearReady
  <2>3. MoveReady(c)'
    BY <2>1, <1>3 DEF MoveReady, At, Step
  <2>4. Refreshing(c)'
    <3>1. SUFFICES ASSUME Program[op][1] = "remove"
                   PROVE  Refreshing(c)'
      BY <2>1 DEF Refreshing
    <3>2. /\ job[c].floor <= server[job[c].l].ver /\ ActsOnLatest(c)
          /\ At(c, "getSrc") /\ call[c].at = "get" => job[c].l \notin Cached(cache)
      BY <3>1, <1>1 DEF Prepared, Refreshing
    <3>3. ActsOnLatest(c)' /\ job'[c].floor <= server'[job'[c].l].ver
      BY <3>2, <2>1, <1>5 DEF ActsOnLatest
    <3>4. CASE Step(c) = "getSrc"
      <4>1. \/ call'[c].at = "fetch"
            \/ call'[c].at = "insert" /\ call'[c].link = server[job[c].l]
        <5>1. ~(Returns(c) \/ Advances(c))
          BY <1>1, <1>2, <2>1 DEF Returns, Advances
        <5> QED
          BY <3>4, <5>1, GetSrcEnds
      <4>2. server[job[c].l].ver \in Nat /\ job[c].floor \in Nat
        BY <1>1, <1>5, SnapshotIsLink DEF IInv, ServerOK, CallersOK, Job
      <4> QED
        BY <4>1, <4>2, <3>2, <3>3, <2>1 DEF Refreshing
    <3>5. CASE Step(c) # "getSrc"
      <4>1. ~At(c, "getSrc")'
        BY <3>5, <2>1 DEF At, Step
      <4> QED
        BY <4>1, <3>3 DEF Refreshing
    <3> QED
      BY <3>4, <3>5
  <2> QED
    BY <2>2, <2>3, <2>4 DEF Prepared
<1>8. CASE Advances(c)
  <2>1. /\ n + 1 \in 1..Len(Program[op]) /\ Step(c)' = Program[op][n + 1] /\ n + 1 - 1 = n
        /\ StepShape(op, n + 1)
    BY <1>1, <1>2, <1>8, NextStep
  <2>2. /\ job'[c].op = op /\ job'[c].l = job[c].l /\ job'[c].floor = job[c].floor
        /\ job'[c].at = n + 1 /\ (Step(c) # "getSrc" => job'[c].src = job[c].src)
    BY <1>8 DEF Advances
  <2>3. MoveReady(c)'
    <3>1. Step(c)' # "move"
      BY <2>1, <1>2, <1>3 DEF StepShape
    <3> QED
      BY <3>1 DEF MoveReady, At
  <2>4. ClearReady(c)'
    BY <2>2, <1>4 DEF ClearReady
  <2>5. FlushReady(c)'
    <3>1. SUFFICES ASSUME EnableCaching, Flushes(op), n + 1 > 2
                   PROVE  job[c].l \in Cached(cache')
      BY <2>2 DEF FlushReady
    <3>2. n = 2 /\ Step(c) = "getSrc"
      BY <3>1, <1>2, <1>4 DEF Shape
    <3>3. ~LooksUp(c)
      BY <1>2, <2>2 DEF LooksUp
    <3>4. CASE Hit(job[c].l) /\ cache' = cache
      BY <3>4 DEF Hit
    <3>5. CASE /\ call[c].link \in Snapshot /\ call[c].link.id = job[c].l
               /\ cache' = Inserted(call[c].link)
      BY <3>1, <3>5, CachedAfterInsert DEF Inserted, IInv
    <3> QED
      BY <3>2, <3>3, <3>4, <3>5, GetSrcEnds
  <2>6. Refreshing(c)'
    <3>1. SUFFICES ASSUME Program[op][1] = "remove"
                   PROVE  Refreshing(c)'
      BY <2>2 DEF Refreshing
    <3>2. /\ job[c].floor <= server[job[c].l].ver /\ ActsOnLatest(c)
          /\ Step(c) = "getSrc" =>
               /\ call[c].at = "get" => job[c].l \notin Cached(cache)
               /\ call[c].at = "insert" => call[c].link.ver >= job[c].floor
      BY <3>1, <1>1 DEF Prepared, Refreshing, At
    <3>3. ~At(c, "getSrc")'
      <4>1. Step(c)' = "getSrc" => n = 1
        <5> DEFINE m == n + 1
        <5>1. m \in 1..Len(Program[op]) /\ Step(c)' = Program[op][m]
          BY <2>1
        <5>3. StepShape(op, m)
          BY <2>1
        <5>2. m = 2 => n = 1
          BY <1>2
        <5> HIDE DEF m
        <5> QED
          BY <5>1, <5>2, <5>3, <3>1 DEF StepShape
      <4> QED
        BY <4>1, <3>1, <1>2, <1>3 DEF At
    <3>4. ActsOnLatest(c)'
      <4>1. CASE Step(c) = "getSrc"
        <5>1. ~LooksUp(c) /\ ~Returns(c)
          BY <1>2, <1>8, <2>2 DEF LooksUp, Returns, Advances
        <5>2. job'[c].src = call[c].link /\ call[c].link.ver >= job[c].floor
          BY <4>1, <5>1, <3>2, <1>8, GetSrcEnds DEF Hit
        <5> QED
          BY <5>2, <2>2 DEF ActsOnLatest
      <4>2. CASE Step(c) # "getSrc"
        BY <4>2, <2>2, <3>2 DEF ActsOnLatest
      <4> QED
        BY <4>1, <4>2
    <3> QED
      BY <3>2, <3>3, <3>4, <2>2, <1>5 DEF Refreshing
  <2> QED
    BY <2>3, <2>4, <2>5, <2>6 DEF Prepared
<1> QED
  BY <1>1, <1>6, <1>7, <1>8

\* The other steps remove what has to be removed before the step that follows.
LEMMA WorkPrepares ==
    ASSUME IInv, IInv', NEW c \in Callers, Prepared(c), CacheOff', Work(c), [Next]_vars
    PROVE  Prepared(c)'
<1> DEFINE op == job[c].op
           n  == job[c].at
           m  == n + 1
<1>1. /\ job[c] # None /\ Step(c) \notin LinkSteps \cup KeyringSteps
      /\ Returns(c) \/ Advances(c)
      /\ Step(c) \notin Removals => cache' = cache
      /\ Step(c) = "remove" =>
           cache' = IF EnableCaching THEN Remove(cache, job[c].l, FALSE) ELSE cache
      /\ Step(c) = "clear" => cache' = IF EnableCaching THEN EmptyTable ELSE cache
  BY WorkOutcome
<1>2. /\ Shape(op) /\ StepShape(op, n) /\ Len(Program[op]) \in Nat /\ n \in Nat \ {0}
      /\ n \in 1..Len(Program[op]) /\ Step(c) = Program[op][n]
  BY <1>1, ThisStep
<1>3. Step(c) # "getSrc" /\ Step(c) # "getDst"
  BY <1>1 DEF LinkSteps
<1>4. CASE Returns(c)
  BY <1>4 DEF Returns, Prepared, FlushReady, MoveReady, ClearReady, Refreshing, At
<1>5. CASE Advances(c)
  <2>1. m \in 1..Len(Program[op]) /\ Step(c)' = Program[op][m] /\ m - 1 = n /\ StepShape(op, m)
    BY <1>1, <1>2, <1>5, NextStep
  <2>2. /\ job'[c].op = op /\ job'[c].l = job[c].l /\ job'[c].floor = job[c].floor
        /\ job'[c].at = m /\ job'[c].src = job[c].src /\ job'[c].d = job[c].d
        /\ (Step(c) # "findDst" => job'[c].dst = job[c].dst)
        /\ call'[c] = Enter(job'[c].op, job'[c].at, job'[c].l, job'[c].d,
                            job'[c].src, job'[c].dst)
    BY <1>3, <1>5 DEF Advances
  <2>3. m > 1 /\ (m > 2 => n > 2 \/ n = 2) /\ (m = 2 => n = 1) /\ n # Len(Program[op])
    BY <1>2, <2>1
  <2> HIDE DEF m
  <2>4. Step(c) = "remove" => job[c].l \notin Cached(cache')
    <3>1. Step(c) = "remove" /\ ~EnableCaching => cache' = cache /\ Cached(cache) = {}
      BY <1>1 DEF Prepared, CacheOff
    <3>2. job[c].l \notin Cached(Remove(cache, job[c].l, FALSE))
      BY CachedAfterRemove
    <3> QED
      BY <3>1, <3>2, <1>1
  <2>5. FlushReady(c)'
    <3>1. SUFFICES ASSUME EnableCaching, Flushes(op), m > 2
                   PROVE  job[c].l \in Cached(cache')
      BY <2>2 DEF FlushReady
    <3>2. n > 2
      BY <3>1, <2>3, <1>2, <1>3 DEF Shape
    <3>3. Step(c) \in AfterFetch /\ Step(c) # "removeTree"
      BY <3>1, <3>2, <1>2, <2>3 DEF StepShape
    <3>4. cache' = cache
      BY <3>3, <1>1 DEF AfterFetch, Removals
    <3> QED
      BY <3>1, <3>2, <3>4, <1>1 DEF Prepared, FlushReady
  <2>6. MoveReady(c)'
    <3>1. Step(c)' = "move" => Step(c) = "remove"
      BY <1>2, <2>1 DEF StepShape
    <3> QED
      BY <3>1, <2>2, <2>4 DEF MoveReady, At
  <2>7. ClearReady(c)'
    <3>1. SUFFICES ASSUME op \in Global
                   PROVE  /\ job'[c].src = None /\ job'[c].dst = None
                          /\ Cached(cache') = {}
      BY <2>2 DEF ClearReady
    <3>2. \/ n = 1 /\ Step(c) = "clear"
          \/ n > 1 /\ Step(c) \in AfterClear
      BY <3>1, <1>2 DEF StepShape
    <3>3. job[c].src = None /\ job[c].dst = None /\ (n > 1 => Cached(cache) = {})
      BY <3>1, <1>1 DEF Prepared, ClearReady
    <3>4. Step(c) # "findDst" /\ (Step(c) \in AfterClear => Step(c) \notin Removals)
      BY <3>2 DEF AfterClear, Removals
    <3>5. Cached(cache') = {}
      <4>1. CASE Step(c) = "clear"
        BY <4>1, <1>1, CachedEmpty DEF Prepared, CacheOff
      <4>2. CASE Step(c) # "clear"
        BY <4>2, <3>2, <3>3, <3>4, <1>1
      <4> QED
        BY <4>1, <4>2
    <3> QED
      BY <3>3, <3>4, <3>5, <2>2
  <2>8. Refreshing(c)'
    <3>1. SUFFICES ASSUME Program[op][1] = "remove"
                   PROVE  Refreshing(c)'
      BY <2>2 DEF Refreshing
    <3>2. /\ job[c].floor <= server[job[c].l].ver /\ ActsOnLatest(c)
      BY <3>1, <1>1 DEF Prepared, Refreshing
    <3>3. ActsOnLatest(c)'
      BY <3>2, <2>2 DEF ActsOnLatest
    <3>4. job[c].floor <= server'[job[c].l].ver
      <4>1. job[c].l \in Links /\ job[c].floor \in Nat
        BY <1>1 DEF IInv, CallersOK, Job
      <4>2. server[job[c].l].ver \in Nat /\ server'[job[c].l].ver \in Nat
        BY <4>1 DEF IInv, ServerOK, Snapshot, Link
      <4>3. server'[job[c].l].ver >= server[job[c].l].ver
        BY <4>1, VersionsGrow
      <4> QED
        BY <4>1, <4>2, <4>3, <3>2
    <3>5. At(c, "getSrc")' => Step(c) = "remove" /\ call'[c].at = "get"
      <4>1. SUFFICES ASSUME Step(c)' = "getSrc"
                     PROVE  Step(c) = "remove" /\ call'[c].at = "get"
        BY DEF At
      <4>2. m = 2
        BY <4>1, <3>1, <1>2, <2>1 DEF StepShape
      <4>3. Step(c) = "remove"
        BY <4>2, <3>1, <1>2, <2>3
      <4>4. Program[job'[c].op][job'[c].at] = "getSrc"
        BY <4>1, <2>1, <2>2
      <4>5. call'[c].at = "get"
        BY <4>4, <2>2 DEF Enter, NoCall
      <4> QED
        BY <4>3, <4>5
    <3> QED
      BY <3>3, <3>4, <3>5, <2>2, <2>4 DEF Refreshing
  <2> QED
    BY <2>5, <2>6, <2>7, <2>8 DEF Prepared
<1> QED
  BY <1>1, <1>4, <1>5

LEMMA BeginPrepares ==
    ASSUME IInv, IInv', NEW c \in Callers, Prepared(c), CacheOff', Begin(c)
    PROVE  Prepared(c)'
<1>1. PICK op \in Ops, l \in Links, d \in Links :
        job'[c] = Started(c, op, l, d) /\ server' = server /\ cache' = cache
  BY DEF Begin, IInv, CallersOK
<1>2. op \in DOMAIN Program /\ StepShape(op, 1)
  <2>1. op \in DOMAIN Program /\ Shape(op) /\ 1 \in 1..Len(Program[op])
    BY OpsAssumption, ProgramShape, ProgramWellOrdered
  <2> QED
    BY <2>1 DEF Shape
<1>3. /\ job'[c].op = op /\ job'[c].at = 1 /\ job'[c].l = l /\ job'[c].dst = None
      /\ (op \notin ByLink => job'[c].src = None) /\ job'[c].floor = server[l].ver
  BY <1>1 DEF Started
<1>4. Step(c)' = Program[op][1]
  BY <1>3 DEF Step
<1>5. op \in ByLink => op \notin Global /\ Program[op][1] = "krSrc"
  BY DEF ByLink, Global, Program, GetActiveRevisionAttrs
<1>6. FlushReady(c)'
  BY <1>3 DEF FlushReady
<1>7. MoveReady(c)'
  BY <1>2, <1>4 DEF MoveReady, At, StepShape
<1>8. ClearReady(c)'
  BY <1>3, <1>5 DEF ClearReady
<1>9. Refreshing(c)'
  <2>1. server[l].ver \in Nat
    BY SnapshotIsLink DEF IInv, ServerOK
  <2>2. SUFFICES ASSUME Program[op][1] = "remove"
                 PROVE  Refreshing(c)'
    BY <1>3 DEF Refreshing
  <2>3. job'[c].src = None /\ ~At(c, "getSrc")'
    BY <2>2, <1>3, <1>4, <1>5 DEF At
  <2>4. job'[c].floor <= server'[job'[c].l].ver
    BY <2>1, <1>1, <1>3
  <2> QED
    BY <2>3, <2>4 DEF Refreshing, ActsOnLatest
<1> QED
  BY <1>6, <1>7, <1>8, <1>9 DEF Prepared

\* Whatever other clients do, each step of the one caller finds what the steps
\* before it have prepared.
LEMMA PreparedOK ==
    ASSUME IInv, IInv', NEW c \in Callers, Callers = {c}, Prepared(c), [Next]_vars
    PROVE  Prepared(c)'
<1>1. CacheOff'
  BY CacheOffOK DEF Prepared
<1>2. CASE Begin(c)
  BY <1>1, <1>2, BeginPrepares
<1>3. CASE Continue(c)
  <2>1. CASE job[c] # None /\ Returns(c) /\ UNCHANGED <<server, cache, process, held>>
    BY <1>1, <2>1 DEF Returns, Prepared, FlushReady, MoveReady, ClearReady, Refreshing, At
  <2> QED
    BY <1>1, <1>3, <2>1, ContinueCases, LookupPrepares, WorkPrepares
<1>4. CASE OtherClient \/ Restart \/ UNCHANGED vars
  <2>1. UNCHANGED <<cache, job, call>>
    BY <1>4 DEF OtherClient, Restart, vars
  <2>2. FlushReady(c)' /\ MoveReady(c)' /\ ClearReady(c)'
    BY <2>1 DEF Prepared, FlushReady, MoveReady, ClearReady, At, Step
  <2>3. Refreshing(c)'
    <3>1. SUFFICES ASSUME job[c] # None, Program[job[c].op][1] = "remove"
                   PROVE  Refreshing(c)'
      BY <2>1 DEF Refreshing
    <3>2. job[c].l \in Links /\ job[c].floor \in Nat
      BY <3>1 DEF IInv, CallersOK, Job
    <3>3. server[job[c].l].ver \in Nat /\ server'[job[c].l].ver \in Nat
      BY <3>2 DEF IInv, ServerOK, Snapshot, Link
    <3>4. server'[job[c].l].ver >= server[job[c].l].ver
      BY <3>2, VersionsGrow
    <3>5. job[c].floor <= server'[job[c].l].ver
      BY <3>1, <3>2, <3>3, <3>4 DEF Prepared, Refreshing
    <3> QED
      BY <2>1, <3>1, <3>5 DEF Prepared, Refreshing, ActsOnLatest, At, Step
  <2> QED
    BY <1>1, <2>2, <2>3 DEF Prepared
<1> QED
  BY <1>2, <1>3, <1>4 DEF Next

LEMMA PreparedInit ==
    ASSUME Init, NEW c \in Callers
    PROVE  Prepared(c)
<1>1. job[c] = None /\ cache = EmptyTable
  BY DEF Init
<1> QED
  BY <1>1, CachedEmpty DEF Prepared, CacheOff, FlushReady, MoveReady, ClearReady, Refreshing, At

\* One goroutine calls the bridge.
OneCaller == \E c \in Callers : Callers = {c}

AllPrepared == \A c \in Callers : Prepared(c)

\* A single caller is always prepared for its next step.
THEOREM Preparation ==
    ASSUME OneCaller
    PROVE  Spec => [](IInv /\ AllPrepared)
<1>1. Init => IInv /\ AllPrepared
  BY InitOK, PreparedInit DEF AllPrepared
<1>2. IInv /\ AllPrepared /\ [Next]_vars => (IInv /\ AllPrepared)'
  <2> SUFFICES ASSUME IInv, AllPrepared, [Next]_vars
               PROVE  IInv' /\ AllPrepared'
    OBVIOUS
  <2>1. IInv'
    BY NextOK
  <2>2. PICK c \in Callers : Callers = {c}
    BY DEF OneCaller
  <2>3. Prepared(c)'
    BY <2>1, <2>2, PreparedOK DEF AllPrepared
  <2> QED
    BY <2>1, <2>2, <2>3 DEF AllPrepared
<1> QED
  BY <1>1, <1>2, PTL DEF Spec

-----------------------------------------------------------------------------
(* Operations by ID *)

\* An operation that begins by removing its link from the cache then acts on the
\* link as it was on the server after the operation began: for one caller,
\* whatever other clients do and whichever answers are lost.
THEOREM RefreshesFirst ==
    ASSUME OneCaller
    PROVE  Spec => []RefreshedBeforeUse
<1>1. AllPrepared => RefreshedBeforeUse
  BY DEF AllPrepared, Prepared, Refreshing, RefreshedBeforeUse
<1> QED
  BY <1>1, Preparation, PTL

\* A step of caller c that ends an operation at its removeTree is that step.
LEMMA RemovesTree ==
    ASSUME IInv, NEW c \in Callers, Callers = {c}, [Next]_vars,
           At(c, "removeTree"), job'[c] = None
    PROVE  /\ Work(c) /\ Returns(c) /\ server' = server
           /\ cache' = IF EnableCaching THEN Remove(cache, job[c].l, TRUE) ELSE cache
<1>1. job[c] # None /\ Step(c) = "removeTree"
  BY DEF At
<1>2. Continue(c)
  BY <1>1 DEF Next, Begin, OtherClient, Restart, vars
<1>3. ~Lookup(c)
  BY <1>1, LookupOutcome DEF LinkSteps, KeyringSteps
<1>4. ~RequestFails(c)
  <2>1. call[c].at = "none"
    <3>1. SUFFICES ASSUME call[c].at # "none"
                   PROVE  FALSE
      OBVIOUS
    <3> QED
      BY <3>1, <1>1, InLookup DEF IInv, LookupOK, Call, Step, LinkSteps, KeyringSteps
  <2> QED
    BY <1>1, <2>1 DEF RequestFails, At
<1>5. Work(c)
  BY <1>2, <1>3, <1>4 DEF Continue, Work
<1>6. server' = server
  BY <1>1, <1>5 DEF Work, Request, Move, Trash, Create, FindDst, Commit, Read, ListEmpty,
     EmptyTrashOnServer, ListRoot, TrashListed, DeleteListed, CheckLink, Invalidate, Clear, At
<1>7. ~Advances(c)
  BY DEF Advances
<1> QED
  BY <1>1, <1>5, <1>6, <1>7, WorkOutcome

\* A removal with all children takes every link from which cached parents lead to
\* the link that is removed: what it reaches is closed under them.
LEMMA RemovesBelow ==
    ASSUME NEW t, TableOK(t), NEW l \in Cached(t)
    PROVE  CachedBelow(t, l) \subseteq Reached(t, l, TRUE)
<1> DEFINE gone == Reached(t, l, TRUE)
<1>1. l \in gone
  BY DEF Reached
<1>2. gone \subseteq Links
  BY ReachedClosed DEF Cached
<1>3. ASSUME NEW x \in Cached(t), ParentOf(t, x) \in gone
      PROVE  x \in gone
  <2>1. x \in t.children[ParentOf(t, x)]
    BY DEF TableOK, EntryOK, ParentOf
  <2> QED
    BY <1>3, <2>1, ReachedClosed
<1> HIDE DEF gone
<1>4. CachedBelow(t, l) \subseteq gone
  BY <1>1, <1>2, <1>3 DEF CachedBelow
<1> QED
  BY <1>4 DEF gone

\* moveToTrash takes the whole cached subtree of the link it trashed out of the
\* cache: for one caller, whatever other clients do.
THEOREM TrashEmptiesCache ==
    ASSUME OneCaller
    PROVE  Spec => TrashFlushes
<1>1. ASSUME NEW c \in Callers, Callers = {c}, IInv, Prepared(c), [Next]_vars,
             At(c, "removeTree"), job'[c] = None
      PROVE  CachedBelow(cache, job[c].l) \cap Cached(cache') = {}
  <2> DEFINE l == job[c].l
  <2>1. job[c] # None /\ Step(c) = "removeTree"
    BY <1>1 DEF At
  <2>2. cache' = IF EnableCaching THEN Remove(cache, l, TRUE) ELSE cache
    BY <1>1, RemovesTree
  <2>3. CASE ~EnableCaching
    BY <1>1, <2>3 DEF Prepared, CacheOff, CachedBelow
  <2>4. CASE EnableCaching
    <3>1. l \in Cached(cache)
      <4>1. /\ job[c].at \in 1..Len(Program[job[c].op]) /\ StepShape(job[c].op, job[c].at)
            /\ Shape(job[c].op) /\ Step(c) = Program[job[c].op][job[c].at]
            /\ job[c].at \in Nat \ {0}
        BY <1>1, <2>1, ThisStep
      <4>2. Flushes(job[c].op)
        BY <2>1, <4>1 DEF Flushes
      <4>3. job[c].at # 1 /\ job[c].at # 2
        BY <2>1, <4>1, <4>2 DEF Shape
      <4> QED
        BY <1>1, <2>1, <2>4, <4>1, <4>2, <4>3 DEF Prepared, FlushReady
    <3>2. TableOK(cache)
      BY <1>1 DEF IInv
    <3>3. CachedBelow(cache, l) \subseteq Reached(cache, l, TRUE)
      BY <3>1, <3>2, RemovesBelow
    <3>4. Cached(Remove(cache, l, TRUE)) = Cached(cache) \ Reached(cache, l, TRUE)
      BY CachedAfterRemove
    <3>5. cache' = Remove(cache, l, TRUE)
      BY <2>2, <2>4
    <3>6. Cached(cache') = Cached(cache) \ Reached(cache, l, TRUE)
      BY <3>4, <3>5 DEF Cached
    <3> QED
      BY <3>3, <3>6
  <2> QED
    BY <2>3, <2>4
<1> DEFINE Flushed ==
             \A c \in Callers : At(c, "removeTree") /\ job'[c] = None /\ process' = "running" =>
                CachedBelow(cache, job[c].l) \cap Cached(cache') = {}
<1>2. IInv /\ AllPrepared /\ [Next]_vars => Flushed
  BY <1>1 DEF OneCaller, AllPrepared
<1>3. Spec => [][Flushed]_vars
  BY <1>2, Preparation, PTL DEF Spec
<1> QED
  BY <1>3 DEF TrashFlushes

-----------------------------------------------------------------------------
(* Steps of the server *)

\* No other client moves links or puts them into the trash.
Undisturbed == OthersMay \cap {"move", "trash"} = {}

\* Only a move changes the parent of a link that exists, and none ceases to.
LEMMA ParentSteps ==
    ASSUME IInv, NEW c \in Callers, Callers = {c}, [Next]_vars, "move" \notin OthersMay,
           NEW k \in Links
    PROVE  /\ \/ server'[k].parent = server[k].parent
              \/ Create(c) /\ server[k].state = "absent"
              \/ Move(c) /\ k = job[c].l
           /\ server[k].state # "absent" => server'[k].state # "absent"
<1>1. ServerOK
  BY DEF IInv
<1>2. CASE server' = server
  BY <1>2
<1>3. CASE OtherClient
  <2>1. PICK l \in Links : server' = Trashed({l}) \/ server' = Touched(l)
    BY <1>3 DEF OtherClient
  <2> QED
    BY <1>1, <2>1, StatesChange, TouchedKeeps
<1>4. CASE Move(c)
  <2>1. job[c].l \in Links
    BY <1>4, InStep DEF Move, IInv, Job
  <2>2. server' = Moved(job[c].l, job[c].dst.id, job[c].kr)
    BY <1>4 DEF Move, Answer
  <2> QED
    BY <1>4, <2>1, <2>2, <1>1, ServerChanges
<1>5. CASE Create(c)
  <2>1. PICK l \in Links : server[l].state = "absent"
                           /\ server' = Created(l, job[c].src.id, job[c].kr)
    BY <1>5 DEF Create, Answer
  <2> QED
    BY <1>5, <2>1, <1>1, ServerChanges
<1>6. CASE Commit(c)
  <2>1. server' = Touched(job[c].dst.id)
    BY <1>6 DEF Commit, Answer
  <2> QED
    BY <2>1, <1>1, TouchedKeeps
<1>7. CASE Trash(c) \/ EmptyTrashOnServer(c) \/ TrashListed(c) \/ DeleteListed(c)
  <2>1. PICK S : server' = Trashed(S) \/ server' = Deleted(S)
    BY <1>7 DEF Trash, EmptyTrashOnServer, TrashListed, DeleteListed, Answer
  <2> QED
    BY <2>1, <1>1, StatesChange
<1>8. CASE Continue(c) /\ server' # server
  BY <1>4, <1>5, <1>6, <1>7, <1>8 DEF Continue, Lookup, CacheLookup, Fetch, InsertFetched,
     LookupKeyring, Plant, LookupKeyringByID, Decrypt, DeliverKeyring, RequestFails, CheckLink,
     Invalidate, Clear, Request, Read, ListEmpty, FindDst, ListRoot
<1> QED
  BY <1>2, <1>3, <1>8 DEF Next, Begin, Restart, vars

\* The state of a link that exists changes only with a request for it, or with
\* one that empties the trash or the root folder.
LEMMA StateSteps ==
    ASSUME IInv, NEW c \in Callers, Callers = {c}, [Next]_vars, Undisturbed, NEW k \in Links
    PROVE  \/ server'[k].state = server[k].state
           \/ Create(c) /\ server[k].state = "absent"
           \/ Trash(c) /\ k = job[c].l
           \/ Work(c) /\ Step(c) \in AfterClear
<1>1. ServerOK
  BY DEF IInv
<1>2. CASE server' = server
  BY <1>2
<1>3. CASE OtherClient
  <2>1. PICK l \in Links : server' = Touched(l)
    BY <1>3 DEF OtherClient, Undisturbed
  <2> QED
    BY <1>1, <2>1, TouchedKeeps
<1>4. CASE Move(c)
  <2>1. job[c].l \in Links
    BY <1>4, InStep DEF Move, IInv, Job
  <2>2. server' = Moved(job[c].l, job[c].dst.id, job[c].kr)
    BY <1>4 DEF Move, Answer
  <2> QED
    BY <1>4, <2>1, <2>2, <1>1, ServerChanges
<1>5. CASE Create(c)
  <2>1. PICK l \in Links : server[l].state = "absent"
                           /\ server' = Created(l, job[c].src.id, job[c].kr)
    BY <1>5 DEF Create, Answer
  <2> QED
    BY <1>5, <2>1, <1>1, ServerChanges
<1>6. CASE Commit(c)
  <2>1. server' = Touched(job[c].dst.id)
    BY <1>6 DEF Commit, Answer
  <2> QED
    BY <2>1, <1>1, TouchedKeeps
<1>7. CASE Trash(c)
  <2>1. server' = Trashed({job[c].l})
    BY <1>7 DEF Trash, Answer
  <2> QED
    BY <2>1, <1>1, <1>7, StatesChange
<1>8. CASE EmptyTrashOnServer(c) \/ TrashListed(c) \/ DeleteListed(c)
  BY <1>8 DEF EmptyTrashOnServer, TrashListed, DeleteListed, Work, Request, AfterClear, At
<1>9. CASE Continue(c) /\ server' # server
  BY <1>4, <1>5, <1>6, <1>7, <1>8, <1>9 DEF Continue, Lookup, CacheLookup, Fetch, InsertFetched,
     LookupKeyring, Plant, LookupKeyringByID, Decrypt, DeliverKeyring, RequestFails, CheckLink,
     Invalidate, Clear, Request, Read, ListEmpty, FindDst, ListRoot
<1> QED
  BY <1>2, <1>3, <1>9 DEF Next, Begin, Restart, vars

-----------------------------------------------------------------------------
(* Where the client's links come from *)

\* The link an operation is entered with is one that it holds.
LEMMA EnterHas ==
    ASSUME NEW op, NEW at, NEW l, NEW d, NEW src, NEW dst, NEW x,
           CallHas(Enter(op, at, l, d, src, dst), x)
    PROVE  x = src \/ x = dst
<1> DEFINE cl == Enter(op, at, l, d, src, dst)
<1>1. cl.climb = <<>> /\ (cl.at \in {"insert", "kr", "plant"} => cl.link \in {src, dst})
  BY DEF Enter, NoCall
<1> HIDE DEF cl
<1>2. CallHas(cl, x)
  BY DEF cl
<1> QED
  BY <1>1, <1>2 DEF CallHas

\* What a removal leaves in the cache was there, and what an insertion adds was
\* the answer of the lookup, or the link whose keyring it looks up.
LEMMA CacheProvenance ==
    ASSUME IInv, NEW c \in Callers, Callers = {c}, [Next]_vars, NEW x, CacheHas(x)'
    PROVE  CacheHas(x) \/ CallHas(call[c], x)
<1>1. PICK l \in Cached(cache') : x = cache'.data[l].link
  BY DEF CacheHas
<1>2. TableOK(cache) /\ CallersOK /\ l \in Links
  BY DEF IInv, Cached
<1>3. CASE cache' = cache
  BY <1>1, <1>3 DEF CacheHas
<1>4. CASE cache' = EmptyTable
  BY <1>1, <1>4, CachedEmpty
<1>5. CASE call[c].at \in {"insert", "plant"} /\ cache' = Inserted(call[c].link)
  <2>1. call[c].link \in Snapshot
    BY <1>2, <1>5, InLookup DEF LookupOK
  <2>2. CASE EnableCaching
    <3>1. cache' = Insert(cache, call[c].link)
      BY <1>5, <2>2 DEF Inserted
    <3>2. /\ Cached(cache') = Cached(cache) \cup {call[c].link.id}
          /\ cache'.data[l].link = IF l = call[c].link.id THEN call[c].link
                                   ELSE cache.data[l].link
      BY <2>1, <3>1, <1>2, CachedAfterInsert
    <3>3. CASE l = call[c].link.id
      BY <3>2, <3>3, <1>1, <1>5 DEF CallHas
    <3>4. CASE l # call[c].link.id
      BY <3>2, <3>4, <1>1 DEF CacheHas
    <3> QED
      BY <3>3, <3>4
  <2>3. CASE ~EnableCaching
    BY <2>3, <1>3, <1>5 DEF Inserted
  <2> QED
    BY <2>2, <2>3
<1>6. ASSUME NEW k \in Cached(cache), cache' = SetKeyring(cache, k, k)
      PROVE  CacheHas(x)
  <2>1. Cached(cache') = Cached(cache) /\ cache'.data[l].link = cache.data[l].link
    BY <1>1, <1>2, <1>6, CachedAfterSetKeyring
  <2> QED
    BY <2>1, <1>1 DEF CacheHas
<1>7. ASSUME NEW k, NEW b, cache' = Remove(cache, k, b)
      PROVE  CacheHas(x)
  <2>1. l \in Cached(cache) /\ cache'.data[l] = cache.data[l]
    BY <1>1, <1>7, CachedAfterRemove
  <2> QED
    BY <2>1, <1>1 DEF CacheHas
<1>8. CASE Lookup(c)
  <2>1. CASE InsertFetched(c) \/ Plant(c)
    BY <2>1, <1>5 DEF InsertFetched, Plant
  <2>2. CASE Decrypt(c)
    <3>1. /\ job[c] # None /\ LookupOK(call[c], job[c]) /\ call[c].climb # <<>>
          /\ call[c].at = "unwind"
      BY <2>2, <1>2, InLookup DEF Decrypt
    <3>2. cache' = cache \/ \E k \in Links : Hit(k) /\ cache' = SetKeyring(cache, k, k)
      BY <2>2, <1>2, CachedSnapshot DEF Decrypt
    <3> QED
      BY <3>2, <1>3, <1>6 DEF Hit
  <2>3. CASE CacheLookup(c) \/ Fetch(c) \/ LookupKeyring(c) \/ LookupKeyringByID(c)
             \/ DeliverKeyring(c)
    BY <2>3, <1>3, <1>4 DEF CacheLookup, Fetch, LookupKeyring, LookupKeyringByID, DeliverKeyring,
       Climb, Die
  <2> QED
    BY <1>8, <2>1, <2>2, <2>3 DEF Lookup
<1>9. CASE Work(c)
  <2>1. \/ cache' = cache
        \/ \E k, b : cache' = Remove(cache, k, b)
        \/ cache' = EmptyTable
    <3>1. CASE Step(c) \notin Removals
      BY <1>9, <3>1, WorkOutcome
    <3>2. CASE Step(c) = "remove"
      <4>1. cache' = IF EnableCaching THEN Remove(cache, job[c].l, FALSE) ELSE cache
        BY <1>9, <3>2, WorkOutcome
      <4> QED
        BY <4>1
    <3>3. CASE Step(c) = "removeTree"
      <4>1. cache' = IF EnableCaching THEN Remove(cache, job[c].l, TRUE) ELSE cache
        BY <1>9, <3>3, WorkOutcome
      <4> QED
        BY <4>1
    <3>4. CASE Step(c) = "clear"
      BY <1>9, <3>4, WorkOutcome
    <3> QED
      BY <3>1, <3>2, <3>3, <3>4 DEF Removals
  <2> QED
    BY <2>1, <1>3, <1>4, <1>7
<1> QED
  BY <1>3, <1>8, <1>9, ContinueCases DEF Next, Begin, OtherClient, Restart, vars

\* A link that the client did not have yet is the server's.
Served(x) == \E l \in Links : Reachable(l) /\ x = server[l]

LEMMA LookupProvenance ==
    ASSUME IInv, NEW c \in Callers, Lookup(c), NEW x \in Snapshot,
           JobHas(job'[c], x) \/ CallHas(call'[c], x)
    PROVE  Has(c, x) \/ Served(x)
<1>1. CallersOK /\ TableOK(cache) /\ call[c].at # "none"
  BY LookupOutcome DEF IInv
<1>2. /\ job[c] # None /\ job[c] \in Job /\ call \in [Callers -> Call]
      /\ call[c] \in Call /\ LookupOK(call[c], job[c])
  BY <1>1, InLookup DEF CallersOK
<1>3. CASE job' = job /\ ~CallHas(call'[c], x)
  BY <1>3 DEF Has
<1>4. ~Returns(c)
  BY DEF Returns, NoCall, JobHas, CallHas
<1>5. ASSUME Advances(c), job'[c].src = job[c].src, job'[c].dst = job[c].dst
      PROVE  Has(c, x)
  BY <1>2, <1>5, EnterHas DEF Advances, JobHas, Has
<1>6. ASSUME NEW link \in Snapshot, CacheHas(link) \/ CallHas(call[c], link),
             call[c].at \in {"get", "insert"}, DeliverLink(c, link)
      PROVE  Has(c, x)
  <2>1. link \in Link
    BY SnapshotIsLink
  <2>2. CASE call[c].wants = "kr"
    <3>1. job' = job /\ call' = [call EXCEPT ![c] = [call[c] EXCEPT !.at = "kr", !.link = link]]
      BY <2>1, <2>2, <1>1, <1>6, DeliverLinkAdvances
    <3>2. call'[c].climb = call[c].climb /\ call'[c].link = link
      BY <3>1, <1>2 DEF Call
    <3> QED
      BY <3>1, <3>2, <1>1, <1>6 DEF Has, CallHas
  <2>3. CASE call[c].wants = "link"
    <3>1. Returns(c) \/ (Advances(c) /\ job'[c].src \in {job[c].src, link}
                                     /\ job'[c].dst \in {job[c].dst, link})
      BY <2>1, <2>3, <1>1, <1>6, DeliverLinkAdvances
    <3>2. Advances(c) => x = job'[c].src \/ x = job'[c].dst
      BY EnterHas DEF Advances, JobHas
    <3> QED
      BY <3>1, <3>2, <1>2, <1>4, <1>6 DEF Has, JobHas
  <2> QED
    BY <2>2, <2>3, <1>2 DEF Call
<1>7. CASE CacheLookup(c)
  <2>1. CASE Hit(call[c].id)
    <3>1. /\ call[c].at = "get" /\ DeliverLink(c, cache.data[call[c].id].link)
          /\ cache.data[call[c].id].link \in Snapshot /\ call[c].id \in Cached(cache)
      BY <2>1, <1>1, <1>7, CachedSnapshot DEF CacheLookup
    <3> QED
      BY <3>1, <1>6 DEF CacheHas
  <2>2. CASE ~Hit(call[c].id)
    <3>1. job' = job /\ call' = [call EXCEPT ![c].at = "fetch"]
      BY <2>2, <1>7 DEF CacheLookup
    <3>2. call'[c].climb = call[c].climb /\ call'[c].at = "fetch"
      BY <3>1, <1>2 DEF Call
    <3> QED
      BY <3>1, <3>2, <1>1 DEF Has, CallHas
  <2> QED
    BY <2>1, <2>2
<1>8. CASE Fetch(c)
  <2> DEFINE link == server[call[c].id]
  <2>1. call[c].id \in Links /\ Reachable(call[c].id)
    BY <1>2, <1>8 DEF Fetch, LookupOK, Reachable
  <2>2. job' = job /\ call' = [call EXCEPT ![c] = [call[c] EXCEPT !.at = "insert", !.link = link]]
    BY <1>8 DEF Fetch
  <2>3. call'[c].climb = call[c].climb /\ call'[c].link = link
    BY <2>2, <1>2 DEF Call
  <2> QED
    BY <2>1, <2>2, <2>3, <1>1 DEF Has, CallHas, Served
<1>9. CASE InsertFetched(c)
  <2>1. /\ call[c].at = "insert" /\ call[c].link \in Snapshot /\ DeliverLink(c, call[c].link)
        /\ CallHas(call[c], call[c].link)
    BY <1>2, <1>9 DEF InsertFetched, LookupOK, CallHas
  <2> QED
    BY <2>1, <1>6
<1>10. ASSUME NEW link, call[c].at = "kr", CacheHas(link) \/ link = call[c].link, Climb(c, link)
       PROVE  Has(c, x)
  <2>1. CASE Len(call[c].climb) < MaxDepth
    <3> DEFINE new == Append(call[c].climb, link)
    <3>1. /\ job' = job
          /\ call' = [call EXCEPT ![c] = [call[c] EXCEPT !.at = "krById", !.id = link.parent,
                                                         !.link = None, !.climb = new]]
      BY <2>1, <1>10 DEF Climb
    <3>2. call'[c].climb = new /\ call'[c].at = "krById"
      BY <3>1, <1>2 DEF Call
    <3>3. CASE CallHas(call'[c], x)
      <4>1. PICK k \in 1..Len(new) : x = new[k]
        BY <3>2, <3>3 DEF CallHas
      <4>2. PICK n \in Nat : n = Len(call[c].climb)
        BY <1>2 DEF LookupOK, ClimbOK
      <4>3. Len(new) = n + 1 /\ new[n + 1] = link /\ \A i \in 1..n : new[i] = call[c].climb[i]
        BY <4>2, <1>2 DEF LookupOK, ClimbOK
      <4>4. CASE k = n + 1
        BY <4>1, <4>3, <4>4, <1>10 DEF Has, CallHas
      <4>5. CASE k # n + 1
        <5>1. k \in 1..n
          BY <4>1, <4>3, <4>5
        <5> QED
          BY <5>1, <4>1, <4>2, <4>3, <1>1 DEF Has, CallHas
      <4> QED
        BY <4>4, <4>5
    <3> QED
      BY <3>1, <3>3 DEF Has
  <2>2. CASE ~(Len(call[c].climb) < MaxDepth)
    <3>1. Die("overflow")
      BY <2>2, <1>10 DEF Climb
    <3> QED
      BY <3>1, <1>4 DEF Returns, Die
  <2> QED
    BY <2>1, <2>2
<1>11. CASE LookupKeyring(c)
  <2> DEFINE link == call[c].link
  <2>1. call[c].at = "kr" /\ link \in Snapshot
    BY <1>2, <1>11 DEF LookupKeyring, LookupOK
  <2>2. CASE Climb(c, link)
    BY <2>1, <2>2, <1>10
  <2>3. CASE Hit(link.id) /\ Climb(c, cache.data[link.id].link)
    <3>1. CacheHas(cache.data[link.id].link)
      BY <2>3, <1>1, CachedSnapshot DEF CacheHas
    <3> QED
      BY <2>1, <2>3, <3>1, <1>10
  <2>4. CASE call' = [call EXCEPT ![c].at = "plant"] /\ job' = job
    <3>1. call'[c].climb = call[c].climb /\ call'[c].link = link
      BY <2>4, <1>2 DEF Call
    <3> QED
      BY <2>1, <2>4, <3>1 DEF Has, CallHas
  <2>5. CASE /\ call' = [call EXCEPT ![c] = [@ EXCEPT !.at = "unwind", !.link = None,
                                                      !.kr = cache.data[link.id].kr]]
             /\ job' = job
    <3>1. call'[c].climb = call[c].climb /\ call'[c].at = "unwind"
      BY <2>5, <1>2 DEF Call
    <3> QED
      BY <2>1, <2>5, <3>1 DEF Has, CallHas
  <2> QED
    BY <1>11, <2>2, <2>3, <2>4, <2>5 DEF LookupKeyring
<1>12. CASE Plant(c)
  <2>1. call[c].at = "plant" /\ job' = job /\ call' = [call EXCEPT ![c].at = "kr"]
    BY <1>12 DEF Plant
  <2>2. call'[c].climb = call[c].climb /\ call'[c].link = call[c].link
    BY <2>1, <1>2 DEF Call
  <2> QED
    BY <2>1, <2>2 DEF Has, CallHas
<1>13. CASE LookupKeyringByID(c)
  <2> DEFINE id == call[c].id
             link == cache.data[id].link
  <2>1. job' = job
    BY <1>13 DEF LookupKeyringByID
  <2>2. CASE Hit(id) /\ call' = [call EXCEPT ![c] = [@ EXCEPT !.at = "kr", !.link = link]]
    <3>1. call'[c].climb = call[c].climb /\ call'[c].link = link
      BY <2>2, <1>2 DEF Call
    <3>2. CacheHas(link)
      BY <2>2, <1>1, CachedSnapshot DEF CacheHas
    <3> QED
      BY <2>1, <3>1, <3>2, <1>1 DEF Has, CallHas
  <2>3. CASE call' = [call EXCEPT ![c] = [call[c] EXCEPT !.at = "unwind", !.kr = NoLink]]
    <3>1. call'[c].climb = call[c].climb /\ call'[c].at = "unwind"
      BY <2>3, <1>2 DEF Call
    <3> QED
      BY <2>1, <3>1, <1>1 DEF Has, CallHas
  <2>4. CASE call' = [call EXCEPT ![c] = [call[c] EXCEPT !.at = "get"]]
    <3>1. call'[c].climb = call[c].climb /\ call'[c].at = "get"
      BY <2>4, <1>2 DEF Call
    <3> QED
      BY <2>1, <3>1, <1>1 DEF Has, CallHas
  <2> QED
    BY <1>13, <2>2, <2>3, <2>4 DEF LookupKeyringByID
<1>14. CASE Decrypt(c)
  <2> DEFINE old == call[c].climb
             new == SubSeq(old, 1, Len(old) - 1)
  <2>1. ~Return(c)
    BY <1>1, <1>4, ReturnReturns
  <2>2. /\ job' = job /\ call[c].at = "unwind"
        /\ call' = [call EXCEPT ![c] = [call[c] EXCEPT !.kr = Innermost(c).id, !.climb = new]]
    BY <2>1, <1>14 DEF Decrypt
  <2>3. call'[c].climb = new /\ call'[c].at = "unwind"
    BY <2>2, <1>2 DEF Call
  <2>4. CASE CallHas(call'[c], x)
    <3>1. PICK k \in 1..Len(new) : x = new[k]
      BY <2>3, <2>4 DEF CallHas
    <3>2. PICK n \in Nat \ {0} : n = Len(old)
      BY <1>2, <1>14 DEF LookupOK, ClimbOK, Decrypt
    <3>3. Len(new) = n - 1 /\ \A i \in 1..(n - 1) : new[i] = old[i]
      BY <3>2, <1>2 DEF LookupOK, ClimbOK
    <3>4. k \in 1..n /\ x = old[k]
      BY <3>1, <3>2, <3>3
    <3> QED
      BY <3>2, <3>4, <1>1 DEF Has, CallHas
  <2> QED
    BY <2>2, <2>4 DEF Has
<1>15. CASE DeliverKeyring(c)
  <2> DEFINE j == IF Step(c) \in {"krSrc", "krDst"} THEN [job[c] EXCEPT !.kr = call[c].kr]
                                                     ELSE job[c]
  <2>1. Proceed(c, j)
    BY <1>1, <1>4, <1>15, ReturnReturns DEF DeliverKeyring
  <2>2. Step(c) \in {"krSrc", "krDst"} => call[c].kr \in Keyring \cup {None}
    BY <1>2 DEF Call
  <2>3. /\ j \in Job /\ j.op = job[c].op /\ j.at = job[c].at /\ j.l = job[c].l /\ j.d = job[c].d
        /\ j.floor = job[c].floor /\ j.src = job[c].src /\ j.dst = job[c].dst
    BY <1>2, <2>2 DEF Job
  <2> HIDE DEF j
  <2>4. Advances(c) /\ job'[c].src = job[c].src /\ job'[c].dst = job[c].dst
    BY <2>1, <2>3, <1>1, <1>2, <1>4, ProceedAdvances
  <2> QED
    BY <2>4, <1>5
<1> QED
  BY <1>7, <1>8, <1>9, <1>11, <1>12, <1>13, <1>14, <1>15 DEF Lookup

\* The client gets a link from nowhere but the server, which had it when it was
\* asked; it does not keep links from operation to operation but in the cache.
LEMMA Provenance ==
    ASSUME IInv, NEW c \in Callers, Callers = {c}, [Next]_vars, Ops \cap ByLink = {},
           NEW x \in Snapshot, Has(c, x)'
    PROVE  Has(c, x) \/ Served(x)
<1>1. CASE CacheHas(x)'
  BY <1>1, CacheProvenance DEF Has
<1>2. CASE JobHas(job'[c], x) \/ CallHas(call'[c], x)
  <2>1. CASE Begin(c)
    <3>1. PICK op \in Ops, l \in Links, d \in Links :
            /\ job'[c] = Started(c, op, l, d)
            /\ call'[c] = Enter(job'[c].op, job'[c].at, job'[c].l, job'[c].d,
                                job'[c].src, job'[c].dst)
      BY <2>1 DEF Begin, IInv, CallersOK
    <3>2. job'[c].src = None /\ job'[c].dst = None
      BY <3>1 DEF Started
    <3>3. x # None
      BY SnapshotIsLink
    <3> QED
      BY <3>1, <3>2, <3>3, <1>2, EnterHas DEF JobHas
  <2>2. CASE Lookup(c)
    BY <1>2, <2>2, LookupProvenance
  <2>3. CASE Work(c)
    <3>1. /\ job[c] # None /\ Step(c) \notin LinkSteps /\ (Returns(c) \/ Advances(c))
          /\ Advances(c) /\ Step(c) = "findDst" =>
               \E l \in Links : server[l].state = "active" /\ job'[c].dst = server[l]
      BY <2>3, WorkOutcome
    <3>2. Advances(c)
      BY <1>2, <3>1 DEF Returns, NoCall, JobHas, CallHas
    <3>3. x = job'[c].src \/ x = job'[c].dst
      BY <1>2, <3>2, EnterHas DEF Advances, JobHas
    <3>4. job'[c].src = job[c].src /\ (Step(c) # "findDst" => job'[c].dst = job[c].dst)
      BY <3>1, <3>2 DEF Advances, LinkSteps
    <3> QED
      BY <3>1, <3>2, <3>3, <3>4 DEF Has, JobHas, Served, Reachable
  <2>4. CASE Returns(c)
    BY <1>2, <2>4 DEF Returns, NoCall, JobHas, CallHas
  <2>5. CASE OtherClient \/ Restart \/ UNCHANGED vars
    BY <1>2, <2>5 DEF OtherClient, Restart, vars, Has
  <2> QED
    BY <2>1, <2>2, <2>3, <2>4, <2>5, ContinueCases DEF Next
<1> QED
  BY <1>1, <1>2 DEF Has

-----------------------------------------------------------------------------
(* The server's tree and the recursion of getLinkKR *)

\* A link is in its own subtree, and what hangs below a subtree is in it.
LEMMA SubtreeClosed ==
    ASSUME NEW l \in Links
    PROVE  /\ l \in Subtree(l)
           /\ \A x \in Links : server[x].parent \in Subtree(l) => x \in Subtree(l)
BY DEF Subtree

\* The tree the client finds is rooted, by assumption.
LEMMA RootedInit ==
    ASSUME Init
    PROVE  Rooted
<1>1. \A l \in Links : /\ server[l].parent = InitParent[l]
                       /\ l = Root \/ InitParent[l] # NoLink => server[l].state = "active"
  BY DEF Init
<1>2. \A S \in SUBSET Links : S # {} => \E l \in S : server[l].parent \notin S
  BY <1>1, TreeAssumption
<1>3. \A l \in Links : server[l].parent \in Links => server[server[l].parent].state # "absent"
  BY <1>1, TreeAssumption
<1> QED
  BY <1>2, <1>3 DEF Rooted

\* Moving a link to a folder that is not below it makes no loop.
LEMMA MoveKeepsRooted ==
    ASSUME IInv, Rooted, NEW c \in Callers, Move(c)
    PROVE  Rooted'
<1> DEFINE l == job[c].l
           p == job[c].dst.id
<1>1. l \in Links /\ ServerOK
  BY InStep DEF Move, IInv, Job
<1>2. /\ p \in Links /\ server[p].state = "active" /\ p \notin Subtree(l)
      /\ server' = Moved(l, p, job[c].kr)
  BY ConstantsAssumption DEF Move, MayMove, Answer
<1> HIDE DEF l, p
<1>3. \A k \in Links : /\ server'[k].state = server[k].state
                       /\ server'[k].parent = IF k = l THEN p ELSE server[k].parent
  BY <1>1, <1>2, ServerChanges
<1>4. ASSUME NEW S \in SUBSET Links, S # {}, \A k \in S : server'[k].parent \in S
      PROVE  FALSE
  <2>1. CASE l \notin S
    BY <2>1, <1>3, <1>4 DEF Rooted
  <2>2. CASE l \in S
    <3> DEFINE T == S \ Subtree(l)
    <3>1. p \in T
      BY <2>2, <1>2, <1>3, <1>4
    <3>2. \A k \in T : server[k].parent \in T
      BY <1>1, <1>3, <1>4, SubtreeClosed
    <3> QED
      BY <3>1, <3>2 DEF Rooted
  <2> QED
    BY <2>1, <2>2
<1>5. \A k \in Links : server'[k].parent \in Links => server'[server'[k].parent].state # "absent"
  BY <1>2, <1>3 DEF Rooted
<1> QED
  BY <1>4, <1>5 DEF Rooted

\* Nor does hanging a new link, which has nothing below it, from an old one.
LEMMA CreateKeepsRooted ==
    ASSUME IInv, Rooted, NEW c \in Callers, Create(c)
    PROVE  Rooted'
<1> DEFINE p == job[c].src.id
<1>1. ServerOK /\ p \in Links /\ server[p].state = "active"
  BY ConstantsAssumption DEF Create, IInv
<1>2. PICK l \in Links : server[l].state = "absent" /\ server' = Created(l, p, job[c].kr)
  BY DEF Create, Answer
<1> HIDE DEF p
<1>3. \A k \in Links : /\ server'[k].state = IF k = l THEN "active" ELSE server[k].state
                       /\ server'[k].parent = IF k = l THEN p ELSE server[k].parent
  BY <1>1, <1>2, ServerChanges
<1>4. ASSUME NEW S \in SUBSET Links, S # {}, \A k \in S : server'[k].parent \in S
      PROVE  FALSE
  <2>1. CASE l \notin S
    BY <2>1, <1>3, <1>4 DEF Rooted
  <2>2. CASE l \in S
    <3> DEFINE T == S \ {l}
    <3>1. p \in T
      BY <2>2, <1>1, <1>2, <1>3, <1>4
    <3>2. \A k \in T : server[k].parent \in T
      BY <1>2, <1>3, <1>4 DEF Rooted
    <3> QED
      BY <3>1, <3>2 DEF Rooted
  <2> QED
    BY <2>1, <2>2
<1>5. \A k \in Links : server'[k].parent \in Links => server'[server'[k].parent].state # "absent"
  BY <1>1, <1>3 DEF Rooted
<1> QED
  BY <1>4, <1>5 DEF Rooted

\* The server's tree stays rooted, whatever the client asks for.
LEMMA RootedOK ==
    ASSUME IInv, Rooted, NEW c \in Callers, Callers = {c}, [Next]_vars, "move" \notin OthersMay
    PROVE  Rooted'
<1>1. CASE Move(c)
  BY <1>1, MoveKeepsRooted
<1>2. CASE Create(c)
  BY <1>2, CreateKeepsRooted
<1>3. CASE ~Move(c) /\ ~Create(c)
  <2>1. \A k \in Links : /\ server'[k].parent = server[k].parent
                         /\ server[k].state # "absent" => server'[k].state # "absent"
    BY <1>3, ParentSteps
  <2> QED
    BY <2>1 DEF Rooted
<1> QED
  BY <1>1, <1>2, <1>3

\* A move is requested when the link is out of the cache, and it is the last
\* step: what the client knows of parents is never outdated.
LEMMA ParentsKnownOK ==
    ASSUME IInv, IInv', NEW c \in Callers, Callers = {c}, [Next]_vars, "move" \notin OthersMay,
           Ops \cap ByLink = {}, Prepared(c), ParentsKnown(c)
    PROVE  ParentsKnown(c)'
<1>1. SUFFICES ASSUME NEW x \in Snapshot, Has(c, x)'
               PROVE  server'[x.id].state # "absent" /\ x.parent = server'[x.id].parent
  BY DEF ParentsKnown
<1>2. x.id \in Links /\ ServerOK /\ TableOK(cache)
  BY SnapshotIsLink DEF IInv
<1>3. server[x.id].state # "absent" /\ x.parent = server[x.id].parent
  <2>1. Has(c, x) \/ Served(x)
    BY <1>1, Provenance
  <2>2. CASE Served(x)
    BY <2>2, <1>2 DEF Served, Reachable, ServerOK
  <2> QED
    BY <2>1, <2>2 DEF ParentsKnown
<1>4. ~(Move(c) /\ x.id = job[c].l)
  <2>1. SUFFICES ASSUME Move(c), x.id = job[c].l
                 PROVE  FALSE
    OBVIOUS
  <2>2. Work(c) /\ At(c, "move") /\ Step(c) = "move"
    BY <2>1 DEF Work, Request, Move, At
  <2>3. job[c] # None /\ cache' = cache /\ (Returns(c) \/ Advances(c))
    BY <2>2, WorkOutcome DEF Removals
  <2>4. ~Advances(c)
    <3>1. /\ StepShape(job[c].op, job[c].at) /\ Len(Program[job[c].op]) \in Nat
          /\ Step(c) = Program[job[c].op][job[c].at]
      BY <2>3, ThisStep
    <3>2. job[c].at = Len(Program[job[c].op])
      BY <3>1, <2>2 DEF StepShape
    <3>3. Advances(c) => job[c].at + 1 \in 1..Len(Program[job[c].op])
      BY <2>3, NextStep
    <3> QED
      BY <3>1, <3>2, <3>3
  <2>5. CacheHas(x)'
    BY <2>3, <2>4, <1>1 DEF Has, Returns, NoCall, JobHas, CallHas
  <2>6. PICK l \in Cached(cache) : x = cache.data[l].link
    BY <2>3, <2>5 DEF CacheHas
  <2>7. x.id \in Cached(cache)
    BY <2>6, <1>2 DEF TableOK, EntryOK
  <2> QED
    BY <2>1, <2>2, <2>7 DEF Prepared, MoveReady
<1> QED
  BY <1>2, <1>3, <1>4, ParentSteps

\* The links of a climb are different links of the server's tree.
LEMMA ClimbShort ==
    ASSUME IInv, Rooted, NEW c \in Callers, ParentsKnown(c), call[c].at = "kr",
           IsFiniteSet(Links)
    PROVE  Len(call[c].climb) < Cardinality(Links)
<1> DEFINE climb == call[c].climb
           link  == call[c].link
<1>1. LookupOK(call[c], job[c])
  BY InLookup DEF IInv
<1>2. climb \in Seq(Snapshot) /\ link \in Snapshot /\ link.id = Wanted(call[c], job[c])
  BY <1>1 DEF LookupOK, ClimbOK
<1>3. PICK n \in Nat : n = Len(climb)
  BY <1>2
<1>4. \A k \in 1..n : climb[k] \in Snapshot /\ Has(c, climb[k])
  BY <1>2, <1>3 DEF Has, CallHas
<1>5. \A k \in 1..(n - 1) : climb[k].parent = climb[k + 1].id
  BY <1>1, <1>3 DEF LookupOK, ClimbOK
<1>6. n # 0 => climb[n].parent = link.id
  BY <1>2, <1>3 DEF Wanted
<1> DEFINE m == n + 1
           f == [k \in 1..m |-> IF k = m THEN link.id ELSE climb[k].id]
<1>7. f \in [1..m -> Links]
  BY <1>2, <1>3, <1>4, SnapshotIsLink
<1>8. \A k \in 1..n : f[k + 1] = server[f[k]].parent
  <2> SUFFICES ASSUME NEW k \in 1..n
               PROVE  f[k + 1] = server[f[k]].parent
    OBVIOUS
  <2>1. f[k] = climb[k].id /\ k + 1 \in 1..m
    BY <1>3
  <2>2. climb[k].parent = server[climb[k].id].parent
    BY <1>4 DEF ParentsKnown
  <2>3. CASE k = n
    BY <2>1, <2>2, <2>3, <1>3, <1>6
  <2>4. CASE k # n
    <3>1. k \in 1..(n - 1) /\ f[k + 1] = climb[k + 1].id
      BY <2>1, <2>4, <1>3
    <3> QED
      BY <3>1, <2>1, <2>2, <1>5
  <2> QED
    BY <2>3, <2>4
<1> HIDE DEF climb, link, f
<1>9. ASSUME NEW i \in 1..m, NEW j \in 1..m, i < j, f[i] = f[j]
      PROVE  FALSE
  <2> DEFINE S == {f[k] : k \in i..(j - 1)}
  <2>1. S \in SUBSET Links /\ f[i] \in S
    BY <1>3, <1>7, <1>9
  <2>2. ASSUME NEW k \in i..(j - 1)
        PROVE  server[f[k]].parent \in S
    <3>1. k \in 1..n /\ server[f[k]].parent = f[k + 1]
      BY <2>2, <1>3, <1>8, <1>9
    <3>2. k + 1 \in i..(j - 1) \/ k + 1 = j
      BY <2>2, <1>3, <1>9
    <3> QED
      BY <3>1, <3>2, <2>1, <1>9
  <2> QED
    BY <2>1, <2>2 DEF Rooted
<1>10. f \in Injection(1..m, Links)
  BY <1>3, <1>7, <1>9 DEF Injection, IsInjective
<1>11. Cardinality(1..m) <= Cardinality(Links)
  BY <1>10, FS_Injection
<1>12. Cardinality(1..m) = m
  BY <1>3, FS_Interval
<1>13. Cardinality(Links) \in Nat
  BY FS_CardinalityType
<1> QED
  BY <1>3, <1>11, <1>12, <1>13 DEF climb

\* No lookup climbs higher than there are links.
LEMMA OverflowOK ==
    ASSUME IInv, Rooted, NEW c \in Callers, Callers = {c}, ParentsKnown(c), [Next]_vars,
           IsFiniteSet(Links), Cardinality(Links) <= MaxDepth, NeverOverflows
    PROVE  NeverOverflows'
<1>1. CASE LookupKeyring(c)
  <2>1. call[c].at = "kr"
    BY <1>1 DEF LookupKeyring
  <2>2. Len(call[c].climb) < Cardinality(Links)
    BY <2>1, ClimbShort
  <2>3. Len(call[c].climb) \in Nat /\ Cardinality(Links) \in Nat /\ MaxDepth \in Nat
    BY <2>1, InLookup, FS_CardinalityType, ConstantsAssumption DEF IInv, LookupOK, ClimbOK
  <2>4. Len(call[c].climb) < MaxDepth
    BY <2>2, <2>3
  <2> QED
    BY <1>1, <2>4 DEF LookupKeyring, Climb, NeverOverflows
<1>2. CASE Lookup(c) /\ ~LookupKeyring(c)
  BY <1>2 DEF Lookup, CacheLookup, Fetch, InsertFetched, Plant, LookupKeyringByID, Decrypt,
     DeliverKeyring, NeverOverflows
<1>3. CASE Request(c) \/ RequestFails(c) \/ CheckLink(c) \/ Invalidate(c) \/ Clear(c)
  BY <1>3 DEF Request, Move, Trash, Create, FindDst, Commit, Read, ListEmpty, EmptyTrashOnServer,
     ListRoot, TrashListed, DeleteListed, Answer, RequestFails, CheckLink, Invalidate, RemoveLink,
     Clear, Die, NeverOverflows
<1>4. CASE Begin(c) \/ OtherClient \/ Restart \/ UNCHANGED vars
  BY <1>4 DEF Begin, OtherClient, Restart, vars, NeverOverflows
<1> QED
  BY <1>1, <1>2, <1>3, <1>4 DEF Next, Continue

AllParentsKnown == \A c \in Callers : ParentsKnown(c)

\* A client that holds nothing yet holds nothing outdated.
LEMMA NothingKnown ==
    ASSUME Init, NEW c \in Callers, NEW x \in Snapshot
    PROVE  ~Has(c, x)
<1>1. job[c] = None /\ call[c] = NoCall /\ Cached(cache) = {}
  BY CachedEmpty DEF Init
<1> QED
  BY <1>1 DEF Has, CacheHas, JobHas, CallHas, NoCall

\* The inductive invariant for one caller, with no one else moving links
TreeKnown == IInv /\ AllPrepared /\ AllParentsKnown /\ Rooted

\* One caller, with nobody else moving links, knows the tree it works on.
LEMMA TreeKnownOK ==
    ASSUME OneCaller, "move" \notin OthersMay, Ops \cap ByLink = {}
    PROVE  /\ Init => TreeKnown
           /\ TreeKnown /\ [Next]_vars => TreeKnown'
<1>1. Init => TreeKnown
  BY InitOK, PreparedInit, NothingKnown, RootedInit
     DEF TreeKnown, AllPrepared, AllParentsKnown, ParentsKnown
<1>2. ASSUME TreeKnown, [Next]_vars
      PROVE  TreeKnown'
  <2>1. IInv /\ AllPrepared /\ AllParentsKnown /\ Rooted
    BY <1>2 DEF TreeKnown
  <2>2. IInv'
    BY <2>1, <1>2, NextOK
  <2>3. PICK c \in Callers : Callers = {c}
    BY DEF OneCaller
  <2>4. Prepared(c) /\ ParentsKnown(c)
    BY <2>1 DEF AllPrepared, AllParentsKnown
  <2>5. Prepared(c)'
    BY <2>1, <2>2, <2>3, <2>4, <1>2, PreparedOK
  <2>6. ParentsKnown(c)'
    BY <2>1, <2>2, <2>3, <2>4, <1>2, ParentsKnownOK
  <2>7. Rooted'
    BY <2>1, <2>3, <1>2, RootedOK
  <2> QED
    BY <2>2, <2>3, <2>5, <2>6, <2>7 DEF TreeKnown, AllPrepared, AllParentsKnown
<1> QED
  BY <1>1, <1>2

\* The recursion getLinkKR -> getLinkKRByID -> getLinkKR ends: with one caller,
\* and as long as no other client moves links, it never goes deeper than there
\* are links, for the parents it follows are those of the server's tree.
THEOREM RecursionEnds ==
    ASSUME OneCaller, "move" \notin OthersMay, Ops \cap ByLink = {},
           IsFiniteSet(Links), Cardinality(Links) <= MaxDepth
    PROVE  Spec => []NeverOverflows
<1>1. Init => TreeKnown /\ NeverOverflows
  BY TreeKnownOK DEF Init, NeverOverflows
<1>2. TreeKnown /\ NeverOverflows /\ [Next]_vars => (TreeKnown /\ NeverOverflows)'
  <2> SUFFICES ASSUME TreeKnown, NeverOverflows, [Next]_vars
               PROVE  TreeKnown' /\ NeverOverflows'
    OBVIOUS
  <2>1. TreeKnown'
    BY TreeKnownOK
  <2>2. PICK c \in Callers : Callers = {c}
    BY DEF OneCaller
  <2>3. IInv /\ Rooted /\ ParentsKnown(c)
    BY DEF TreeKnown, AllParentsKnown
  <2>4. NeverOverflows'
    BY <2>2, <2>3, OverflowOK
  <2> QED
    BY <2>1, <2>4
<1> QED
  BY <1>1, <1>2, PTL DEF Spec

-----------------------------------------------------------------------------
(* The cached tree is the server's *)

\* A request that is not lost and puts a link into the trash is followed by the
\* removal of that link from the cache.
LEMMA TrashGoesOn ==
    ASSUME IInv, IInv', NEW c \in Callers, LostReplies = FALSE, Trash(c)
    PROVE  At(c, "removeTree")' /\ job'[c].l = job[c].l
<1>1. job[c] # None /\ job[c] \in Job /\ Step(c) = "trash"
  BY InStep DEF Trash, IInv
<1>2. /\ StepShape(job[c].op, job[c].at) /\ job[c].at \in Nat
      /\ Step(c) = Program[job[c].op][job[c].at]
  BY <1>1, ThisStep
<1>3. job[c].at < Len(Program[job[c].op]) /\ Program[job[c].op][job[c].at + 1] = "removeTree"
  BY <1>1, <1>2 DEF StepShape
<1>4. Proceed(c, job[c])
  BY DEF Trash, Answer
<1>5. job'[c] = [job[c] EXCEPT !.at = job[c].at + 1] /\ job'[c] \in Job
  BY <1>1, <1>2, <1>3, <1>4 DEF Proceed, IInv, CallersOK, Job
<1>6. job'[c] # None
  BY <1>5, NoneAssumption
<1>7. Advances(c)
  BY <1>1, <1>4, <1>6, ProceedOn DEF Returns, IInv
<1>8. Step(c)' = "removeTree"
  BY <1>1, <1>3, <1>7, NextStep
<1> QED
  BY <1>6, <1>7, <1>8 DEF At, Advances

\* While its removal from the cache is due the link stays the exception, and
\* afterwards the client does not have it.
LEMMA RemovalPending ==
    ASSUME IInv, IInv', NEW c \in Callers, Callers = {c}, [Next]_vars, Prepared(c),
           At(c, "removeTree"), NEW x \in Snapshot, x.id = job[c].l, Has(c, x)'
    PROVE  At(c, "removeTree")' /\ x.id = job'[c].l
<1>1. job[c] # None /\ Step(c) = "removeTree"
  BY DEF At
<1>2. CASE job'[c] = None
  <2>1. /\ Returns(c)
        /\ cache' = IF EnableCaching THEN Remove(cache, job[c].l, TRUE) ELSE cache
    BY <1>2, RemovesTree
  <2>2. CacheHas(x)'
    BY <2>1 DEF Has, Returns, NoCall, JobHas, CallHas
  <2>3. x.id \in Cached(cache')
    BY <2>2 DEF CacheHas, IInv, TableOK, EntryOK
  <2>4. job[c].l \notin Cached(cache')
    <3>1. CASE EnableCaching
      <4>1. job[c].l \notin Cached(Remove(cache, job[c].l, TRUE))
        BY CachedAfterRemove
      <4> QED
        BY <4>1, <3>1, <2>1
    <3>2. CASE ~EnableCaching
      BY <3>2, <2>1 DEF Prepared, CacheOff
    <3> QED
      BY <3>1, <3>2
  <2> QED
    BY <2>3, <2>4
<1>3. CASE job'[c] # None
  <2>1. ~Continue(c)
    <3>1. SUFFICES ASSUME Continue(c)
                   PROVE  FALSE
      OBVIOUS
    <3>2. Advances(c)
      BY <1>1, <1>3, <3>1, ContinueCases, LookupOutcome, WorkOutcome
         DEF Returns, LinkSteps, KeyringSteps
    <3>3. /\ StepShape(job[c].op, job[c].at) /\ Len(Program[job[c].op]) \in Nat
          /\ Step(c) = Program[job[c].op][job[c].at]
      BY <1>1, ThisStep
    <3>4. job[c].at = Len(Program[job[c].op])
      BY <1>1, <3>3 DEF StepShape
    <3>5. job[c].at + 1 \in 1..Len(Program[job[c].op])
      BY <1>1, <3>2, NextStep
    <3> QED
      BY <3>3, <3>4, <3>5
  <2>2. job' = job
    BY <1>1, <2>1 DEF Next, Begin, OtherClient, Restart, vars
  <2> QED
    BY <1>1, <2>2 DEF At, Step
<1> QED
  BY <1>2, <1>3

\* The operations on the whole drive leave the client without links.
LEMMA ClearedKnowsNothing ==
    ASSUME IInv, NEW c \in Callers, Prepared(c), Work(c), Step(c) \in AfterClear,
           NEW x \in Snapshot
    PROVE  ~Has(c, x)'
<1>1. job[c] # None /\ (Returns(c) \/ Advances(c)) /\ (Step(c) \notin Removals => cache' = cache)
  BY WorkOutcome
<1>2. StepShape(job[c].op, job[c].at) /\ Step(c) = Program[job[c].op][job[c].at]
  BY <1>1, ThisStep
<1>3. job[c].op \in Global /\ job[c].at > 1
  BY <1>2 DEF StepShape
<1>4. job[c].src = None /\ job[c].dst = None /\ Cached(cache') = {}
  BY <1>1, <1>3 DEF Prepared, ClearReady, AfterClear, Removals
<1>5. x # None /\ ~CacheHas(x)'
  BY <1>4, SnapshotIsLink DEF CacheHas
<1>6. CASE Returns(c)
  BY <1>5, <1>6 DEF Returns, Has, NoCall, JobHas, CallHas
<1>7. CASE Advances(c)
  <2>1. job'[c].src = None /\ job'[c].dst = None
    BY <1>4, <1>7 DEF Advances, AfterClear
  <2>2. ~CallHas(call'[c], x)
    BY <1>5, <1>7, <2>1, EnterHas DEF Advances
  <2> QED
    BY <1>5, <2>1, <2>2 DEF Has, JobHas
<1> QED
  BY <1>1, <1>6, <1>7

\* Nor does a link's state change behind the back of one undisturbed caller, but
\* by the request that is followed by its removal.
LEMMA StatesKnownOK ==
    ASSUME IInv, IInv', NEW c \in Callers, Callers = {c}, [Next]_vars, Undisturbed,
           LostReplies = FALSE, Ops \cap ByLink = {}, Prepared(c), ParentsKnown(c), StatesKnown(c)
    PROVE  StatesKnown(c)'
<1>1. SUFFICES ASSUME NEW x \in Snapshot, Has(c, x)'
               PROVE  \/ x.state = server'[x.id].state
                      \/ At(c, "removeTree")' /\ x.id = job'[c].l
  BY DEF StatesKnown
<1>2. x.id \in Links /\ ServerOK
  BY SnapshotIsLink DEF IInv
<1>3. /\ server[x.id].state # "absent"
      /\ x.state = server[x.id].state \/ (At(c, "removeTree") /\ x.id = job[c].l)
  <2>1. Has(c, x) \/ Served(x)
    BY <1>1, Provenance
  <2>2. CASE Served(x)
    BY <2>2, <1>2 DEF Served, Reachable, ServerOK
  <2> QED
    BY <2>1, <2>2 DEF ParentsKnown, StatesKnown
<1>4. CASE At(c, "removeTree") /\ x.id = job[c].l
  BY <1>1, <1>4, RemovalPending
<1>5. CASE x.state = server[x.id].state
  <2>1. ~(Create(c) /\ server[x.id].state = "absent")
    BY <1>3
  <2>2. CASE Trash(c) /\ x.id = job[c].l
    BY <2>2, TrashGoesOn
  <2>3. ~(Work(c) /\ Step(c) \in AfterClear)
    BY <1>1, ClearedKnowsNothing
  <2> QED
    BY <1>2, <1>5, <2>1, <2>2, <2>3, StateSteps
<1> QED
  BY <1>3, <1>4, <1>5

AllStatesKnown == \A c \in Callers : StatesKnown(c)

\* Whenever the one caller is between two operations, the cached tree is the
\* server's: no other client moves or trashes links, every answer arrives.
THEOREM CacheCoherent ==
    ASSUME OneCaller, Undisturbed, LostReplies = FALSE, Ops \cap ByLink = {}
    PROVE  Spec => []TreeCoherent
<1>1. "move" \notin OthersMay
  BY DEF Undisturbed
<1>2. Init => TreeKnown /\ AllStatesKnown
  BY <1>1, TreeKnownOK, NothingKnown DEF AllStatesKnown, StatesKnown
<1>3. TreeKnown /\ AllStatesKnown /\ [Next]_vars => (TreeKnown /\ AllStatesKnown)'
  <2> SUFFICES ASSUME TreeKnown, AllStatesKnown, [Next]_vars
               PROVE  TreeKnown' /\ AllStatesKnown'
    OBVIOUS
  <2>1. TreeKnown'
    BY <1>1, TreeKnownOK
  <2>2. PICK c \in Callers : Callers = {c}
    BY DEF OneCaller
  <2>3. IInv /\ IInv' /\ Prepared(c) /\ ParentsKnown(c) /\ StatesKnown(c)
    BY <2>1 DEF TreeKnown, AllPrepared, AllParentsKnown, AllStatesKnown
  <2>4. StatesKnown(c)'
    BY <2>2, <2>3, StatesKnownOK
  <2> QED
    BY <2>1, <2>2, <2>4 DEF AllStatesKnown
<1>4. TreeKnown /\ AllStatesKnown => TreeCoherent
  <2> SUFFICES ASSUME TreeKnown, AllStatesKnown, Idle, NEW l \in Cached(cache)
               PROVE  /\ cache.data[l].link.parent = server[l].parent
                      /\ cache.data[l].link.state = server[l].state
    BY DEF TreeCoherent
  <2> DEFINE x == cache.data[l].link
  <2>1. x \in Snapshot /\ x.id = l
    BY DEF TreeKnown, IInv, TableOK, EntryOK
  <2>2. PICK c \in Callers : Callers = {c}
    BY DEF OneCaller
  <2>3. Has(c, x) /\ ~At(c, "removeTree")
    BY <2>2 DEF Has, CacheHas, Idle, At
  <2> QED
    BY <2>1, <2>2, <2>3 DEF TreeKnown, AllParentsKnown, AllStatesKnown, ParentsKnown, StatesKnown
<1> QED
  BY <1>2, <1>3, <1>4, PTL DEF Spec
=============================================================================
