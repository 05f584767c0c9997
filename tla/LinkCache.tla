----------------------------- MODULE LinkCache -----------------------------
(***************************************************************************)
(* The client-side cache of links and node keyrings (cache.go), the public *)
(* operations of ProtonDrive that read and invalidate it, and the server   *)
(* whose links it caches.                                                  *)
(*                                                                         *)
(* Several callers (goroutines of the program that embeds the bridge) run  *)
(* operations on one ProtonDrive.  A cache access holds the RWMutex and is *)
(* one step; a request to the server is one step, taken when the server    *)
(* answers it; nothing holds the lock from one step to the next.           *)
(*                                                                         *)
(* An operation is the list of cache and server steps its Go function      *)
(* makes, in order.  Any step that fails ends it, as every `return err`    *)
(* does.  getLink, getLinkKR and getLinkKRByID are the shared machine that *)
(* the lookup steps run.                                                   *)
(***************************************************************************)
EXTENDS LinkTable, Naturals, Sequences, FiniteSets

CONSTANTS
    Callers,        \* goroutines that call the bridge
    Root,           \* MainShare.LinkID
    Folders,        \* the links of folder type; the others are files
    InitParent,     \* parent of each link at the start, NoLink if not created yet
    Ops,            \* the operations this instance lets callers run
    EnableCaching,  \* Config.EnableCaching
    LostReplies,    \* may a request take effect and still report an error?
    OthersMay,      \* what other clients of the account do: "move", "trash", "touch"
    MaxChanges,     \* bound: changes of server state in a behaviour
    MaxDepth        \* bound: nested getLinkKR calls before the stack is exhausted

ASSUME ConstantsAssumption ==
    /\ NoLink \notin Links
    /\ Root \in Folders /\ Folders \subseteq Links
    /\ InitParent \in [Links -> Links \cup {NoLink}] /\ InitParent[Root] = NoLink
    /\ OthersMay \subseteq {"move", "trash", "touch"}
    /\ EnableCaching \in BOOLEAN /\ LostReplies \in BOOLEAN
    /\ MaxChanges \in Nat /\ MaxDepth \in Nat

\* The links that exist at the start hang from the root: the parent of each is
\* there, and no set of links has all its parents inside.
ASSUME TreeAssumption ==
    /\ \A l \in Links : InitParent[l] \in Links \ {Root} => InitParent[InitParent[l]] # NoLink
    /\ \A S \in SUBSET Links : S # {} => \E l \in S : InitParent[l] \notin S

VARIABLES
    server,   \* the link each ID has on the server
    changes,  \* changes of server state so far
    cache,    \* protonDrive.cache
    process,  \* "running", or how the process died
    job,      \* per caller: the operation it is inside of, or None
    call,     \* per caller: where it is in getLink / getLinkKR / getLinkKRByID
    held      \* per caller: the last *proton.Link that GetLink returned to it

vars == <<server, changes, cache, process, job, call, held>>

-----------------------------------------------------------------------------
(* Types *)

\* What the properties tell apart of a proton.Link.  encTo is the node whose
\* key the node passphrase is encrypted to (NoLink: the share's key) and ver
\* counts the changes the server has made to the link.
Link == [id : Links, parent : Parents, encTo : Parents,
         state : {"absent", "active", "trashed", "deleted"}, ver : Nat]

\* The keyring of node l is l; the share's keyring is NoLink.
Keyring == Parents

Entry == [link : Link, kr : Keyring \cup {None}]

Table == [data     : [Links -> Entry \cup {None}],
          children : [Parents -> SUBSET Links]]

-----------------------------------------------------------------------------
(* The operations, as the lists of their steps *)

GetLink              == <<"getSrc">>
GetActiveRevisionAttrs == <<"krSrc">>
GetActiveRevisionAttrsByID == <<"getSrc", "krSrc">>
DownloadFileByID     == <<"remove", "getSrc", "srcIsFile", "krSrcParent", "query", "krSrc">>
ListDirectory        == <<"getSrc", "srcActive", "query", "krSrcParent">>
SearchByNameInActiveFolderByID ==
                        <<"getSrc", "srcIsFolder", "srcActive", "krSrcParent", "query">>
CreateNewFolderByID  == <<"remove", "getSrc", "krSrc", "createFolder">>
\* (Variants named *_Mutant are the definition below them with a defect; the
\* specification does not use them.)
MoveByID_Mutant      == <<"remove", "getSrc", "srcActive", "getDst", "dstActive",
                          "krDst", "krSrcParent", "move">>
MoveByID             == <<"remove", "getSrc", "srcActive", "getDst", "dstActive",
                          "krDst", "krSrcParent", "remove", "move">>
MoveFileToTrashByID  == <<"remove", "getSrc", "srcIsFile", "trash", "removeTree">>
MoveFolderToTrashByID == <<"remove", "getSrc", "srcIsFolder", "query", "trash", "removeTree">>
\* onlyOnEmpty
MoveEmptyFolderToTrashByID ==
                        <<"remove", "getSrc", "srcIsFolder", "isEmpty", "trash", "removeTree">>
UploadNewFile        == <<"getSrc", "krSrc", "createFile">>
UploadNewRevision    == <<"getSrc", "krSrc", "srcIsFolder", "srcActive", "krSrcParent",
                          "findDst", "krDstParent", "commit">>
EmptyTrash           == <<"clear", "emptyTrash">>
EmptyRootFolder      == <<"clear", "listRoot", "trashListed", "deleteListed">>
ClearCache           == <<"clear">>

Program ==
    [GetLink                        |-> GetLink,
     GetActiveRevisionAttrs         |-> GetActiveRevisionAttrs,
     GetActiveRevisionAttrsByID     |-> GetActiveRevisionAttrsByID,
     DownloadFileByID               |-> DownloadFileByID,
     ListDirectory                  |-> ListDirectory,
     SearchByNameInActiveFolderByID |-> SearchByNameInActiveFolderByID,
     CreateNewFolderByID            |-> CreateNewFolderByID,
     MoveByID                       |-> MoveByID,
     MoveFileToTrashByID            |-> MoveFileToTrashByID,
     MoveFolderToTrashByID          |-> MoveFolderToTrashByID,
     MoveEmptyFolderToTrashByID     |-> MoveEmptyFolderToTrashByID,
     UploadNewFile                  |-> UploadNewFile,
     UploadNewRevision              |-> UploadNewRevision,
     EmptyTrash                     |-> EmptyTrash,
     EmptyRootFolder                |-> EmptyRootFolder,
     ClearCache                     |-> ClearCache]

\* Operations on the whole drive: no link is named by the caller.
Global == {"EmptyTrash", "EmptyRootFolder", "ClearCache"}

\* Operations whose argument is a *proton.Link the caller already holds.
ByLink == {"GetActiveRevisionAttrs"}

Job == [op : Ops, at : Nat, l : Links, d : Links, src : Link \cup {None},
        dst : Link \cup {None}, kr : Keyring \cup {None},
        listed : SUBSET Link, floor : Nat]

Call == [at : {"none", "get", "fetch", "insert", "kr", "plant", "krById", "unwind"},
         id : Parents, link : Link \cup {None}, wants : {"link", "kr"},
         climb : Seq(Link), kr : Keyring \cup {None}]

NoCall == [at |-> "none", id |-> NoLink, link |-> None, wants |-> "link",
           climb |-> <<>>, kr |-> None]

ASSUME OpsAssumption == Ops \subseteq DOMAIN Program

\* Go's nil is no link ID, link, entry or operation.
ASSUME NoneAssumption ==
    None \notin Parents /\ None \notin Link /\ None \notin Entry /\ None \notin Job

Step(c) == Program[job[c].op][job[c].at]

At(c, step) == job[c] # None /\ Step(c) = step

TypeOK ==
    /\ server \in [Links -> Link] /\ \A l \in Links : server[l].id = l
    /\ changes \in Nat
    /\ cache \in Table /\ \A l \in Cached(cache) : cache.data[l].link.id = l
    /\ process \in {"running", "fatal", "overflow"}
    /\ job \in [Callers -> Job \cup {None}]
    /\ call \in [Callers -> Call]
    /\ held \in [Callers -> Link \cup {None}]

-----------------------------------------------------------------------------
(* Control shared by all operations *)

\* The lookup that a step begins with, if it is one.
Enter(op, at, l, d, src, dst) ==
    LET step == Program[op][at]
        get(id)     == [NoCall EXCEPT !.at = "get", !.id = id]
        keyring(lk) == [NoCall EXCEPT !.at = "kr", !.link = lk, !.wants = "kr"]
        keyringByID(id) == [NoCall EXCEPT !.at = "krById", !.id = id, !.wants = "kr"]
    IN  CASE step = "getSrc"      -> get(l)
          [] step = "getDst"      -> get(d)
          [] step = "krSrc"       -> keyring(src)
          [] step = "krDst"       -> keyring(dst)
          [] step = "krSrcParent" -> keyringByID(src.parent)
          [] step = "krDstParent" -> keyringByID(dst.parent)
          [] OTHER                -> NoCall

\* The operation returns to its caller.
Return(c) ==
    /\ job'  = [job EXCEPT ![c] = None]
    /\ call' = [call EXCEPT ![c] = NoCall]

\* The step of caller c is done, leaving its operation as j.
Proceed(c, j) ==
    IF j.at < Len(Program[j.op])
    THEN /\ job'  = [job EXCEPT ![c] = [j EXCEPT !.at = j.at + 1]]
         /\ call' = [call EXCEPT ![c] = Enter(j.op, j.at + 1, j.l, j.d, j.src, j.dst)]
    ELSE Return(c)

\* The process dies, and with it the cache and every call in progress.
Die(how) ==
    /\ process' = how
    /\ cache' = EmptyTable
    /\ job'  = [c \in Callers |-> None]
    /\ call' = [c \in Callers |-> NoCall]
    /\ held' = [c \in Callers |-> None]

\* An operation as its caller starts it.
Started(c, op, l, d) ==
    [op |-> op, at |-> 1, l |-> l, d |-> d,
     src |-> IF op \in ByLink THEN held[c] ELSE None, dst |-> None,
     kr |-> None, listed |-> {}, floor |-> server[l].ver]

Begin(c) ==
    /\ process = "running" /\ job[c] = None
    /\ \E op \in Ops, l \in Links, d \in Links :
         /\ op \in Global => l = Root
         /\ op # "MoveByID" => d = Root
         /\ op = "MoveByID" => l # d /\ l # Root
         /\ op \in {"MoveFileToTrashByID", "MoveFolderToTrashByID",
                   "MoveEmptyFolderToTrashByID"} => l # Root
         /\ op \in ByLink => held[c] # None /\ l = held[c].id
         /\ LET j == Started(c, op, l, d)
            IN  /\ job'  = [job EXCEPT ![c] = j]
                /\ call' = [call EXCEPT ![c] = Enter(j.op, j.at, j.l, j.d, j.src, j.dst)]
    /\ UNCHANGED <<server, changes, cache, process, held>>

\* A request fails: a network or server error, or a cancelled context.
RequestFails(c) ==
    /\ \/ call[c].at = "fetch"
       \/ \E s \in {"query", "isEmpty", "createFolder", "createFile", "move", "trash",
                    "findDst", "commit", "emptyTrash", "listRoot", "trashListed", "deleteListed"} :
              At(c, s)
    /\ Return(c)
    /\ UNCHANGED <<server, changes, cache, process, held>>

\* The checks an operation makes of the links it has fetched.
CheckLink(c) ==
    /\ \E s \in {"srcIsFile", "srcIsFolder", "srcActive", "dstActive"} : At(c, s)
    /\ IF \/ At(c, "srcIsFile")   /\ job[c].src.id \notin Folders
          \/ At(c, "srcIsFolder") /\ job[c].src.id \in Folders
          \/ At(c, "srcActive")   /\ job[c].src.state = "active"
          \/ At(c, "dstActive")   /\ job[c].dst.state = "active"
       THEN Proceed(c, job[c])
       ELSE Return(c)
    /\ UNCHANGED <<server, changes, cache, process, held>>

Read(c) ==
    /\ At(c, "query")
    /\ Proceed(c, job[c])
    /\ UNCHANGED <<server, changes, cache, process, held>>

ActiveChildren(l) == {k \in Links : server[k].parent = l /\ server[k].state = "active"}

\* ErrFolderIsNotEmpty, unless ListChildren has no active link.
ListEmpty(c) ==
    /\ At(c, "isEmpty")
    /\ IF ActiveChildren(job[c].l) = {} THEN Proceed(c, job[c]) ELSE Return(c)
    /\ UNCHANGED <<server, changes, cache, process, held>>

-----------------------------------------------------------------------------
(* getLink *)

\* getLink has its link: the operation keeps it, or the lookup of a keyring by
\* ID goes on to getLinkKR with it.
DeliverLink(c, link) ==
    IF call[c].wants = "kr"
    THEN /\ call' = [call EXCEPT ![c] = [@ EXCEPT !.at = "kr", !.link = link]]
         /\ UNCHANGED <<job, held>>
    ELSE /\ Proceed(c, IF Step(c) = "getSrc" THEN [job[c] EXCEPT !.src = link]
                                             ELSE [job[c] EXCEPT !.dst = link])
         /\ held' = IF job[c].op = "GetLink" THEN [held EXCEPT ![c] = link] ELSE held

\* cache._get finds the link
Hit(id) == EnableCaching /\ id \in Cached(cache)

CacheLookup(c) ==
    /\ call[c].at = "get"
    /\ IF Hit(call[c].id)
       THEN DeliverLink(c, cache.data[call[c].id].link)
       ELSE /\ call' = [call EXCEPT ![c].at = "fetch"]
            /\ UNCHANGED <<job, held>>
    /\ UNCHANGED <<server, changes, cache, process>>

\* The server answers GetLink; the answer is inserted by a later step.
Fetch(c) ==
    /\ call[c].at = "fetch"
    /\ server[call[c].id].state \in {"active", "trashed"}
    /\ call' = [call EXCEPT ![c] = [@ EXCEPT !.at = "insert", !.link = server[call[c].id]]]
    /\ UNCHANGED <<server, changes, cache, process, job, held>>

\* cache._insert
Inserted(link) == IF EnableCaching THEN Insert(cache, link) ELSE cache

InsertFetched(c) ==
    /\ call[c].at = "insert"
    /\ cache' = Inserted(call[c].link)
    /\ DeliverLink(c, call[c].link)
    /\ UNCHANGED <<server, changes, process>>

-----------------------------------------------------------------------------
(* getLinkKR, getLinkKRByID and the non-caching _getLinkKR, _getLinkKRByID *)

\* The nodes between the one whose keyring is wanted and the one being looked
\* up; the last of them is the next to be decrypted.
Innermost_Mutant(c) == call[c].climb[1]

Innermost(c) == call[c].climb[Len(call[c].climb)]

\* The keyring of the link itself in place of its parent's.
ClimbSelf_Mutant(c, link) ==
    IF Len(call[c].climb) < MaxDepth
    THEN /\ call' = [call EXCEPT ![c] = [@ EXCEPT
                        !.at = "krById", !.id = link.id, !.link = None,
                        !.climb = Append(call[c].climb, link)]]
         /\ UNCHANGED <<cache, process, job, held>>
    ELSE Die("overflow")

\* The parent of the link that was passed in, the passphrase of the cached one.
Climb_Mutant(c, link) ==
    IF Len(call[c].climb) < MaxDepth
    THEN /\ call' = [call EXCEPT ![c] = [@ EXCEPT
                        !.at = "krById", !.id = call[c].link.parent, !.link = None,
                        !.climb = Append(call[c].climb, link)]]
         /\ UNCHANGED <<cache, process, job, held>>
    ELSE Die("overflow")

\* getLinkKR of the link decrypts that link, or the entry cached for it, after
\* the keyring of the parent the same snapshot names.
Climb(c, link) ==
    IF Len(call[c].climb) < MaxDepth
    THEN /\ call' = [call EXCEPT ![c] = [@ EXCEPT
                        !.at = "krById", !.id = link.parent, !.link = None,
                        !.climb = Append(call[c].climb, link)]]
         /\ UNCHANGED <<cache, process, job, held>>
    ELSE Die("overflow")

\* Without the branch for a drive that does not cache.
LookupKeyring_Mutant(c) ==
    /\ call[c].at = "kr"
    /\ LET link == call[c].link
       IN  IF Hit(link.id) THEN Climb(c, cache.data[link.id].link)
           ELSE /\ call' = [call EXCEPT ![c].at = "plant"]
                /\ UNCHANGED <<cache, process, job, held>>
    /\ UNCHANGED <<server, changes>>

LookupKeyring(c) ==
    /\ call[c].at = "kr"
    /\ LET link == call[c].link
       IN  IF ~EnableCaching THEN Climb(c, link)
           ELSE IF ~Hit(link.id)
           THEN /\ call' = [call EXCEPT ![c].at = "plant"]
                /\ UNCHANGED <<cache, process, job, held>>
           ELSE IF cache.data[link.id].kr = None THEN Climb(c, cache.data[link.id].link)
           ELSE /\ call' = [call EXCEPT ![c] = [@ EXCEPT !.at = "unwind", !.link = None,
                                                         !.kr = cache.data[link.id].kr]]
                /\ UNCHANGED <<cache, process, job, held>>
    /\ UNCHANGED <<server, changes>>

\* getLinkKR caches the link it was handed, however old, and starts again.
Plant(c) ==
    /\ call[c].at = "plant"
    /\ cache' = Inserted(call[c].link)
    /\ call' = [call EXCEPT ![c].at = "kr"]
    /\ UNCHANGED <<server, changes, process, job, held>>

LookupKeyringByID(c) ==
    /\ call[c].at = "krById"
    /\ LET id == call[c].id
       IN  call' = [call EXCEPT ![c] =
             IF id = NoLink THEN [@ EXCEPT !.at = "unwind", !.kr = NoLink]
             ELSE IF Hit(id) THEN [@ EXCEPT !.at = "kr", !.link = cache.data[id].link]
             ELSE [@ EXCEPT !.at = "get"]]
    /\ UNCHANGED <<server, changes, cache, process, job, held>>

\* link.GetKeyRing(parentKR): succeeds with the key the passphrase is for.  The
\* result goes to `data.kr` of the entry getLinkKR looked at.  The write holds no
\* lock: with other callers about, that entry may have been replaced by an equal
\* one, or the write not be seen yet.
Decrypt(c) ==
    /\ call[c].at = "unwind" /\ call[c].climb # <<>>
    /\ LET link == Innermost(c)
       IN  IF call[c].kr = link.encTo
           THEN /\ call' = [call EXCEPT ![c] = [@ EXCEPT !.kr = link.id,
                               !.climb = SubSeq(call[c].climb, 1, Len(call[c].climb) - 1)]]
                /\ IF Hit(link.id) /\ cache.data[link.id].link = link
                   THEN \/ cache' = SetKeyring(cache, link.id, link.id)
                        \/ Callers # {c} /\ UNCHANGED cache
                   ELSE UNCHANGED cache
                /\ UNCHANGED job
           ELSE Return(c) /\ UNCHANGED cache
    /\ UNCHANGED <<server, changes, process, held>>

\* The keyring reaches the operation.  One asked for a link's parent decrypts
\* that link with it (or re-encrypts its passphrase) before anything else.
DeliverKeyring(c) ==
    /\ call[c].at = "unwind" /\ call[c].climb = <<>>
    /\ LET kr   == call[c].kr
           step == Step(c)
       IN  IF \/ step = "krSrcParent" /\ kr # job[c].src.encTo
              \/ step = "krDstParent" /\ kr # job[c].dst.encTo
           THEN Return(c)
           ELSE Proceed(c, IF step \in {"krSrc", "krDst"} THEN [job[c] EXCEPT !.kr = kr]
                                                          ELSE job[c])
    /\ UNCHANGED <<server, changes, cache, process, held>>

-----------------------------------------------------------------------------
(* Invalidation *)

\* The enableCaching check the wrong way round.
RemoveLink_Mutant(c, l, includingChildren) ==
    IF EnableCaching
    THEN Proceed(c, job[c]) /\ UNCHANGED <<cache, process, held>>
    ELSE cache' = Remove(cache, l, includingChildren) /\ Proceed(c, job[c])
         /\ UNCHANGED <<process, held>>

\* removeLinkIDFromCache: the process ends if the table contradicts itself.
RemoveLink(c, l, includingChildren) ==
    IF EnableCaching /\ RemoveIsFatal(cache, l, includingChildren)
    THEN Die("fatal")
    ELSE /\ cache' = IF EnableCaching THEN Remove(cache, l, includingChildren) ELSE cache
         /\ Proceed(c, job[c])
         /\ UNCHANGED <<process, held>>

Invalidate(c) ==
    /\ \/ At(c, "remove")     /\ RemoveLink(c, job[c].l, FALSE)
       \/ At(c, "removeTree") /\ RemoveLink(c, job[c].l, TRUE)
    /\ UNCHANGED <<server, changes>>

Clear(c) ==
    /\ At(c, "clear")
    /\ cache' = IF EnableCaching THEN EmptyTable ELSE cache
    /\ Proceed(c, job[c])
    /\ UNCHANGED <<server, changes, process, held>>

-----------------------------------------------------------------------------
(* The server *)

Reachable(l) == server[l].state \in {"active", "trashed"}

\* l and the links below it
Subtree(l) ==
    {k \in Links : \A S \in SUBSET Links :
        l \in S /\ (\A x \in Links : server[x].parent \in S => x \in S) => k \in S}

MayMove(l, p) ==
    /\ l # Root /\ server[l].state = "active"
    /\ p \in Folders /\ server[p].state = "active" /\ p \notin Subtree(l)

Moved(l, p, key) ==
    [server EXCEPT ![l] = [@ EXCEPT !.parent = p, !.encTo = key, !.ver = server[l].ver + 1]]

Trashed(S) ==
    [l \in Links |-> IF l \in S THEN [server[l] EXCEPT !.state = "trashed", !.ver = @ + 1]
                                ELSE server[l]]

Deleted(S) ==
    LET gone == UNION {Subtree(l) : l \in S}
    IN  [l \in Links |-> IF l \in gone THEN [server[l] EXCEPT !.state = "deleted"]
                                       ELSE server[l]]

Touched(l) == [server EXCEPT ![l].ver = @ + 1]

Created(l, p, key) ==
    [server EXCEPT ![l] = [@ EXCEPT !.parent = p, !.encTo = key, !.state = "active",
                                    !.ver = server[l].ver + 1]]

\* The server carries out a request of caller c and becomes s; the answer may
\* be lost, and the operation then ends like one that failed.
Answer(c, s) ==
    /\ changes < MaxChanges
    /\ server' = s /\ changes' = changes + 1
    /\ \/ Proceed(c, job[c])
       \/ LostReplies /\ Return(c)
    /\ UNCHANGED <<cache, process, held>>

\* The passphrase re-encrypted to the parent it already had.
Move_Mutant(c) ==
    /\ At(c, "move")
    /\ MayMove(job[c].l, job[c].dst.id)
    /\ Answer(c, Moved(job[c].l, job[c].dst.id, job[c].src.parent))

Move(c) ==
    /\ At(c, "move")
    /\ MayMove(job[c].l, job[c].dst.id)
    /\ Answer(c, Moved(job[c].l, job[c].dst.id, job[c].kr))

Trash(c) ==
    /\ At(c, "trash")
    /\ LET l == job[c].l
       IN  /\ server[l].state = "active" /\ server[l].parent = job[c].src.parent
           /\ Answer(c, Trashed({l}))

Create(c) ==
    /\ \E l \in Links :
         /\ server[l].state = "absent"
         /\ \/ At(c, "createFolder") /\ l \in Folders
            \/ At(c, "createFile")   /\ l \notin Folders
         /\ job[c].src.id \in Folders /\ server[job[c].src.id].state = "active"
         /\ Answer(c, Created(l, job[c].src.id, job[c].kr))

\* SearchByNameInActiveFolder returns the file of that name.
FindDst(c) ==
    /\ At(c, "findDst")
    /\ \E l \in Links \ Folders :
         /\ server[l].state = "active" /\ server[l].parent = job[c].src.id
         /\ Proceed(c, [job[c] EXCEPT !.dst = server[l]])
    /\ UNCHANGED <<server, changes, cache, process, held>>

Commit(c) ==
    /\ At(c, "commit")
    /\ Reachable(job[c].dst.id)
    /\ Answer(c, Touched(job[c].dst.id))

EmptyTrashOnServer(c) ==
    /\ At(c, "emptyTrash")
    /\ Answer(c, Deleted({l \in Links : server[l].state = "trashed"}))

ListRoot(c) ==
    /\ At(c, "listRoot")
    /\ Proceed(c, [job[c] EXCEPT !.listed =
                     {server[l] : l \in {k \in Links : server[k].parent = Root /\ Reachable(k)}}])
    /\ UNCHANGED <<server, changes, cache, process, held>>

Listed(c, state) == {s.id : s \in {t \in job[c].listed : t.state = state}}

TrashListed(c) ==
    /\ At(c, "trashListed")
    /\ Answer(c, Trashed({l \in Listed(c, "active") :
                            server[l].state = "active" /\ server[l].parent = Root}))

DeleteListed(c) ==
    /\ At(c, "deleteListed")
    /\ Answer(c, Deleted({l \in Listed(c, "trashed") :
                            server[l].state = "trashed" /\ server[l].parent = Root}))

\* Other clients of the same account change links behind the cache's back.
OtherClient ==
    /\ changes < MaxChanges
    /\ changes' = changes + 1
    /\ \E l \in Links :
         \/ /\ "move" \in OthersMay
            /\ \E p \in Links : MayMove(l, p) /\ server' = Moved(l, p, p)
         \/ /\ "trash" \in OthersMay
            /\ l # Root /\ server[l].state = "active" /\ server' = Trashed({l})
         \/ /\ "touch" \in OthersMay
            /\ server[l].state = "active" /\ server' = Touched(l)
    /\ UNCHANGED <<cache, process, job, call, held>>

-----------------------------------------------------------------------------
(* The system *)

Init ==
    /\ server = [l \in Links |->
                   [id |-> l, parent |-> InitParent[l], encTo |-> InitParent[l],
                    state |-> IF l = Root \/ InitParent[l] # NoLink THEN "active" ELSE "absent",
                    ver |-> 0]]
    /\ changes = 0
    /\ cache = EmptyTable                                          \* newCache
    /\ process = "running"
    /\ job = [c \in Callers |-> None]
    /\ call = [c \in Callers |-> NoCall]
    /\ held = [c \in Callers |-> None]

\* The program that embeds the bridge is started again, with a new ProtonDrive.
Restart ==
    /\ process = "overflow"
    /\ process' = "running"
    /\ UNCHANGED <<server, changes, cache, job, call, held>>

Lookup(c) ==
    \/ CacheLookup(c) \/ Fetch(c) \/ InsertFetched(c)
    \/ LookupKeyring(c) \/ Plant(c) \/ LookupKeyringByID(c) \/ Decrypt(c) \/ DeliverKeyring(c)

Request(c) ==
    \/ Move(c) \/ Trash(c) \/ Create(c) \/ FindDst(c) \/ Commit(c) \/ Read(c) \/ ListEmpty(c)
    \/ EmptyTrashOnServer(c) \/ ListRoot(c) \/ TrashListed(c) \/ DeleteListed(c)

\* A caller inside an operation takes its next step.
Continue(c) ==
    \/ Lookup(c) \/ Request(c) \/ RequestFails(c) \/ CheckLink(c) \/ Invalidate(c) \/ Clear(c)

Next ==
    \/ \E c \in Callers : Begin(c) \/ Continue(c)
    \/ OtherClient
    \/ Restart

Spec == Init /\ [][Next]_vars

\* An operation is ordinary code: its goroutine is scheduled and every request
\* is answered or fails (the HTTP client's and the context's limits).
FairSpec == Spec /\ \A c \in Callers : WF_vars(Continue(c))

-----------------------------------------------------------------------------
(* Properties *)

Idle == \A c \in Callers : job[c] = None

\* Neither log.Fatalln of _remove_nolock is reached: the two maps never
\* contradict each other, in whatever order callers insert and remove.
NeverFatal == process # "fatal"

\* The recursion getLinkKR -> getLinkKRByID -> getLinkKR ends before the stack
\* is exhausted: the cached parents never form a loop.
NeverOverflows == process # "overflow"

\* No lookup mixes snapshots: a cached keyring is its own link's, and every link
\* is decrypted with the key its passphrase is encrypted to, however the tree
\* moved while the lookup climbed it.
KeyringSound ==
    /\ \A l \in Cached(cache) : cache.data[l].kr \in {None, l}
    /\ \A c \in Callers : call[c].at = "unwind" =>
         IF call[c].climb # <<>> THEN call[c].kr = Innermost(c).encTo
         ELSE /\ At(c, "krSrcParent") => call[c].kr = job[c].src.encTo
              /\ At(c, "krDstParent") => call[c].kr = job[c].dst.encTo
              /\ At(c, "krSrc") => call[c].kr = job[c].src.id
              /\ At(c, "krDst") => call[c].kr = job[c].dst.id

\* No move or creation leaves a link on the server that its parent's key cannot
\* open: a passphrase re-encrypted to the wrong node is lost for good.
ServerDecryptable == \A l \in Links : server[l].encTo = server[l].parent

\* With one caller and no one else changing the account, the cached tree is the
\* server's whenever no operation is running: every operation that changes a
\* link's parent or state invalidates it.
TreeCoherent ==
    Idle => \A l \in Cached(cache) :
                /\ cache.data[l].link.parent = server[l].parent
                /\ cache.data[l].link.state = server[l].state

\* l and every cached link from which cached parents lead to l
CachedBelow(t, l) ==
    {k \in Cached(t) : \A S \in SUBSET Links :
        l \in S /\ (\A x \in Cached(t) : ParentOf(t, x) \in S => x \in S) => k \in S}

\* moveToTrash takes the whole cached subtree of the link it trashed out of the
\* cache, at any depth, although it follows registrations and not parents.  (A
\* link is below another here if every link between is cached; past one that was
\* evicted by itself, the removal does not reach.)
TrashFlushes ==
    [][\A c \in Callers : At(c, "removeTree") /\ job'[c] = None /\ process' = "running" =>
          CachedBelow(cache, job[c].l) \cap Cached(cache') = {}]_vars

\* The source link an operation acts on is at least as new as the operation.
ActsOnLatest(c) == job[c].src # None => job[c].src.ver >= job[c].floor

\* An operation that begins by removing its link from the cache then acts on the
\* link as it was on the server after the operation began.
RefreshedBeforeUse ==
    \A c \in Callers :
        job[c] # None /\ Program[job[c].op][1] = "remove" => ActsOnLatest(c)

\* README.md:145: "functions using `...ByID` needs to perform
\* `protonDrive.removeLinkIDFromCache(linkID, false)` in order to get the latest
\* data!": every operation by ID acts on the latest link.
ByIDGetsLatest ==
    \A c \in Callers : job[c] # None /\ job[c].op \notin ByLink => ActsOnLatest(c)

\* Every operation that a caller begins returns to it.
OpsReturn == \A c \in Callers : job[c] # None ~> job[c] = None
=============================================================================
