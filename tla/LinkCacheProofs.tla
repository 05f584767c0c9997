-------------------------- MODULE LinkCacheProofs --------------------------
(***************************************************************************)
(* Proofs that IInv is an invariant of LinkCache, and what follows from    *)
(* it: the types, that no log.Fatalln is reached, that every keyring is    *)
(* the right one, and that no re-encryption loses a link.                  *)
(***************************************************************************)
EXTENDS LinkCacheInvariant, TLAPS

-----------------------------------------------------------------------------
(* The table *)

\* newCache and ClearCache leave a sound table.
LEMMA EmptyTableOK == TableOK(EmptyTable)
BY DEF TableOK, EmptyTable, Table, Cached, Parents

\* cache._insert of any snapshot keeps the table sound, whatever was cached
\* under that ID, and under whatever parent, before.
LEMMA InsertOK ==
    ASSUME NEW t, TableOK(t), NEW link \in Snapshot
    PROVE  TableOK(Insert(t, link))
<1> DEFINE u == Insert(t, link)
           e == [link |-> link, kr |-> None]
<1>1. link \in Link /\ link.id \in Links /\ link.parent \in Parents
  BY DEF Snapshot, Link
<1>2. e \in Entry
  BY <1>1 DEF Entry
<1>3. t \in Table
  BY DEF TableOK
<1>4. /\ u.data = [t.data EXCEPT ![link.id] = e]
      /\ u.children = [t.children EXCEPT ![link.parent] = @ \cup {link.id}]
      /\ u = [data |-> u.data, children |-> u.children]
  BY DEF Insert
<1>5. u.data \in [Links -> Entry \cup {None}]
  BY <1>1, <1>2, <1>3, <1>4 DEF Table
<1>6. u.children \in [Parents -> SUBSET Links]
  BY <1>1, <1>3, <1>4 DEF Table
<1>7. u \in Table
  BY <1>4, <1>5, <1>6 DEF Table
<1>8. ASSUME NEW l \in Cached(u)
      PROVE  EntryOK(u, l)
  <2>1. l \in Links
    BY DEF Cached
  <2>2. CASE l = link.id
    <3>1. u.data[l] = e
      BY <2>1, <2>2, <1>3, <1>4 DEF Table
    <3>2. l \in u.children[link.parent]
      BY <2>2, <1>1, <1>3, <1>4 DEF Table
    <3> QED
      BY <2>2, <3>1, <3>2, <1>2 DEF EntryOK
  <2>3. CASE l # link.id
    <3>1. u.data[l] = t.data[l]
      BY <2>1, <2>3, <1>3, <1>4 DEF Table
    <3>2. l \in Cached(t) /\ EntryOK(t, l)
      BY <2>1, <3>1 DEF Cached, TableOK
    <3>3. t.data[l].link.parent \in Parents
      BY <3>2 DEF EntryOK, Entry, Link
    <3>4. t.children[t.data[l].link.parent] \subseteq u.children[t.data[l].link.parent]
      BY <3>3, <1>3, <1>4 DEF Table
    <3> QED
      BY <3>1, <3>2, <3>4 DEF EntryOK
  <2> QED
    BY <2>2, <2>3
<1> QED
  BY <1>7, <1>8 DEF TableOK

\* A keyring written to the entry of its own link keeps the table sound.
LEMMA SetKeyringOK ==
    ASSUME NEW t, TableOK(t), NEW l \in Cached(t)
    PROVE  TableOK(SetKeyring(t, l, l))
<1> DEFINE u == SetKeyring(t, l, l)
           e == [t.data[l] EXCEPT !.kr = l]
<1>1. t \in Table /\ l \in Links
  BY DEF TableOK, Cached
<1>2. EntryOK(t, l) /\ t.data[l] \in Entry
  BY DEF TableOK, EntryOK
<1>3. e \in Entry /\ e.link = t.data[l].link /\ e.kr = l
  BY <1>1, <1>2 DEF Entry, Keyring, Parents
<1>4. /\ u.data = [t.data EXCEPT ![l] = e] /\ u.children = t.children
      /\ u = [data |-> u.data, children |-> u.children]
  BY <1>1 DEF SetKeyring, Table
<1>5. u \in Table
  BY <1>1, <1>3, <1>4 DEF Table
<1>6. ASSUME NEW k \in Cached(u)
      PROVE  EntryOK(u, k)
  <2>1. k \in Links
    BY DEF Cached
  <2>2. CASE k = l
    BY <2>1, <2>2, <1>1, <1>2, <1>3, <1>4 DEF EntryOK, Table
  <2>3. CASE k # l
    <3>1. u.data[k] = t.data[k]
      BY <2>1, <2>3, <1>1, <1>4 DEF Table
    <3>2. EntryOK(t, k)
      BY <2>1, <3>1 DEF Cached, TableOK
    <3> QED
      BY <3>1, <3>2, <1>4 DEF EntryOK
  <2> QED
    BY <2>2, <2>3
<1> QED
  BY <1>5, <1>6 DEF TableOK

\* What a removal reaches is cached; and with its children it reaches whatever
\* is cached and registered under a link it reaches.
LEMMA ReachedClosed ==
    ASSUME NEW t, NEW l, NEW b,
           NEW p \in Reached(t, l, b)
    PROVE  /\ p \in Cached(t)
           /\ b => t.children[p] \cap Cached(t) \subseteq Reached(t, l, b)
<1>1. l \in Cached(t)
  BY DEF Reached
<1>2. CASE ~b
  BY <1>1, <1>2 DEF Reached
<1>3. CASE b
  <2>1. p \in Cached(t) /\ \A S \in SUBSET Cached(t) : l \in S /\ ClosedUnder(t, S) => p \in S
    BY <1>1, <1>3 DEF Reached
  <2>2. ASSUME NEW k \in t.children[p] \cap Cached(t),
               NEW S \in SUBSET Cached(t), l \in S, ClosedUnder(t, S)
        PROVE  k \in S
    BY <2>1, <2>2 DEF ClosedUnder
  <2> QED
    BY <1>1, <1>3, <2>1, <2>2 DEF Reached
<1> QED
  BY <1>2, <1>3

\* No removal meets either log.Fatalln.
LEMMA RemoveNotFatal ==
    ASSUME NEW t, TableOK(t), NEW l, NEW b
    PROVE  ~RemoveIsFatal(t, l, b)
BY ReachedClosed DEF RemoveIsFatal, TableOK, EntryOK, ParentOf

\* cache._remove, with or without children, keeps the table sound: what stays
\* cached stays registered, for a link whose parent's map is dropped is dropped
\* with it.
LEMMA RemoveOK ==
    ASSUME NEW t, TableOK(t), NEW l, NEW b
    PROVE  TableOK(Remove(t, l, b))
<1> DEFINE gone == Reached(t, l, b)
           u == Remove(t, l, b)
<1>1. t \in Table
  BY DEF TableOK
<1>2. /\ u.data = [k \in Links |-> IF k \in gone THEN None ELSE t.data[k]]
      /\ u.children = [p \in Parents |->
                         IF b /\ p \in gone THEN {}
                         ELSE t.children[p] \ {k \in gone : ParentOf(t, k) = p}]
      /\ u = [data |-> u.data, children |-> u.children]
  BY DEF Remove
<1>3. u \in Table
  BY <1>1, <1>2 DEF Table
<1>4. ASSUME NEW k \in Cached(u)
      PROVE  EntryOK(u, k)
  <2>1. k \in Links /\ k \notin gone /\ u.data[k] = t.data[k]
    BY <1>2 DEF Cached
  <2>2. k \in Cached(t) /\ EntryOK(t, k)
    BY <2>1 DEF Cached, TableOK
  <2> DEFINE p == t.data[k].link.parent
  <2>3. p \in Parents /\ k \in t.children[p]
    BY <2>2 DEF EntryOK, Entry, Link
  <2>4. ~(b /\ p \in gone)
    BY <2>1, <2>2, <2>3, ReachedClosed
  <2>5. k \in u.children[p]
    BY <2>1, <2>3, <2>4, <1>2
  <2> QED
    BY <2>1, <2>2, <2>5 DEF EntryOK
<1> QED
  BY <1>3, <1>4 DEF TableOK

-----------------------------------------------------------------------------
(* The operations *)

\* What an operation's steps presuppose of the steps before them, and which
\* earlier steps a step must not follow.
WellOrdered(op) ==
    \A k \in 1..Len(Program[op]) :
       LET step == Program[op][k]
       IN  /\ step \in {"krSrc", "krSrcParent"} => op \in ByLink \/ Done(op, k - 1, "getSrc")
           /\ step \in {"krDst", "krDstParent"} =>
                Done(op, k - 1, "getDst") \/ Done(op, k - 1, "findDst")
           /\ step \in {"createFolder", "createFile"} => Done(op, k - 1, "krSrc")
           /\ step = "move" => Done(op, k - 1, "krDst")
           /\ step = "getSrc" => ~Done(op, k - 1, "krSrc")
           /\ step \in {"getDst", "findDst"} => ~Done(op, k - 1, "krDst")
           /\ step = "krSrc" => ~Done(op, k - 1, "krDst")
           /\ step = "krDst" => ~Done(op, k - 1, "krSrc")

\* Every operation fetches a link before it asks for its keyring, and has the
\* keyring of the folder it re-encrypts to before it moves or creates.
LEMMA ProgramWellOrdered ==
    \A op \in DOMAIN Program : Len(Program[op]) \in Nat \ {0} /\ WellOrdered(op)
<1>1. SUFFICES ASSUME NEW op \in DOMAIN Program
               PROVE  Len(Program[op]) \in Nat \ {0} /\ WellOrdered(op)
  OBVIOUS
<1>2. CASE op = "GetLink"
  <2>1. Program[op] = GetLink /\ Len(GetLink) = 1
    BY <1>2 DEF Program, GetLink
  <2>2. WellOrdered(op)
    BY <2>1, <1>2 DEF WellOrdered, Done, ByLink, GetLink
  <2> QED
    BY <2>1, <2>2
<1>3. CASE op = "GetActiveRevisionAttrs"
  <2>1. Program[op] = GetActiveRevisionAttrs /\ Len(GetActiveRevisionAttrs) = 1
    BY <1>3 DEF Program, GetActiveRevisionAttrs
  <2>2. WellOrdered(op)
    BY <2>1, <1>3 DEF WellOrdered, Done, ByLink, GetActiveRevisionAttrs
  <2> QED
    BY <2>1, <2>2
<1>4. CASE op = "GetActiveRevisionAttrsByID"
  <2>1. Program[op] = GetActiveRevisionAttrsByID /\ Len(GetActiveRevisionAttrsByID) = 2
    BY <1>4 DEF Program, GetActiveRevisionAttrsByID
  <2>2. WellOrdered(op)
    BY <2>1, <1>4 DEF WellOrdered, Done, ByLink, GetActiveRevisionAttrsByID
  <2> QED
    BY <2>1, <2>2
<1>5. CASE op = "DownloadFileByID"
  <2>1. Program[op] = DownloadFileByID /\ Len(DownloadFileByID) = 6
    BY <1>5 DEF Program, DownloadFileByID
  <2>2. WellOrdered(op)
    BY <2>1, <1>5 DEF WellOrdered, Done, ByLink, DownloadFileByID
  <2> QED
    BY <2>1, <2>2
<1>6. CASE op = "ListDirectory"
  <2>1. Program[op] = ListDirectory /\ Len(ListDirectory) = 4
    BY <1>6 DEF Program, ListDirectory
  <2>2. WellOrdered(op)
    BY <2>1, <1>6 DEF WellOrdered, Done, ByLink, ListDirectory
  <2> QED
    BY <2>1, <2>2
<1>7. CASE op = "SearchByNameInActiveFolderByID"
  <2>1. Program[op] = SearchByNameInActiveFolderByID /\ Len(SearchByNameInActiveFolderByID) = 5
    BY <1>7 DEF Program, SearchByNameInActiveFolderByID
  <2>2. WellOrdered(op)
    BY <2>1, <1>7 DEF WellOrdered, Done, ByLink, SearchByNameInActiveFolderByID
  <2> QED
    BY <2>1, <2>2
<1>8. CASE op = "CreateNewFolderByID"
  <2>1. Program[op] = CreateNewFolderByID /\ Len(CreateNewFolderByID) = 4
    BY <1>8 DEF Program, CreateNewFolderByID
  <2>2. WellOrdered(op)
    BY <2>1, <1>8 DEF WellOrdered, Done, ByLink, CreateNewFolderByID
  <2> QED
    BY <2>1, <2>2
<1>9. CASE op = "MoveByID"
  <2>1. Program[op] = MoveByID /\ Len(MoveByID) = 9
    BY <1>9 DEF Program, MoveByID
  <2>2. WellOrdered(op)
    BY <2>1, <1>9 DEF WellOrdered, Done, ByLink, MoveByID
  <2> QED
    BY <2>1, <2>2
<1>10. CASE op = "MoveFileToTrashByID"
  <2>1. Program[op] = MoveFileToTrashByID /\ Len(MoveFileToTrashByID) = 5
    BY <1>10 DEF Program, MoveFileToTrashByID
  <2>2. WellOrdered(op)
    BY <2>1, <1>10 DEF WellOrdered, Done, ByLink, MoveFileToTrashByID
  <2> QED
    BY <2>1, <2>2
<1>11. CASE op = "MoveFolderToTrashByID"
  <2>1. Program[op] = MoveFolderToTrashByID /\ Len(MoveFolderToTrashByID) = 6
    BY <1>11 DEF Program, MoveFolderToTrashByID
  <2>2. WellOrdered(op)
    BY <2>1, <1>11 DEF WellOrdered, Done, ByLink, MoveFolderToTrashByID
  <2> QED
    BY <2>1, <2>2
<1>12. CASE op = "UploadNewFile"
  <2>1. Program[op] = UploadNewFile /\ Len(UploadNewFile) = 3
    BY <1>12 DEF Program, UploadNewFile
  <2>2. WellOrdered(op)
    BY <2>1, <1>12 DEF WellOrdered, Done, ByLink, UploadNewFile
  <2> QED
    BY <2>1, <2>2
<1>13. CASE op = "UploadNewRevision"
  <2>1. Program[op] = UploadNewRevision /\ Len(UploadNewRevision) = 8
    BY <1>13 DEF Program, UploadNewRevision
  <2>2. WellOrdered(op)
    BY <2>1, <1>13 DEF WellOrdered, Done, ByLink, UploadNewRevision
  <2> QED
    BY <2>1, <2>2
<1>14. CASE op = "EmptyTrash"
  <2>1. Program[op] = EmptyTrash /\ Len(EmptyTrash) = 2
    BY <1>14 DEF Program, EmptyTrash
  <2>2. WellOrdered(op)
    BY <2>1, <1>14 DEF WellOrdered, Done, ByLink, EmptyTrash
  <2> QED
    BY <2>1, <2>2
<1>15. CASE op = "EmptyRootFolder"
  <2>1. Program[op] = EmptyRootFolder /\ Len(EmptyRootFolder) = 4
    BY <1>15 DEF Program, EmptyRootFolder
  <2>2. WellOrdered(op)
    BY <2>1, <1>15 DEF WellOrdered, Done, ByLink, EmptyRootFolder
  <2> QED
    BY <2>1, <2>2
<1>16. CASE op = "ClearCache"
  <2>1. Program[op] = ClearCache /\ Len(ClearCache) = 1
    BY <1>16 DEF Program, ClearCache
  <2>2. WellOrdered(op)
    BY <2>1, <1>16 DEF WellOrdered, Done, ByLink, ClearCache
  <2> QED
    BY <2>1, <2>2
<1>17. CASE op = "MoveEmptyFolderToTrashByID"
  <2>1. Program[op] = MoveEmptyFolderToTrashByID /\ Len(MoveEmptyFolderToTrashByID) = 6
    BY <1>17 DEF Program, MoveEmptyFolderToTrashByID
  <2>2. WellOrdered(op)
    BY <2>1, <1>17 DEF WellOrdered, Done, ByLink, MoveEmptyFolderToTrashByID
  <2> QED
    BY <2>1, <2>2
<1> QED
  BY <1>2, <1>3, <1>4, <1>5, <1>6, <1>7, <1>8, <1>9,
     <1>10, <1>11, <1>12, <1>13, <1>14, <1>15, <1>16, <1>17 DEF Program

-----------------------------------------------------------------------------
(* The callers *)

\* What the steps already taken have left is what the next step presupposes.
LEMMA ReadyForStep ==
    ASSUME NEW j \in Job, JobOK(j)
    PROVE  LET step == Program[j.op][j.at]
           IN  /\ step \in {"krSrc", "krSrcParent"} => j.src \in Snapshot
               /\ step \in {"krDst", "krDstParent"} => j.dst \in Snapshot
               /\ step \in {"createFolder", "createFile"} => j.src \in Snapshot /\ j.kr = j.src.id
               /\ step = "move" => j.dst \in Snapshot /\ j.kr = j.dst.id
<1>1. j.op \in DOMAIN Program
  BY OpsAssumption DEF Job
<1>2. WellOrdered(j.op)
  BY <1>1, ProgramWellOrdered
<1>3. j.at \in 1..Len(Program[j.op]) /\ Ready(j, j.at - 1)
  BY DEF JobOK
<1> QED
  BY <1>2, <1>3 DEF WellOrdered, Ready

\* The first n + 1 steps are the first n and one more.
LEMMA DoneNext ==
    ASSUME NEW op, NEW n \in Nat \ {0}, NEW step
    PROVE  Done(op, n, step) <=> Done(op, n - 1, step) \/ Program[op][n] = step
BY DEF Done

\* A step is entered with the lookup it needs, of the node it is for.
LEMMA EnterOK ==
    ASSUME NEW j \in Job, JobOK(j)
    PROVE  LET cl == Enter(j.op, j.at, j.l, j.d, j.src, j.dst)
           IN  cl \in Call /\ (cl.at # "none" => LookupOK(cl, j))
<1> DEFINE step == Program[j.op][j.at]
           cl == Enter(j.op, j.at, j.l, j.d, j.src, j.dst)
<1>1. j.l \in Links /\ j.d \in Links
  BY DEF Job
<1>2. /\ step \in {"krSrc", "krSrcParent"} => j.src \in Snapshot
      /\ step \in {"krDst", "krDstParent"} => j.dst \in Snapshot
  BY ReadyForStep
<1>3. \A s \in Snapshot : s \in Link /\ s.id \in Links /\ s.parent \in Parents
  BY DEF Snapshot, Link
<1>4. NoCall \in Call
  BY DEF NoCall, Call, Parents
<1>5. CASE step = "getSrc"
  <2>1. cl = [NoCall EXCEPT !.at = "get", !.id = j.l]
    BY <1>5 DEF Enter
  <2>2. cl.at = "get" /\ cl.id = j.l /\ cl.wants = "link" /\ cl.climb = <<>>
    BY <2>1 DEF NoCall
  <2>3. cl \in Call
    BY <2>1, <1>1, <1>4 DEF Call, NoCall, Parents
  <2> QED
    BY <2>2, <2>3, <1>1, <1>5 DEF LookupOK, ClimbOK, Wanted, Goal, LinkSteps
<1>6. CASE step = "getDst"
  <2>1. cl = [NoCall EXCEPT !.at = "get", !.id = j.d]
    BY <1>6 DEF Enter
  <2>2. cl.at = "get" /\ cl.id = j.d /\ cl.wants = "link" /\ cl.climb = <<>>
    BY <2>1 DEF NoCall
  <2>3. cl \in Call
    BY <2>1, <1>1, <1>4 DEF Call, NoCall, Parents
  <2> QED
    BY <2>2, <2>3, <1>1, <1>6 DEF LookupOK, ClimbOK, Wanted, Goal, LinkSteps
<1>7. CASE step \in {"krSrc", "krDst"}
  <2> DEFINE link == IF step = "krSrc" THEN j.src ELSE j.dst
  <2>1. cl = [NoCall EXCEPT !.at = "kr", !.link = link, !.wants = "kr"]
    BY <1>7 DEF Enter
  <2>2. cl.at = "kr" /\ cl.link = link /\ cl.wants = "kr" /\ cl.climb = <<>>
    BY <2>1 DEF NoCall
  <2>3. link \in Snapshot
    BY <1>2, <1>7
  <2>4. cl \in Call
    BY <2>1, <2>3, <1>3, <1>4 DEF Call, NoCall, Parents
  <2>5. Goal(j) = link.id
    BY <1>7 DEF Goal
  <2> QED
    BY <2>2, <2>3, <2>4, <2>5, <1>7 DEF LookupOK, ClimbOK, Wanted, KeyringSteps
<1>8. CASE step \in {"krSrcParent", "krDstParent"}
  <2> DEFINE id == IF step = "krSrcParent" THEN j.src.parent ELSE j.dst.parent
  <2>1. cl = [NoCall EXCEPT !.at = "krById", !.id = id, !.wants = "kr"]
    BY <1>8 DEF Enter
  <2>2. cl.at = "krById" /\ cl.id = id /\ cl.wants = "kr" /\ cl.climb = <<>>
    BY <2>1 DEF NoCall
  <2>3. id \in Parents
    BY <1>2, <1>3, <1>8
  <2>4. cl \in Call
    BY <2>1, <2>3, <1>4 DEF Call, NoCall
  <2>5. Goal(j) = id
    BY <1>8 DEF Goal
  <2> QED
    BY <2>2, <2>4, <2>5, <1>8 DEF LookupOK, ClimbOK, Wanted, KeyringSteps
<1>9. CASE step \notin {"getSrc", "getDst", "krSrc", "krDst", "krSrcParent", "krDstParent"}
  BY <1>4, <1>9 DEF Enter, NoCall
<1> QED
  BY <1>5, <1>6, <1>7, <1>8, <1>9

\* A caller may be anywhere its own part of the invariant allows.
LEMMA CallerStep ==
    ASSUME CallersOK, NEW c \in Callers,
           NEW j \in Job \cup {None}, NEW cl \in Call,
           \/ j = None /\ cl = NoCall
           \/ j # None /\ JobOK(j) /\ (cl.at # "none" => LookupOK(cl, j)),
           job' = [job EXCEPT ![c] = j], call' = [call EXCEPT ![c] = cl]
    PROVE  CallersOK'
<1>1. job' \in [Callers -> Job \cup {None}] /\ call' \in [Callers -> Call]
  BY DEF CallersOK
<1>2. ASSUME NEW d \in Callers
      PROVE  CallerOK(d)'
  <2>1. CASE d = c
    <3>1. job'[d] = j /\ call'[d] = cl
      BY <2>1 DEF CallersOK
    <3> QED
      BY <3>1 DEF CallerOK
  <2>2. CASE d # c
    <3>1. job'[d] = job[d] /\ call'[d] = call[d]
      BY <2>2 DEF CallersOK
    <3> QED
      BY <3>1 DEF CallersOK, CallerOK
  <2> QED
    BY <2>1, <2>2
<1> QED
  BY <1>1, <1>2 DEF CallersOK

\* A lookup goes from one of its states to another.
LEMMA LookupStep ==
    ASSUME CallersOK, NEW c \in Callers, job[c] # None,
           NEW cl \in Call, LookupOK(cl, job[c]),
           job' = job, call' = [call EXCEPT ![c] = cl]
    PROVE  CallersOK'
<1>1. JobOK(job[c]) /\ job[c] \in Job \cup {None}
  BY DEF CallersOK, CallerOK
<1>2. job' = [job EXCEPT ![c] = job[c]]
  BY DEF CallersOK
<1> QED
  BY <1>1, <1>2, CallerStep

LEMMA ReturnOK ==
    ASSUME CallersOK, NEW c \in Callers, Return(c)
    PROVE  CallersOK'
<1>1. NoCall \in Call
  BY DEF NoCall, Call, Parents
<1> QED
  BY <1>1, CallerStep DEF Return

\* A step may be completed once its operation has what the step is for.
LEMMA ProceedOK ==
    ASSUME CallersOK, NEW c \in Callers,
           NEW j \in Job, j.at \in 1..Len(Program[j.op]), Ready(j, j.at),
           Proceed(c, j)
    PROVE  CallersOK'
<1>1. CASE j.at < Len(Program[j.op])
  <2> DEFINE next == [j EXCEPT !.at = @ + 1]
             cl == Enter(j.op, j.at + 1, j.l, j.d, j.src, j.dst)
  <2>1. job' = [job EXCEPT ![c] = next] /\ call' = [call EXCEPT ![c] = cl]
    BY <1>1 DEF Proceed
  <2>2. /\ next \in Job /\ next.at = j.at + 1
        /\ next.op = j.op /\ next.l = j.l /\ next.d = j.d /\ next.src = j.src /\ next.dst = j.dst
        /\ next.kr = j.kr /\ next.listed = j.listed
    BY DEF Job
  <2>3. Len(Program[j.op]) \in Nat
    BY ProgramWellOrdered, OpsAssumption DEF Job
  <2>4. next.at - 1 = j.at /\ next.at \in 1..Len(Program[next.op])
    BY <1>1, <2>2, <2>3
  <2>5. Ready(next, next.at - 1)
    BY <2>2, <2>4 DEF Ready
  <2>6. JobOK(next)
    BY <2>2, <2>4, <2>5 DEF JobOK
  <2>7. cl \in Call /\ (cl.at # "none" => LookupOK(cl, next))
    <3>1. cl = Enter(next.op, next.at, next.l, next.d, next.src, next.dst)
      BY <2>2
    <3> QED
      BY <2>2, <2>6, <3>1, EnterOK
  <2>8. next # None
    BY <2>2, NoneAssumption
  <2> QED
    BY <2>1, <2>2, <2>6, <2>7, <2>8, CallerStep
<1>2. CASE ~(j.at < Len(Program[j.op]))
  BY <1>2, ReturnOK DEF Proceed
<1> QED
  BY <1>1, <1>2

\* Any step but those that give the operation something can be completed as it is.
LEMMA ProceedAsIs ==
    ASSUME CallersOK, NEW c \in Callers, job[c] # None,
           Step(c) \notin {"getSrc", "getDst", "findDst", "krSrc", "krDst"},
           NEW j \in Job, Ready(j, job[c].at - 1),
           j.op = job[c].op, j.at = job[c].at,
           Proceed(c, j)
    PROVE  CallersOK'
<1>1. JobOK(job[c])
  BY DEF CallersOK, CallerOK
<1>2. j.at \in 1..Len(Program[j.op])
  BY <1>1 DEF JobOK
<1>3. Len(Program[j.op]) \in Nat
  BY ProgramWellOrdered, OpsAssumption DEF Job
<1>4. j.at \in Nat \ {0}
  BY <1>2, <1>3
<1>5. ASSUME NEW step \in {"getSrc", "getDst", "findDst", "krSrc", "krDst"}
      PROVE  Done(j.op, j.at, step) <=> Done(j.op, j.at - 1, step)
  BY <1>4, DoneNext DEF Step
<1>6. Ready(j, j.at)
  BY <1>5 DEF Ready
<1> QED
  BY <1>2, <1>6, ProceedOK

LEMMA ProceedUnchanged ==
    ASSUME CallersOK, NEW c \in Callers, job[c] # None,
           Step(c) \notin {"getSrc", "getDst", "findDst", "krSrc", "krDst"},
           Proceed(c, job[c])
    PROVE  CallersOK'
<1>1. JobOK(job[c]) /\ job[c] \in Job
  BY DEF CallersOK, CallerOK
<1> QED
  BY <1>1, ProceedAsIs DEF JobOK

\* The process may die at any time: what is left is the initial state of a client.
LEMMA DieOK ==
    ASSUME NEW how, Die(how)
    PROVE  TableOK(cache)' /\ CallersOK' /\ HeldOK'
<1>1. TableOK(cache')
  BY EmptyTableOK DEF Die
<1>2. NoCall \in Call
  BY DEF NoCall, Call, Parents
<1>3. CallersOK'
  BY <1>2 DEF Die, CallersOK, CallerOK
<1> QED
  BY <1>1, <1>3 DEF Die, HeldOK

-----------------------------------------------------------------------------
(* Lookups *)

\* A caller that is in a lookup is in an operation, and its lookup is sound.
LEMMA InLookup ==
    ASSUME CallersOK, NEW c \in Callers, call[c].at # "none"
    PROVE  /\ job[c] # None /\ job[c] \in Job /\ JobOK(job[c])
           /\ call[c] \in Call /\ LookupOK(call[c], job[c])
BY DEF CallersOK, CallerOK, NoCall

LEMMA InStep ==
    ASSUME CallersOK, NEW c \in Callers, NEW step, At(c, step)
    PROVE  job[c] # None /\ job[c] \in Job /\ JobOK(job[c]) /\ Step(c) = step
BY DEF CallersOK, CallerOK, At

LEMMA SnapshotIsLink ==
    ASSUME NEW s \in Snapshot
    PROVE  s \in Link /\ s.id \in Links /\ s.parent \in Parents /\ s.encTo = s.parent
           /\ s.ver \in Nat /\ s # None
BY NoneAssumption DEF Snapshot, Link

LEMMA CachedSnapshot ==
    ASSUME TableOK(cache), NEW l, Hit(l)
    PROVE  /\ l \in Links /\ l \in Cached(cache) /\ cache.data[l].link \in Snapshot
           /\ cache.data[l].link.id = l /\ cache.data[l].kr \in {None, l}
BY DEF TableOK, EntryOK, Hit, Cached

\* An operation that keeps the link it looked up may go on.
LEMMA KeepLink ==
    ASSUME CallersOK, NEW c \in Callers, job[c] # None, NEW link \in Snapshot,
           Step(c) \in LinkSteps,
           Proceed(c, IF Step(c) = "getSrc" THEN [job[c] EXCEPT !.src = link]
                                            ELSE [job[c] EXCEPT !.dst = link])
    PROVE  CallersOK'
<1> DEFINE j == IF Step(c) = "getSrc" THEN [job[c] EXCEPT !.src = link]
                                      ELSE [job[c] EXCEPT !.dst = link]
           n == job[c].at
<1>1. job[c] \in Job /\ JobOK(job[c])
  BY DEF CallersOK, CallerOK
<1>2. link \in Link /\ link # None
  BY SnapshotIsLink
<1>3. /\ j \in Job
      /\ j.op = job[c].op /\ j.at = n /\ j.kr = job[c].kr /\ j.listed = job[c].listed
      /\ j.src = IF Step(c) = "getSrc" THEN link ELSE job[c].src
      /\ j.dst = IF Step(c) = "getSrc" THEN job[c].dst ELSE link
  BY <1>1, <1>2 DEF Job
<1>4. j.op \in DOMAIN Program
  BY <1>1, OpsAssumption DEF Job
<1>5. n \in 1..Len(Program[j.op]) /\ n \in Nat \ {0}
  BY <1>1, <1>3, <1>4, ProgramWellOrdered DEF JobOK
<1>6. \A step : Done(j.op, n, step) <=> Done(j.op, n - 1, step) \/ Step(c) = step
  BY <1>3, <1>5, DoneNext DEF Step
<1>7. /\ Step(c) = "getSrc" => ~Done(j.op, n - 1, "krSrc")
      /\ Step(c) = "getDst" => ~Done(j.op, n - 1, "krDst")
  BY <1>3, <1>4, <1>5, ProgramWellOrdered DEF WellOrdered, Step
<1>8. Ready(job[c], n - 1)
  BY <1>1 DEF JobOK
<1>9. Ready(j, n)
  <2>1. CASE Step(c) = "getSrc"
    BY <2>1, <1>2, <1>3, <1>6, <1>7, <1>8 DEF Ready
  <2>2. CASE Step(c) = "getDst"
    BY <2>2, <1>2, <1>3, <1>6, <1>7, <1>8 DEF Ready
  <2> QED
    BY <2>1, <2>2 DEF LinkSteps
<1> QED
  BY <1>3, <1>5, <1>9, ProceedOK

\* getLink returns a snapshot of the node that was wanted.
LEMMA DeliverLinkOK ==
    ASSUME CallersOK, HeldOK, NEW c \in Callers, call[c].at \in {"get", "insert"},
           NEW link \in Snapshot, link.id = Wanted(call[c], job[c]),
           DeliverLink(c, link)
    PROVE  CallersOK' /\ HeldOK'
<1>1. /\ job[c] # None /\ job[c] \in Job /\ JobOK(job[c])
      /\ call[c] \in Call /\ LookupOK(call[c], job[c])
  BY InLookup
<1>2. CASE call[c].wants = "kr"
  <2> DEFINE cl == [call[c] EXCEPT !.at = "kr", !.link = link]
  <2>1. cl \in Call /\ cl.at = "kr" /\ cl.link = link /\ cl.wants = "kr" /\ cl.climb = call[c].climb
    BY <1>1, <1>2, SnapshotIsLink DEF Call
  <2>2. LookupOK(cl, job[c])
    BY <2>1, <1>1, <1>2 DEF LookupOK, Wanted
  <2>3. job' = job /\ held' = held /\ call' = [call EXCEPT ![c] = cl]
    BY <1>2 DEF DeliverLink, CallersOK
  <2> QED
    BY <2>1, <2>2, <2>3, <1>1, LookupStep DEF HeldOK
<1>3. CASE call[c].wants = "link"
  <2>1. Step(c) \in LinkSteps
    BY <1>1, <1>3 DEF LookupOK, Step
  <2>2. CallersOK'
    BY <2>1, <1>1, <1>3, KeepLink DEF DeliverLink
  <2>3. held' = IF job[c].op = "GetLink" THEN [held EXCEPT ![c] = link] ELSE held
    BY <1>3 DEF DeliverLink
  <2> QED
    BY <2>2, <2>3 DEF HeldOK
<1> QED
  BY <1>1, <1>2, <1>3 DEF Call

LEMMA CacheLookupOK ==
    ASSUME IInv, NEW c \in Callers, CacheLookup(c)
    PROVE  IInv'
<1>1. ServerOK' /\ TableOK(cache)' /\ process' \in {"running", "overflow"}
  BY DEF CacheLookup, IInv, ServerOK
<1>2. /\ job[c] # None /\ job[c] \in Job
      /\ call[c] \in Call /\ LookupOK(call[c], job[c])
      /\ CallersOK /\ HeldOK /\ TableOK(cache) /\ call[c].at = "get"
  BY InLookup DEF CacheLookup, IInv
<1>3. CASE Hit(call[c].id)
  <2>1. /\ cache.data[call[c].id].link \in Snapshot
        /\ cache.data[call[c].id].link.id = Wanted(call[c], job[c])
    BY <1>2, <1>3, CachedSnapshot DEF LookupOK
  <2> QED
    BY <2>1, <1>1, <1>2, <1>3, DeliverLinkOK DEF CacheLookup, IInv
<1>4. CASE ~Hit(call[c].id)
  <2> DEFINE cl == [call[c] EXCEPT !.at = "fetch"]
  <2>1. /\ cl \in Call /\ cl.at = "fetch" /\ cl.id = call[c].id /\ cl.wants = call[c].wants
        /\ cl.climb = call[c].climb
    BY <1>2 DEF Call
  <2>2. LookupOK(cl, job[c])
    BY <2>1, <1>2 DEF LookupOK, Wanted
  <2>3. job' = job /\ held' = held /\ call' = [call EXCEPT ![c] = cl]
    BY <1>4 DEF CacheLookup
  <2> QED
    BY <2>1, <2>2, <2>3, <1>1, <1>2, LookupStep DEF IInv, HeldOK
<1> QED
  BY <1>3, <1>4

LEMMA FetchOK ==
    ASSUME IInv, NEW c \in Callers, Fetch(c)
    PROVE  IInv'
<1>1. /\ job[c] # None /\ job[c] \in Job
      /\ call[c] \in Call /\ LookupOK(call[c], job[c])
      /\ CallersOK /\ call[c].at = "fetch" /\ call[c].id \in Links
  BY InLookup DEF Fetch, IInv, LookupOK
<1> DEFINE link == server[call[c].id]
           cl == [call[c] EXCEPT !.at = "insert", !.link = link]
<1>2. link \in Snapshot /\ link.id = Wanted(call[c], job[c])
  BY <1>1 DEF IInv, ServerOK, LookupOK
<1>3. /\ cl \in Call /\ cl.at = "insert" /\ cl.link = link /\ cl.wants = call[c].wants
      /\ cl.climb = call[c].climb
  BY <1>1, <1>2, SnapshotIsLink DEF Call
<1>4. LookupOK(cl, job[c])
  BY <1>1, <1>2, <1>3 DEF LookupOK, Wanted
<1>5. job' = job /\ call' = [call EXCEPT ![c] = cl]
  BY DEF Fetch
<1>6. CallersOK'
  BY <1>1, <1>3, <1>4, <1>5, LookupStep
<1> QED
  BY <1>6 DEF Fetch, IInv, ServerOK, HeldOK

LEMMA InsertedOK ==
    ASSUME TableOK(cache), NEW link \in Snapshot
    PROVE  TableOK(Inserted(link))
BY InsertOK DEF Inserted

LEMMA InsertFetchedOK ==
    ASSUME IInv, NEW c \in Callers, InsertFetched(c)
    PROVE  IInv'
<1>1. /\ job[c] # None /\ LookupOK(call[c], job[c])
      /\ CallersOK /\ HeldOK /\ TableOK(cache) /\ call[c].at = "insert"
  BY InLookup DEF InsertFetched, IInv
<1>2. call[c].link \in Snapshot /\ call[c].link.id = Wanted(call[c], job[c])
  BY <1>1 DEF LookupOK
<1>3. TableOK(cache')
  BY <1>1, <1>2, InsertedOK DEF InsertFetched
<1>4. CallersOK' /\ HeldOK'
  BY <1>1, <1>2, DeliverLinkOK DEF InsertFetched
<1> QED
  BY <1>3, <1>4 DEF InsertFetched, IInv, ServerOK

-----------------------------------------------------------------------------
(* Keyrings *)

\* The climb goes one node further up: the parent the snapshot names is wanted.
LEMMA ClimbStepOK ==
    ASSUME IInv, NEW c \in Callers, call[c].at = "kr", call[c].wants = "kr",
           NEW link \in Snapshot, link.id = Wanted(call[c], job[c]),
           Climb(c, link), UNCHANGED <<server, changes>>
    PROVE  IInv'
<1>1. /\ job[c] # None /\ job[c] \in Job
      /\ call[c] \in Call /\ LookupOK(call[c], job[c]) /\ CallersOK
  BY InLookup DEF IInv
<1>2. CASE Len(call[c].climb) < MaxDepth
  <2> DEFINE old == call[c].climb
             new == Append(old, link)
             cl == [call[c] EXCEPT !.at = "krById", !.id = link.parent, !.link = None,
                                   !.climb = new]
  <2>1. link \in Link /\ link.parent \in Parents
    BY SnapshotIsLink
  <2>2. /\ cl \in Call /\ cl.at = "krById" /\ cl.id = link.parent /\ cl.wants = "kr"
        /\ cl.climb = new
    <3>1. old \in Seq(Link)
      BY <1>1 DEF Call
    <3>2. new \in Seq(Link)
      BY <2>1, <3>1
    <3> HIDE DEF new
    <3> QED
      BY <1>1, <2>1, <3>2 DEF Call
  <2>3. old \in Seq(Snapshot) /\ ClimbOK(old, job[c])
    BY <1>1 DEF LookupOK, ClimbOK
  <2>4. new \in Seq(Snapshot) /\ Len(new) = Len(old) + 1 /\ new[Len(new)] = link /\ new # <<>>
    BY <2>3
  <2>5. \A k \in 1..Len(old) : new[k] = old[k]
    BY <2>3
  <2>6. Wanted(cl, job[c]) = link.parent
    BY <2>2, <2>4 DEF Wanted
  <2>7. new[1].id = Goal(job[c])
    <3>1. CASE old = <<>>
      BY <3>1, <2>4 DEF Wanted
    <3>2. CASE old # <<>>
      BY <3>2, <2>3, <2>5 DEF ClimbOK
    <3> QED
      BY <3>1, <3>2
  <2>8. ASSUME NEW k \in 1..(Len(new) - 1)
        PROVE  new[k].parent = new[k + 1].id
    <3>1. CASE k = Len(old)
      BY <3>1, <2>3, <2>4, <2>5 DEF Wanted
    <3>2. CASE k # Len(old)
      <4>1. k \in 1..(Len(old) - 1) /\ k + 1 \in 1..Len(old)
        BY <3>2, <2>3, <2>4
      <4> QED
        BY <4>1, <2>3, <2>5 DEF ClimbOK
    <3> QED
      BY <3>1, <3>2
  <2>9. LookupOK(cl, job[c])
    <3>1. ClimbOK(new, job[c])
      BY <2>4, <2>7, <2>8 DEF ClimbOK
    <3> QED
      BY <3>1, <2>2, <2>6, <1>1 DEF LookupOK
  <2>10. job' = job /\ call' = [call EXCEPT ![c] = cl] /\ UNCHANGED <<cache, process, held>>
    BY <1>2 DEF Climb
  <2>11. CallersOK'
    BY <2>2, <2>9, <2>10, <1>1, LookupStep
  <2> QED
    BY <2>10, <2>11 DEF IInv, ServerOK, HeldOK
<1>3. CASE ~(Len(call[c].climb) < MaxDepth)
  <2>1. Die("overflow")
    BY <1>3 DEF Climb
  <2> QED
    BY <2>1, DieOK DEF IInv, ServerOK, Die
<1> QED
  BY <1>2, <1>3

LEMMA LookupKeyringOK ==
    ASSUME IInv, NEW c \in Callers, LookupKeyring(c)
    PROVE  IInv'
<1>1. /\ job[c] # None /\ job[c] \in Job
      /\ call[c] \in Call /\ LookupOK(call[c], job[c]) /\ CallersOK /\ TableOK(cache)
      /\ call[c].at = "kr"
  BY InLookup DEF LookupKeyring, IInv
<1> DEFINE link == call[c].link
<1>2. link \in Snapshot /\ link.id = Wanted(call[c], job[c]) /\ call[c].wants = "kr"
  BY <1>1 DEF LookupOK, Call
<1>3. CASE ~EnableCaching
  BY <1>1, <1>2, <1>3, ClimbStepOK DEF LookupKeyring
<1>4. CASE EnableCaching /\ ~Hit(link.id)
  <2> DEFINE cl == [call[c] EXCEPT !.at = "plant"]
  <2>1. /\ cl \in Call /\ cl.at = "plant" /\ cl.link = link /\ cl.wants = "kr"
        /\ cl.climb = call[c].climb
    BY <1>1, <1>2 DEF Call
  <2>2. LookupOK(cl, job[c])
    BY <2>1, <1>1, <1>2 DEF LookupOK, Wanted
  <2>3. call' = [call EXCEPT ![c] = cl] /\ UNCHANGED <<server, changes, cache, process, job, held>>
    BY <1>4 DEF LookupKeyring
  <2>4. CallersOK'
    BY <2>1, <2>2, <2>3, <1>1, LookupStep
  <2> QED
    BY <2>3, <2>4 DEF IInv, ServerOK, HeldOK
<1>5. CASE EnableCaching /\ Hit(link.id) /\ cache.data[link.id].kr = None
  <2>1. cache.data[link.id].link \in Snapshot /\ cache.data[link.id].link.id = link.id
    BY <1>1, <1>5, CachedSnapshot
  <2> QED
    BY <2>1, <1>1, <1>2, <1>5, ClimbStepOK DEF LookupKeyring
<1>6. CASE EnableCaching /\ Hit(link.id) /\ cache.data[link.id].kr # None
  <2> DEFINE cl == [call[c] EXCEPT !.at = "unwind", !.link = None, !.kr = cache.data[link.id].kr]
  <2>1. cache.data[link.id].kr = link.id /\ link.id \in Keyring
    BY <1>1, <1>2, <1>6, CachedSnapshot, SnapshotIsLink DEF Keyring, Parents
  <2>2. /\ cl \in Call /\ cl.at = "unwind" /\ cl.kr = link.id /\ cl.wants = "kr"
        /\ cl.climb = call[c].climb
    BY <2>1, <1>1, <1>2 DEF Call
  <2>3. LookupOK(cl, job[c])
    BY <2>2, <1>1, <1>2 DEF LookupOK, Wanted
  <2>4. call' = [call EXCEPT ![c] = cl] /\ UNCHANGED <<server, changes, cache, process, job, held>>
    BY <1>6 DEF LookupKeyring
  <2>5. CallersOK'
    BY <2>2, <2>3, <2>4, <1>1, LookupStep
  <2> QED
    BY <2>4, <2>5 DEF IInv, ServerOK, HeldOK
<1> QED
  BY <1>3, <1>4, <1>5, <1>6

LEMMA PlantOK ==
    ASSUME IInv, NEW c \in Callers, Plant(c)
    PROVE  IInv'
<1>1. /\ job[c] # None /\ call[c] \in Call /\ LookupOK(call[c], job[c])
      /\ CallersOK /\ TableOK(cache) /\ call[c].at = "plant"
  BY InLookup DEF Plant, IInv
<1>2. call[c].link \in Snapshot
  BY <1>1 DEF LookupOK
<1> DEFINE cl == [call[c] EXCEPT !.at = "kr"]
<1>3. /\ cl \in Call /\ cl.at = "kr" /\ cl.link = call[c].link /\ cl.wants = call[c].wants
      /\ cl.climb = call[c].climb
  BY <1>1 DEF Call
<1>4. LookupOK(cl, job[c])
  BY <1>1, <1>3 DEF LookupOK, Wanted
<1>5. call' = [call EXCEPT ![c] = cl] /\ UNCHANGED <<server, changes, process, job, held>>
  BY DEF Plant
<1>6. CallersOK'
  BY <1>1, <1>3, <1>4, <1>5, LookupStep
<1>7. TableOK(cache')
  BY <1>1, <1>2, InsertedOK DEF Plant
<1> QED
  BY <1>5, <1>6, <1>7 DEF IInv, ServerOK, HeldOK

LEMMA LookupKeyringByIDOK ==
    ASSUME IInv, NEW c \in Callers, LookupKeyringByID(c)
    PROVE  IInv'
<1>1. /\ job[c] # None /\ call[c] \in Call /\ LookupOK(call[c], job[c])
      /\ CallersOK /\ TableOK(cache) /\ call[c].at = "krById"
  BY InLookup DEF LookupKeyringByID, IInv
<1> DEFINE id == call[c].id
           cl == IF id = NoLink THEN [call[c] EXCEPT !.at = "unwind", !.kr = NoLink]
                 ELSE IF Hit(id) THEN [call[c] EXCEPT !.at = "kr", !.link = cache.data[id].link]
                 ELSE [call[c] EXCEPT !.at = "get"]
<1>2. id = Wanted(call[c], job[c]) /\ call[c].wants = "kr" /\ id \in Parents
  BY <1>1 DEF LookupOK, Call
<1>3. cl \in Call /\ LookupOK(cl, job[c])
  <2>1. CASE id = NoLink
    <3>1. /\ cl \in Call /\ cl.at = "unwind" /\ cl.kr = id /\ cl.wants = "kr"
          /\ cl.climb = call[c].climb
      BY <2>1, <1>1, <1>2 DEF Call, Keyring
    <3> QED
      BY <3>1, <1>1, <1>2 DEF LookupOK, Wanted
  <2>2. CASE id # NoLink /\ Hit(id)
    <3> DEFINE link == cache.data[id].link
    <3>1. link \in Snapshot /\ link.id = id
      BY <2>2, <1>1, CachedSnapshot
    <3>2. /\ cl \in Call /\ cl.at = "kr" /\ cl.link = link /\ cl.wants = "kr"
          /\ cl.climb = call[c].climb
      BY <2>2, <3>1, <1>1, <1>2, SnapshotIsLink DEF Call
    <3> QED
      BY <3>1, <3>2, <1>1, <1>2 DEF LookupOK, Wanted
  <2>3. CASE id # NoLink /\ ~Hit(id)
    <3>1. /\ cl \in Call /\ cl.at = "get" /\ cl.id = id /\ cl.wants = "kr"
          /\ cl.climb = call[c].climb
      BY <2>3, <1>1, <1>2 DEF Call
    <3>2. id \in Links
      BY <2>3, <1>2 DEF Parents
    <3> QED
      BY <3>1, <3>2, <1>1, <1>2 DEF LookupOK, Wanted
  <2> QED
    BY <2>1, <2>2, <2>3
<1>4. call' = [call EXCEPT ![c] = cl] /\ UNCHANGED <<server, changes, cache, process, job, held>>
  BY DEF LookupKeyringByID
<1>5. CallersOK'
  BY <1>1, <1>3, <1>4, LookupStep
<1> QED
  BY <1>4, <1>5 DEF IInv, ServerOK, HeldOK

\* A climb without its last link is a climb whose next wanted node is that link.
LEMMA PopClimb ==
    ASSUME NEW j, NEW climb, ClimbOK(climb, j), climb # <<>>,
           NEW cl, cl.climb = SubSeq(climb, 1, Len(climb) - 1)
    PROVE  /\ ClimbOK(cl.climb, j)
           /\ climb[Len(climb)] \in Snapshot
           /\ Wanted(cl, j) = climb[Len(climb)].id
<1>1. climb \in Seq(Snapshot)
  BY DEF ClimbOK
<1>2. PICK n \in Nat \ {0} : n = Len(climb)
  BY <1>1
<1>3. PICK q : q = cl.climb
  OBVIOUS
<1>4. q \in Seq(Snapshot) /\ Len(q) = n - 1 /\ \A k \in 1..(n - 1) : q[k] = climb[k]
  BY <1>1, <1>2, <1>3
<1>5. climb[n] \in Snapshot
  BY <1>1, <1>2
<1>6. climb[1].id = Goal(j) /\ \A k \in 1..(n - 1) : climb[k].parent = climb[k + 1].id
  BY <1>2 DEF ClimbOK
<1>7. CASE n = 1
  <2>1. q = <<>>
    BY <1>4, <1>7
  <2> QED
    BY <2>1, <1>2, <1>3, <1>5, <1>6, <1>7 DEF Wanted, ClimbOK
<1>8. CASE n # 1
  <2>1. n - 1 \in 1..(n - 1) /\ q # <<>> /\ n - 1 + 1 = n
    BY <1>4, <1>8
  <2>2. q[n - 1].parent = climb[n].id
    BY <2>1, <1>4, <1>6
  <2>3. q[1].id = Goal(j)
    BY <1>4, <1>6, <1>8
  <2>4. ASSUME NEW k \in 1..(n - 2)
        PROVE  q[k].parent = q[k + 1].id
    <3>1. k \in 1..(n - 1) /\ k + 1 \in 1..(n - 1)
      OBVIOUS
    <3> QED
      BY <3>1, <1>4, <1>6
  <2>5. Len(q) - 1 = n - 2
    BY <1>4
  <2>6. ClimbOK(q, j)
    BY <2>3, <2>4, <2>5, <1>4 DEF ClimbOK
  <2> QED
    BY <2>1, <2>2, <2>6, <1>2, <1>3, <1>4, <1>5 DEF Wanted
<1> QED
  BY <1>7, <1>8

\* The keyring at hand is the one the innermost link's passphrase is for.
LEMMA DecryptOK ==
    ASSUME IInv, NEW c \in Callers, Decrypt(c)
    PROVE  IInv'
<1>1. /\ job[c] # None /\ call[c] \in Call /\ LookupOK(call[c], job[c])
      /\ CallersOK /\ TableOK(cache) /\ call[c].at = "unwind" /\ call[c].climb # <<>>
  BY InLookup DEF Decrypt, IInv
<1> DEFINE old  == call[c].climb
           new  == SubSeq(old, 1, Len(old) - 1)
           link == Innermost(c)
           cl   == [call[c] EXCEPT !.kr = link.id, !.climb = new]
<1> HIDE DEF new, link
<1>2. /\ cl.at = "unwind" /\ cl.kr = link.id /\ cl.wants = call[c].wants
      /\ cl.climb = new
  BY <1>1 DEF Call
<1>3. link \in Snapshot /\ ClimbOK(new, job[c]) /\ Wanted(cl, job[c]) = link.id
  <2>1. link = old[Len(old)] /\ ClimbOK(old, job[c])
    BY <1>1 DEF link, Innermost, LookupOK
  <2>2. cl.climb = SubSeq(old, 1, Len(old) - 1)
    BY <1>2 DEF new
  <2> HIDE DEF cl
  <2> QED
    BY <1>1, <1>2, <2>1, <2>2, PopClimb
<1>4. call[c].kr = link.encTo
  BY <1>1, <1>3, SnapshotIsLink DEF LookupOK, Wanted, Innermost, link
<1>5. cl \in Call
  <2>1. new \in Seq(Link)
    BY <1>3 DEF ClimbOK, Snapshot
  <2>2. link.id \in Keyring
    BY <1>3, SnapshotIsLink DEF Keyring, Parents
  <2> QED
    BY <2>1, <2>2, <1>1 DEF Call
<1>6. LookupOK(cl, job[c])
  <2> HIDE DEF cl
  <2> QED
    BY <1>1, <1>2, <1>3 DEF LookupOK
<1>7. job' = job /\ call' = [call EXCEPT ![c] = cl] /\ UNCHANGED <<server, changes, process, held>>
  BY <1>4 DEF Decrypt, new, link
<1>8. CallersOK'
  BY <1>1, <1>5, <1>6, <1>7, LookupStep
<1>9. TableOK(cache')
  BY <1>1, <1>4, SetKeyringOK, CachedSnapshot DEF Decrypt, link
<1> QED
  BY <1>7, <1>8, <1>9 DEF IInv, ServerOK, HeldOK

\* The keyring that arrives is the goal's, and a parent's opens the link.
LEMMA DeliverKeyringOK ==
    ASSUME IInv, NEW c \in Callers, DeliverKeyring(c)
    PROVE  IInv'
<1>1. /\ job[c] # None /\ job[c] \in Job /\ JobOK(job[c])
      /\ call[c] \in Call /\ LookupOK(call[c], job[c])
      /\ CallersOK /\ call[c].at = "unwind" /\ call[c].climb = <<>>
  BY InLookup DEF DeliverKeyring, IInv
<1> DEFINE kr == call[c].kr
           n == job[c].at
           j == IF Step(c) \in {"krSrc", "krDst"} THEN [job[c] EXCEPT !.kr = kr] ELSE job[c]
<1>2. kr = Goal(job[c]) /\ Step(c) \in KeyringSteps
  BY <1>1 DEF LookupOK, Wanted, Call, Step
<1>3. UNCHANGED <<server, changes, cache, process, held>> /\ (Return(c) \/ Proceed(c, j))
  BY DEF DeliverKeyring
<1>4. CallersOK'
  <2>1. CASE Return(c)
    BY <2>1, <1>1, ReturnOK
  <2>2. CASE Proceed(c, j)
    <3>1. /\ Step(c) = "krSrc" => job[c].src \in Snapshot /\ kr = job[c].src.id
          /\ Step(c) = "krDst" => job[c].dst \in Snapshot /\ kr = job[c].dst.id
      BY <1>1, <1>2, ReadyForStep DEF Goal, Step
    <3>2. Step(c) \in {"krSrc", "krDst"} => kr \in Keyring
      BY <3>1, SnapshotIsLink DEF Keyring, Parents
    <3>3. /\ j \in Job /\ j.op = job[c].op /\ j.at = n /\ j.src = job[c].src /\ j.dst = job[c].dst
          /\ j.listed = job[c].listed
          /\ j.kr = IF Step(c) \in {"krSrc", "krDst"} THEN kr ELSE job[c].kr
      BY <1>1, <3>2 DEF Job
    <3>4. j.op \in DOMAIN Program
      BY <1>1, <3>3, OpsAssumption DEF Job
    <3>5. n \in 1..Len(Program[j.op]) /\ n \in Nat \ {0}
      BY <1>1, <3>3, <3>4, ProgramWellOrdered DEF JobOK
    <3>6. \A step : Done(j.op, n, step) <=> Done(j.op, n - 1, step) \/ Step(c) = step
      BY <3>3, <3>5, DoneNext DEF Step
    <3>7. /\ Step(c) = "krSrc" => ~Done(j.op, n - 1, "krDst")
          /\ Step(c) = "krDst" => ~Done(j.op, n - 1, "krSrc")
      BY <3>3, <3>4, <3>5, ProgramWellOrdered DEF WellOrdered, Step
    <3>8. Ready(job[c], n - 1)
      BY <1>1 DEF JobOK
    <3>9. job[c].src \in Snapshot => job[c].src # None
      BY SnapshotIsLink
    <3>10. job[c].dst \in Snapshot => job[c].dst # None
      BY SnapshotIsLink
    <3>11. Ready(j, n)
      <4>1. CASE Step(c) = "krSrc"
        BY <4>1, <3>1, <3>3, <3>6, <3>7, <3>8, <3>9 DEF Ready
      <4>2. CASE Step(c) = "krDst"
        BY <4>2, <3>1, <3>3, <3>6, <3>7, <3>8, <3>10 DEF Ready
      <4>3. CASE Step(c) \in {"krSrcParent", "krDstParent"}
        BY <4>3, <3>3, <3>6, <3>8 DEF Ready
      <4> QED
        BY <1>2, <4>1, <4>2, <4>3 DEF KeyringSteps
    <3> QED
      BY <2>2, <3>3, <3>5, <3>11, <1>1, ProceedOK
  <2> QED
    BY <2>1, <2>2, <1>3
<1> QED
  BY <1>3, <1>4 DEF IInv, ServerOK, HeldOK

-----------------------------------------------------------------------------
(* The server *)

ServerMap(s) == s \in [Links -> Snapshot] /\ \A l \in Links : s[l].id = l

LEMMA MovedOK ==
    ASSUME ServerOK, NEW l \in Links, NEW p \in Parents
    PROVE  ServerMap(Moved(l, p, p)) /\ ServerMap(Created(l, p, p))
<1>1. server[l] \in Snapshot /\ server[l].id = l
  BY DEF ServerOK
<1> DEFINE moved == [server[l] EXCEPT !.parent = p, !.encTo = p, !.ver = server[l].ver + 1]
           created == [server[l] EXCEPT !.parent = p, !.encTo = p, !.state = "active",
                                        !.ver = server[l].ver + 1]
<1>2. server[l] \in Link /\ server[l].ver + 1 \in Nat
  BY <1>1 DEF Snapshot, Link
<1>3. moved \in Link /\ moved.id = l /\ moved.encTo = moved.parent
  BY <1>1, <1>2 DEF Link
<1>4. created \in Link /\ created.id = l /\ created.encTo = created.parent
  BY <1>1, <1>2 DEF Link
<1>5. Moved(l, p, p) = [server EXCEPT ![l] = moved]
  BY DEF Moved
<1>6. Created(l, p, p) = [server EXCEPT ![l] = created]
  BY DEF Created
<1> HIDE DEF moved, created
<1> QED
  BY <1>3, <1>4, <1>5, <1>6 DEF ServerOK, ServerMap, Snapshot

LEMMA StateChangesOK ==
    ASSUME ServerOK, NEW S, NEW k
    PROVE  ServerMap(Trashed(S)) /\ ServerMap(Deleted(S)) /\ ServerMap(Touched(k))
<1>1. ASSUME NEW l \in Links
      PROVE  server[l] \in Snapshot /\ server[l].id = l
  BY DEF ServerOK
<1>2. ASSUME NEW l \in Links
      PROVE  LET trashed == [server[l] EXCEPT !.state = "trashed", !.ver = @ + 1]
                 deleted == [server[l] EXCEPT !.state = "deleted"]
                 touched == [server[l] EXCEPT !.ver = @ + 1]
             IN  /\ trashed \in Snapshot /\ trashed.id = l
                 /\ deleted \in Snapshot /\ deleted.id = l
                 /\ touched \in Snapshot /\ touched.id = l
  <2>1. /\ server[l] \in Link /\ server[l].id = l /\ server[l].ver + 1 \in Nat
        /\ server[l].encTo = server[l].parent
    BY <1>1 DEF Snapshot, Link
  <2>2. LET trashed == [server[l] EXCEPT !.state = "trashed", !.ver = @ + 1]
        IN  trashed \in Link /\ trashed.id = l /\ trashed.encTo = trashed.parent
    BY <2>1 DEF Link
  <2>3. LET deleted == [server[l] EXCEPT !.state = "deleted"]
        IN  deleted \in Link /\ deleted.id = l /\ deleted.encTo = deleted.parent
    BY <2>1 DEF Link
  <2>4. LET touched == [server[l] EXCEPT !.ver = @ + 1]
        IN  touched \in Link /\ touched.id = l /\ touched.encTo = touched.parent
    BY <2>1 DEF Link
  <2> QED
    BY <2>2, <2>3, <2>4 DEF Snapshot
<1>3. ServerMap(Trashed(S))
  BY <1>1, <1>2 DEF ServerMap, Trashed
<1>4. ServerMap(Deleted(S))
  BY <1>1, <1>2 DEF ServerMap, Deleted
<1>5. ServerMap(Touched(k))
  <2>1. CASE k \in Links
    <3>1. Touched(k) = [server EXCEPT ![k] = [server[k] EXCEPT !.ver = @ + 1]]
      BY DEF Touched
    <3> QED
      BY <3>1, <2>1, <1>1, <1>2 DEF ServerMap, ServerOK
  <2>2. CASE k \notin Links
    <3>1. Touched(k) = server
      BY <2>2 DEF Touched, ServerOK
    <3> QED
      BY <3>1 DEF ServerMap, ServerOK
  <2> QED
    BY <2>1, <2>2
<1> QED
  BY <1>3, <1>4, <1>5

\* The steps that leave the operation with nothing it did not have before
PlainSteps == {"remove", "removeTree", "clear", "srcIsFile", "srcIsFolder", "srcActive",
               "dstActive", "query", "isEmpty", "createFolder", "createFile", "move", "trash",
               "commit", "emptyTrash", "trashListed", "deleteListed"}

\* A request that the server carries out keeps every link openable by its parent.
LEMMA AnswerOK ==
    ASSUME IInv, NEW c \in Callers, NEW step \in PlainSteps, At(c, step),
           NEW s, ServerMap(s), Answer(c, s)
    PROVE  IInv'
<1>1. job[c] # None /\ Step(c) = step /\ CallersOK
  BY InStep DEF IInv
<1>2. Proceed(c, job[c]) \/ Return(c)
  BY DEF Answer
<1>3. CallersOK'
  BY <1>1, <1>2, ProceedUnchanged, ReturnOK DEF PlainSteps
<1>4. ServerOK'
  BY DEF Answer, ServerMap, ServerOK, IInv
<1> QED
  BY <1>3, <1>4 DEF Answer, IInv, HeldOK

LEMMA MoveOK ==
    ASSUME IInv, NEW c \in Callers, Move(c)
    PROVE  IInv'
<1>1. job[c] \in Job /\ JobOK(job[c]) /\ Step(c) = "move" /\ job[c].l \in Links
  BY InStep DEF Move, IInv, Job
<1>2. job[c].dst \in Snapshot /\ job[c].kr = job[c].dst.id
  BY <1>1, ReadyForStep DEF Step
<1>3. job[c].dst.id \in Parents
  BY <1>2, SnapshotIsLink DEF Parents
<1>4. ServerMap(Moved(job[c].l, job[c].dst.id, job[c].kr))
  BY <1>1, <1>2, <1>3, MovedOK DEF IInv
<1> QED
  BY <1>4, AnswerOK DEF Move, PlainSteps

LEMMA CreateOK ==
    ASSUME IInv, NEW c \in Callers, Create(c)
    PROVE  IInv'
<1>1. PICK l \in Links :
        /\ At(c, "createFolder") \/ At(c, "createFile")
        /\ Answer(c, Created(l, job[c].src.id, job[c].kr))
  BY DEF Create
<1>2. PICK step \in {"createFolder", "createFile"} : At(c, step)
  BY <1>1
<1>3. job[c] \in Job /\ JobOK(job[c]) /\ Step(c) = step
  BY <1>2, InStep DEF IInv
<1>4. job[c].src \in Snapshot /\ job[c].kr = job[c].src.id
  BY <1>3, ReadyForStep DEF Step
<1>5. ServerMap(Created(l, job[c].src.id, job[c].kr))
  BY <1>4, SnapshotIsLink, MovedOK DEF IInv, Parents
<1> QED
  BY <1>1, <1>2, <1>5, AnswerOK DEF PlainSteps

LEMMA ServerChangesOK ==
    ASSUME IInv, NEW c \in Callers,
           \/ Trash(c) \/ Commit(c) \/ EmptyTrashOnServer(c) \/ TrashListed(c) \/ DeleteListed(c)
    PROVE  IInv'
<1>1. ServerOK
  BY DEF IInv
<1>2. CASE Trash(c)
  BY <1>1, <1>2, StateChangesOK, AnswerOK DEF Trash, PlainSteps
<1>3. CASE Commit(c)
  BY <1>1, <1>3, StateChangesOK, AnswerOK DEF Commit, PlainSteps
<1>4. CASE EmptyTrashOnServer(c)
  BY <1>1, <1>4, StateChangesOK, AnswerOK DEF EmptyTrashOnServer, PlainSteps
<1>5. CASE TrashListed(c)
  BY <1>1, <1>5, StateChangesOK, AnswerOK DEF TrashListed, PlainSteps
<1>6. CASE DeleteListed(c)
  BY <1>1, <1>6, StateChangesOK, AnswerOK DEF DeleteListed, PlainSteps
<1> QED
  BY <1>2, <1>3, <1>4, <1>5, <1>6

\* The steps that read: what they bring into the operation are snapshots.
LEMMA ReadOK ==
    ASSUME IInv, NEW c \in Callers, Read(c) \/ ListEmpty(c) \/ CheckLink(c)
    PROVE  IInv'
<1>1. PICK step \in PlainSteps : At(c, step)
  BY DEF Read, ListEmpty, CheckLink, PlainSteps
<1>2. UNCHANGED <<server, changes, cache, process, held>> /\ (Proceed(c, job[c]) \/ Return(c))
  BY DEF Read, ListEmpty, CheckLink
<1>3. job[c] # None /\ Step(c) = step /\ CallersOK
  BY <1>1, InStep DEF IInv
<1>4. CallersOK'
  BY <1>2, <1>3, ProceedUnchanged, ReturnOK DEF PlainSteps
<1> QED
  BY <1>2, <1>4 DEF IInv, ServerOK, HeldOK

LEMMA FindDstOK ==
    ASSUME IInv, NEW c \in Callers, FindDst(c)
    PROVE  IInv'
<1>1. PICK l \in Links : Proceed(c, [job[c] EXCEPT !.dst = server[l]])
  BY DEF FindDst
<1> DEFINE link == server[l]
           j == [job[c] EXCEPT !.dst = link]
           n == job[c].at
<1>2. job[c] \in Job /\ JobOK(job[c]) /\ Step(c) = "findDst" /\ CallersOK
  BY InStep DEF FindDst, IInv
<1>3. link \in Snapshot /\ link \in Link /\ link # None
  BY SnapshotIsLink DEF IInv, ServerOK
<1>4. /\ j \in Job /\ j.op = job[c].op /\ j.at = n /\ j.src = job[c].src /\ j.dst = link
      /\ j.kr = job[c].kr /\ j.listed = job[c].listed
  BY <1>2, <1>3 DEF Job
<1>5. j.op \in DOMAIN Program
  BY <1>2, <1>4, OpsAssumption DEF Job
<1>6. n \in 1..Len(Program[j.op]) /\ n \in Nat \ {0}
  BY <1>2, <1>4, <1>5, ProgramWellOrdered DEF JobOK
<1>7. \A step : Done(j.op, n, step) <=> Done(j.op, n - 1, step) \/ step = "findDst"
  BY <1>2, <1>4, <1>6, DoneNext DEF Step
<1>8. ~Done(j.op, n - 1, "krDst")
  BY <1>2, <1>4, <1>5, <1>6, ProgramWellOrdered DEF WellOrdered, Step
<1>9. Ready(job[c], n - 1)
  BY <1>2 DEF JobOK
<1>10. Ready(j, n)
  BY <1>3, <1>4, <1>7, <1>8, <1>9 DEF Ready
<1>11. CallersOK'
  BY <1>1, <1>2, <1>4, <1>6, <1>10, ProceedOK
<1> QED
  BY <1>11 DEF FindDst, IInv, ServerOK, HeldOK

LEMMA ListRootOK ==
    ASSUME IInv, NEW c \in Callers, ListRoot(c)
    PROVE  IInv'
<1> DEFINE listed == {server[l] : l \in {k \in Links : server[k].parent = Root /\ Reachable(k)}}
           j == [job[c] EXCEPT !.listed = listed]
<1>1. /\ job[c] \in Job /\ JobOK(job[c]) /\ Step(c) = "listRoot" /\ CallersOK
      /\ job[c] # None
  BY InStep DEF ListRoot, IInv
<1>2. listed \subseteq Snapshot /\ listed \subseteq Link
  BY DEF IInv, ServerOK, Snapshot
<1>3. Proceed(c, j) /\ UNCHANGED <<server, changes, cache, process, held>>
  BY DEF ListRoot
<1> HIDE DEF listed
<1>4. /\ j \in Job /\ j.op = job[c].op /\ j.at = job[c].at /\ j.src = job[c].src
      /\ j.dst = job[c].dst /\ j.kr = job[c].kr /\ j.listed = listed
  BY <1>1, <1>2 DEF Job
<1>5. Ready(j, job[c].at - 1)
  BY <1>1, <1>2, <1>4 DEF JobOK, Ready
<1> HIDE DEF j
<1>6. CallersOK'
  BY <1>1, <1>3, <1>4, <1>5, ProceedAsIs
<1> QED
  BY <1>3, <1>6 DEF IInv, ServerOK, HeldOK

\* A step of another client of the account.
LEMMA OtherClientOK ==
    ASSUME IInv, OtherClient
    PROVE  IInv'
<1>1. ServerOK
  BY DEF IInv
<1>2. PICK l \in Links :
        \/ \E p \in Links : server' = Moved(l, p, p)
        \/ server' = Trashed({l})
        \/ server' = Touched(l)
  BY DEF OtherClient
<1>3. ServerMap(server')
  BY <1>1, <1>2, MovedOK, StateChangesOK DEF Parents
<1>4. ServerOK'
  BY <1>1, <1>3 DEF OtherClient, ServerMap, ServerOK
<1>5. CallersOK'
  BY DEF OtherClient, IInv, CallersOK, CallerOK
<1> QED
  BY <1>4, <1>5 DEF OtherClient, IInv, HeldOK

-----------------------------------------------------------------------------
(* Invalidation, beginnings and ends *)

LEMMA InvalidateOK ==
    ASSUME IInv, NEW c \in Callers, Invalidate(c)
    PROVE  IInv'
<1>1. PICK step \in PlainSteps, b \in BOOLEAN : At(c, step) /\ RemoveLink(c, job[c].l, b)
  BY DEF Invalidate, PlainSteps
<1>2. job[c] # None /\ Step(c) = step /\ CallersOK /\ TableOK(cache)
  BY <1>1, InStep DEF IInv
<1>3. ~RemoveIsFatal(cache, job[c].l, b) /\ TableOK(Remove(cache, job[c].l, b))
  BY <1>2, RemoveNotFatal, RemoveOK
<1>4. /\ cache' = IF EnableCaching THEN Remove(cache, job[c].l, b) ELSE cache
      /\ Proceed(c, job[c])
      /\ UNCHANGED <<process, held>>
  BY <1>1, <1>3 DEF RemoveLink
<1>5. CallersOK'
  BY <1>2, <1>4, ProceedUnchanged DEF PlainSteps
<1>6. TableOK(cache')
  BY <1>2, <1>3, <1>4
<1> QED
  BY <1>4, <1>5, <1>6 DEF Invalidate, IInv, ServerOK, HeldOK

LEMMA ClearOK ==
    ASSUME IInv, NEW c \in Callers, Clear(c)
    PROVE  IInv'
<1>1. job[c] # None /\ Step(c) = "clear" /\ CallersOK /\ TableOK(cache)
  BY InStep DEF Clear, IInv
<1>2. CallersOK'
  BY <1>1, ProceedUnchanged DEF Clear
<1>3. TableOK(cache')
  BY <1>1, EmptyTableOK DEF Clear
<1> QED
  BY <1>2, <1>3 DEF Clear, IInv, ServerOK, HeldOK

LEMMA RequestFailsOK ==
    ASSUME IInv, NEW c \in Callers, RequestFails(c)
    PROVE  IInv'
<1>1. CallersOK'
  BY ReturnOK DEF RequestFails, IInv
<1> QED
  BY <1>1 DEF RequestFails, IInv, ServerOK, HeldOK

\* An operation begins with its link, or with the ID of one, in hand.
LEMMA BeginOK ==
    ASSUME IInv, NEW c \in Callers, Begin(c)
    PROVE  IInv'
<1>1. PICK op \in Ops, l \in Links, d \in Links :
        /\ op \in ByLink => held[c] # None
        /\ LET j == Started(c, op, l, d)
           IN  /\ job'  = [job EXCEPT ![c] = j]
               /\ call' = [call EXCEPT ![c] = Enter(j.op, j.at, j.l, j.d, j.src, j.dst)]
  BY DEF Begin
<1> DEFINE src == IF op \in ByLink THEN held[c] ELSE None
           j == Started(c, op, l, d)
           cl == Enter(j.op, j.at, j.l, j.d, j.src, j.dst)
<1>2. src \in Snapshot \cup {None} /\ (op \in ByLink => src # None)
  BY <1>1 DEF IInv, HeldOK
<1>3. server[l].ver \in Nat
  BY SnapshotIsLink DEF IInv, ServerOK
<1>4. j \in Job
  BY <1>2, <1>3 DEF Started, Job, Snapshot
<1>5. Ready(j, 0)
  BY <1>2 DEF Started, Ready, Done
<1>6. 1 \in 1..Len(Program[op])
  BY ProgramWellOrdered, OpsAssumption
<1>7. JobOK(j)
  BY <1>4, <1>5, <1>6 DEF Started, JobOK
<1>8. j # None
  BY <1>4, NoneAssumption
<1>9. job' = [job EXCEPT ![c] = j] /\ call' = [call EXCEPT ![c] = cl]
  BY <1>1
<1> HIDE DEF j
<1>10. cl \in Call /\ (cl.at # "none" => LookupOK(cl, j))
  BY <1>4, <1>7, EnterOK
<1>11. CallersOK'
  BY <1>4, <1>7, <1>8, <1>9, <1>10, CallerStep DEF IInv
<1> QED
  BY <1>11 DEF Begin, IInv, ServerOK, HeldOK

-----------------------------------------------------------------------------
(* The invariant *)

LEMMA InitOK == Init => IInv
<1> SUFFICES ASSUME Init PROVE IInv
  OBVIOUS
<1>1. ServerOK
  <2>1. ASSUME NEW l \in Links
        PROVE  server[l] \in Snapshot /\ server[l].id = l
    BY ConstantsAssumption DEF Init, Snapshot, Link, Parents
  <2> QED
    BY <2>1 DEF Init, ServerOK
<1>2. TableOK(cache)
  BY EmptyTableOK DEF Init
<1>3. CallersOK
  <2>1. NoCall \in Call
    BY DEF NoCall, Call, Parents
  <2> QED
    BY <2>1 DEF Init, CallersOK, CallerOK
<1> QED
  BY <1>1, <1>2, <1>3 DEF Init, IInv, HeldOK

LEMMA NextOK == IInv /\ [Next]_vars => IInv'
<1> SUFFICES ASSUME IInv, [Next]_vars PROVE IInv'
  OBVIOUS
<1>1. ASSUME NEW c \in Callers, Begin(c) PROVE IInv'
  BY <1>1, BeginOK
<1>2. ASSUME NEW c \in Callers, Continue(c) PROVE IInv'
  <2>1. CASE Lookup(c)
    BY <2>1, CacheLookupOK, FetchOK, InsertFetchedOK, LookupKeyringOK, PlantOK,
       LookupKeyringByIDOK, DecryptOK, DeliverKeyringOK DEF Lookup
  <2>2. CASE Request(c)
    BY <2>2, MoveOK, CreateOK, FindDstOK, ListRootOK, ServerChangesOK, ReadOK DEF Request
  <2>3. CASE RequestFails(c) \/ CheckLink(c) \/ Invalidate(c) \/ Clear(c)
    BY <2>3, RequestFailsOK, ReadOK, InvalidateOK, ClearOK
  <2> QED
    BY <1>2, <2>1, <2>2, <2>3 DEF Continue
<1>3. ASSUME OtherClient PROVE IInv'
  BY <1>3, OtherClientOK
<1>4. ASSUME Restart PROVE IInv'
  BY <1>4 DEF Restart, IInv, ServerOK, CallersOK, CallerOK, HeldOK
<1>5. ASSUME UNCHANGED vars PROVE IInv'
  BY <1>5 DEF vars, IInv, ServerOK, CallersOK, CallerOK, HeldOK
<1> QED
  BY <1>1, <1>2, <1>3, <1>4, <1>5 DEF Next

\* In every reachable state everything the client holds is a snapshot of the
\* server's, registered where it will be looked for, and every lookup is on its
\* way to the node it was started for.
THEOREM Invariance == Spec => []IInv
BY InitOK, NextOK, PTL DEF Spec

\* The types of the state, for every set of links, callers and operations.
THEOREM TypeCorrect == Spec => []TypeOK
<1>1. IInv => TypeOK
  <2> SUFFICES ASSUME IInv PROVE TypeOK
    OBVIOUS
  <2>1. Snapshot \subseteq Link
    BY DEF Snapshot
  <2>2. server \in [Links -> Link] /\ (\A l \in Links : server[l].id = l) /\ changes \in Nat
    BY <2>1 DEF IInv, ServerOK
  <2>3. cache \in Table /\ \A l \in Cached(cache) : cache.data[l].link.id = l
    BY DEF IInv, TableOK, EntryOK
  <2>4. job \in [Callers -> Job \cup {None}] /\ call \in [Callers -> Call]
    BY DEF IInv, CallersOK
  <2>5. held \in [Callers -> Link \cup {None}]
    BY <2>1 DEF IInv, HeldOK
  <2> QED
    BY <2>2, <2>3, <2>4, <2>5 DEF IInv, TypeOK
<1> QED
  BY <1>1, Invariance, PTL

\* _remove_nolock never ends the process: whatever the operations, callers and
\* other clients do in between, the maps of the cache agree.
THEOREM NoFatal == Spec => []NeverFatal
<1>1. IInv => NeverFatal
  BY DEF IInv, NeverFatal
<1> QED
  BY <1>1, Invariance, PTL

\* Every lookup uses the key of the parent that the link's own snapshot names,
\* and the keyrings the cache keeps are their own links'.
THEOREM KeyringsRight == Spec => []KeyringSound
<1>1. IInv => KeyringSound
  <2> SUFFICES ASSUME IInv PROVE KeyringSound
    OBVIOUS
  <2>1. \A l \in Cached(cache) : cache.data[l].kr \in {None, l}
    BY DEF IInv, TableOK, EntryOK
  <2>2. ASSUME NEW c \in Callers, call[c].at = "unwind"
        PROVE  IF call[c].climb # <<>> THEN call[c].kr = Innermost(c).encTo
               ELSE /\ At(c, "krSrcParent") => call[c].kr = job[c].src.encTo
                    /\ At(c, "krDstParent") => call[c].kr = job[c].dst.encTo
                    /\ At(c, "krSrc") => call[c].kr = job[c].src.id
                    /\ At(c, "krDst") => call[c].kr = job[c].dst.id
    <3>1. /\ job[c] # None /\ job[c] \in Job /\ JobOK(job[c])
          /\ call[c] \in Call /\ LookupOK(call[c], job[c])
      BY <2>2, InLookup DEF IInv
    <3>2. call[c].kr = Wanted(call[c], job[c]) /\ Step(c) \in KeyringSteps
      BY <2>2, <3>1 DEF LookupOK, Call, Step
    <3>3. CASE call[c].climb # <<>>
      <4>1. Innermost(c) \in Snapshot
        BY <3>1, <3>3 DEF LookupOK, ClimbOK, Innermost
      <4> QED
        BY <4>1, <3>2, <3>3, SnapshotIsLink DEF Wanted, Innermost
    <3>4. CASE call[c].climb = <<>>
      <4>1. call[c].kr = Goal(job[c])
        BY <3>2, <3>4 DEF Wanted
      <4>2. /\ Step(c) \in {"krSrc", "krSrcParent"} => job[c].src \in Snapshot
            /\ Step(c) \in {"krDst", "krDstParent"} => job[c].dst \in Snapshot
        BY <3>1, ReadyForStep DEF Step
      <4>3. \A step : At(c, step) <=> Step(c) = step
        BY <3>1 DEF At
      <4>4. CASE Step(c) = "krSrc"
        BY <3>4, <4>1, <4>3, <4>4 DEF Goal, Step
      <4>5. CASE Step(c) = "krDst"
        BY <3>4, <4>1, <4>3, <4>5 DEF Goal, Step
      <4>6. CASE Step(c) = "krSrcParent"
        BY <3>4, <4>1, <4>2, <4>3, <4>6, SnapshotIsLink DEF Goal, Step
      <4>7. CASE Step(c) = "krDstParent"
        BY <3>4, <4>1, <4>2, <4>3, <4>7, SnapshotIsLink DEF Goal, Step
      <4> QED
        BY <3>2, <4>4, <4>5, <4>6, <4>7 DEF KeyringSteps
    <3> QED
      BY <3>3, <3>4
  <2> QED
    BY <2>1, <2>2 DEF KeyringSound
<1> QED
  BY <1>1, Invariance, PTL

\* No move and no creation leaves a link that its parent's key cannot open,
\* however stale the snapshots were from which it was re-encrypted.
THEOREM NothingLocked == Spec => []ServerDecryptable
<1>1. IInv => ServerDecryptable
  BY DEF IInv, ServerOK, Snapshot, ServerDecryptable
<1> QED
  BY <1>1, Invariance, PTL
=============================================================================
