------------------------------ MODULE TreeWalk ------------------------------
(***************************************************************************)
(* listDirectoriesRecursively and performSearchByNameRecursively: a walk   *)
(* down the tree that asks for the children of one folder at a time, while *)
(* other clients create, move, trash, restore and delete links.  What the  *)
(* walk holds of a link is what the listing of its parent said.            *)
(*                                                                         *)
(* The server is external: one listing is answered at once, the tree has   *)
(* no loops, and a name is used once among the active and draft links of a *)
(* folder.                                                                 *)
(***************************************************************************)
EXTENDS Integers, Sequences, FiniteSets, SequencesExt

CONSTANTS
    Links,
    Root,       \* protonDrive.RootLink
    Folders,    \* the links that are folders; the others are files
    Name,       \* [Links -> ...]: their names
    NoLink,     \* not a link
    InitTree,   \* [Links -> [parent, state]]: the tree at the start
    Calls,      \* the calls that are made (List and Search below)
    MaxChanges  \* bound: changes made by other clients

States == {"absent", "draft", "active", "trashed"}

\* No two active or draft links of one folder have the same name.
NamesUnique(tree) ==
    \A l, m \in Links :
        /\ l # m /\ tree[l].parent = tree[m].parent /\ tree[l].parent \in Folders
        /\ {tree[l].state, tree[m].state} \subseteq {"draft", "active"}
        => Name[l] # Name[m]

ASSUME TreeAssumption ==
    /\ Root \in Folders /\ Folders \subseteq Links /\ NoLink \notin Links /\ IsFiniteSet(Links)
    /\ Links \cap {"none", "ok", "error"} = {}
    /\ Name \in [Links -> STRING]
    /\ InitTree \in [Links -> [parent : Folders \cup {NoLink}, state : States]]
    /\ InitTree[Root] = [parent |-> NoLink, state |-> "active"]
    /\ NamesUnique(InitTree)
    /\ MaxChanges \in Nat

\* A listing begins at the root, as all that are made do; a search begins at any
\* folder.
ASSUME CallsAssumption ==
    \A c \in Calls :
        \/ /\ c.op = "list" /\ c.start = Root
           /\ c.maxDepth \in Nat \cup {-1} /\ c.excludeRoot \in BOOLEAN
        \/ c.op = "search" /\ c.start \in Links /\ c.drafts \in BOOLEAN

VARIABLES
    server,   \* the tree
    changes,  \* changes made by other clients so far
    call,     \* the call made last, or NoCall
    pc,       \* "idle", "visit" a link, list its "children", go on with the "loop"
    visit,    \* the link passed to the call about to run, as its listing had it
    stack,    \* the calls that are looping over their children
    paths,    \* *paths: what the walk has listed, each as the links on its path
    result,   \* "none", "ok", "error", or the link the search has found
    touched   \* history: the links that have changed since the call began

serverVars == <<server, changes, touched>>
vars == <<serverVars, call, pc, visit, stack, paths, result>>

\* maxDepth = -1 is no limit.
List(start, maxDepth, excludeRoot) ==
    [op |-> "list", start |-> start, maxDepth |-> maxDepth, excludeRoot |-> excludeRoot]

Search(start, target, linkType, drafts) ==
    [op |-> "search", start |-> start, target |-> target, linkType |-> linkType,
     drafts |-> drafts]

NoCall == [op |-> "none"]

Type(l) == IF l \in Folders THEN "folder" ELSE "file"

TypeOK ==
    /\ server \in [Links -> [parent : Folders \cup {NoLink}, state : States]]
    /\ changes \in 0..MaxChanges /\ touched \subseteq Links
    /\ call \in Calls \cup {NoCall}
    /\ pc \in {"idle", "visit", "children", "loop"}
    /\ visit.id \in Links \cup {NoLink} /\ visit.state \in States
    /\ \A k \in DOMAIN stack : /\ stack[k].id \in Folders
                               /\ \A c \in stack[k].todo : c.id \in Links /\ c.state \in States
    /\ paths \in Seq(Seq(Links))
    /\ result \in {"none", "ok", "error"} \cup Links

Nothing == [id |-> NoLink, state |-> "absent"]

Init ==
    /\ server = InitTree /\ changes = 0 /\ touched = {}
    /\ call = NoCall /\ pc = "idle" /\ visit = Nothing /\ stack = <<>>
    /\ paths = <<>> /\ result = "none"

-----------------------------------------------------------------------------
(* The server and other clients *)

Children(l) == {c \in Links : server[c].parent = l /\ server[c].state # "absent"}

\* l is p or above it.
Above(l, p) ==
    LET up[n \in 0..Cardinality(Links)] ==
          IF n = 0 THEN p ELSE IF up[n - 1] = NoLink THEN NoLink ELSE server[up[n - 1]].parent
    IN  l \in {up[n] : n \in DOMAIN up}

\* Among the active and draft children of p, no link but l has its name.
NameFree(l, p) ==
    \A c \in Children(p) \ {l} : server[c].state \in {"draft", "active"} => Name[c] # Name[l]

Change(l, parent, state) ==
    /\ changes < MaxChanges /\ changes' = changes + 1
    /\ server' = [server EXCEPT ![l] = [parent |-> parent, state |-> state]]
    /\ touched' = touched \cup {l}
    /\ UNCHANGED <<call, pc, visit, stack, paths, result>>

Create(l, p) ==
    /\ server[l].state = "absent" /\ server[p].state = "active" /\ NameFree(l, p)
    /\ \E state \in IF l \in Folders THEN {"active"} ELSE {"draft", "active"} : Change(l, p, state)

CommitDraft(l) == server[l].state = "draft" /\ Change(l, server[l].parent, "active")

MoveTo(l, p) ==
    /\ l # Root /\ server[l].state = "active" /\ server[p].state = "active"
    /\ server[l].parent # p /\ ~Above(l, p) /\ NameFree(l, p)
    /\ Change(l, p, "active")

Trash(l) == l # Root /\ server[l].state = "active" /\ Change(l, server[l].parent, "trashed")

Restore(l) ==
    /\ server[l].state = "trashed" /\ NameFree(l, server[l].parent)
    /\ Change(l, server[l].parent, "active")

\* A folder is deleted after what is in it.
Delete(l) ==
    /\ server[l].state \in {"trashed", "draft"} /\ Children(l) = {}
    /\ Change(l, NoLink, "absent")

Others ==
    \E l \in Links :
        \/ CommitDraft(l) \/ Trash(l) \/ Restore(l) \/ Delete(l)
        \/ \E p \in Folders : Create(l, p) \/ MoveTo(l, p)

-----------------------------------------------------------------------------
(* The walk *)

Snapshot(l) == [id |-> l, state |-> server[l].state]

\* The caller has got the link just now.  SearchByNameRecursively refuses files.
Begin(c) ==
    /\ pc = "idle" /\ server[c.start].state # "absent"
    /\ c.op = "search" => c.start \in Folders
    /\ call' = c /\ pc' = "visit" /\ visit' = Snapshot(c.start)
    /\ paths' = <<>> /\ result' = "none" /\ touched' = {}
    /\ UNCHANGED <<server, changes, stack>>

Depth == Len(stack)

Top == stack[Depth]

End(how) ==
    /\ pc' = "idle" /\ visit' = Nothing /\ stack' = <<>> /\ result' = how

\* The states in which a link is walked through
Walked == IF call.op = "search" /\ call.drafts THEN {"active", "draft"} ELSE {"active"}

\* Keyrings are looked up, names decrypted and, if asked for, files downloaded
\* and written: each can fail, and ends the whole walk.
WalkFails ==
    /\ (pc = "visit" /\ visit.state \in Walked) \/ pc = "children"
    /\ End("error")
    /\ UNCHANGED <<serverVars, call, paths>>

\* The call for a link returns at once.
Pass ==
    /\ pc = "visit" /\ visit.state \notin Walked
    /\ pc' = "loop" /\ visit' = Nothing
    /\ UNCHANGED <<serverVars, call, stack, paths, result>>

Excluded == call.excludeRoot /\ Depth = 0

\* (Variants named *_Mutant are the definition below them with a defect; the
\* specification does not use them.)
\* pathSoFar is that of the root at every level.
CurrentPath_Mutant == IF Excluded THEN <<>> ELSE <<visit.id>>

\* The path of the link visited; that of an excluded root is empty.
CurrentPath == IF Excluded THEN <<>>
               ELSE (IF Depth = 0 THEN <<>> ELSE Top.path) \o <<visit.id>>

\* One level too few.
Deeper_Mutant == visit.id \in Folders /\ (call.maxDepth = -1 \/ Depth + 1 < call.maxDepth)

\* Files are asked for their children too.
DeeperAny_Mutant == call.maxDepth = -1 \/ Depth < call.maxDepth

Deeper == visit.id \in Folders /\ (call.maxDepth = -1 \/ Depth < call.maxDepth)

ListVisit ==
    /\ pc = "visit" /\ call.op = "list" /\ visit.state \in Walked
    /\ paths' = IF Excluded THEN paths ELSE Append(paths, CurrentPath)
    /\ IF Deeper THEN pc' = "children" /\ UNCHANGED visit
                 ELSE pc' = "loop" /\ visit' = Nothing
    /\ UNCHANGED <<serverVars, call, stack, result>>

Matches == Type(visit.id) = call.linkType /\ Name[visit.id] = call.target

\* A draft of the name is passed over.
SearchVisit_Mutant ==
    /\ pc = "visit" /\ call.op = "search" /\ visit.state \in Walked
    /\ IF Matches /\ visit.state = "active" THEN End(visit.id)
       ELSE IF visit.id \in Folders
            THEN pc' = "children" /\ UNCHANGED <<visit, stack, result>>
            ELSE pc' = "loop" /\ visit' = Nothing /\ UNCHANGED <<stack, result>>
    /\ UNCHANGED <<serverVars, call, paths>>

SearchVisit ==
    /\ pc = "visit" /\ call.op = "search" /\ visit.state \in Walked
    /\ IF Matches THEN End(visit.id)
       ELSE IF visit.id \in Folders
            THEN pc' = "children" /\ UNCHANGED <<visit, stack, result>>
            ELSE pc' = "loop" /\ visit' = Nothing /\ UNCHANGED <<stack, result>>
    /\ UNCHANGED <<serverVars, call, paths>>

\* ListChildren of the folder, of all states; a folder deleted meanwhile has none
\* to list.
ListChildren ==
    /\ pc = "children"
    /\ IF server[visit.id].state = "absent"
       THEN End("error")
       ELSE /\ stack' = Append(stack, [id |-> visit.id,
                                       path |-> IF call.op = "list" THEN CurrentPath ELSE <<>>,
                                       todo |-> {Snapshot(c) : c \in Children(visit.id)}])
            /\ pc' = "loop" /\ visit' = Nothing /\ UNCHANGED result
    /\ UNCHANGED <<serverVars, call, paths>>

\* The loop does not go on to the next child.
NextChild_Mutant ==
    /\ pc = "loop" /\ stack # <<>>
    /\ \E c \in Top.todo : visit' = c
    /\ pc' = "visit"
    /\ UNCHANGED <<serverVars, call, stack, paths, result>>

\* The next child, in whatever order the server listed them
NextChild ==
    /\ pc = "loop" /\ stack # <<>>
    /\ \E c \in Top.todo :
         /\ visit' = c
         /\ stack' = [stack EXCEPT ![Depth].todo = @ \ {c}]
    /\ pc' = "visit"
    /\ UNCHANGED <<serverVars, call, paths, result>>

\* The loop of the innermost call is over: it returns to the one that called it.
LoopEnds ==
    /\ pc = "loop" /\ stack # <<>> /\ Top.todo = {}
    /\ stack' = Front(stack)
    /\ UNCHANGED <<serverVars, call, pc, visit, paths, result>>

WalkEnds ==
    /\ pc = "loop" /\ stack = <<>>
    /\ End("ok")
    /\ UNCHANGED <<serverVars, call, paths>>

Walk ==
    \/ WalkFails \/ Pass \/ ListVisit \/ SearchVisit \/ ListChildren \/ NextChild
    \/ LoopEnds \/ WalkEnds

Next == Others \/ (\E c \in Calls : Begin(c)) \/ Walk

Spec == Init /\ [][Next]_vars

\* The walk is one goroutine, and each request is answered or fails.
FairSpec == Spec /\ WF_vars(Walk)

-----------------------------------------------------------------------------
(* Properties *)

\* Whatever other clients do, the walk cannot have an excuse for a link that has
\* not changed since it began and is of a state it walks through.
Stable(l) == l \notin touched /\ server[l].state \in Walked

\* The paths of such links that go n levels down from the one the walk began with
Down[n \in 0..Cardinality(Links)] ==
    IF n = 0 THEN {<<l>> : l \in {l \in {call.start} : Stable(l)}}
    ELSE {Append(p[1], p[2]) : p \in {p \in Down[n - 1] \X Links :
            Stable(p[2]) /\ server[p[2]].parent = Last(p[1])}}

StablePaths == UNION {Down[n] : n \in DOMAIN Down}

ListingDone == pc = "idle" /\ call.op = "list" /\ result = "ok"

\* What StablePaths asks the listing for, as it writes it
ToList ==
    LET within == {p \in StablePaths : call.maxDepth = -1 \/ Len(p) - 1 <= call.maxDepth}
    IN  IF call.excludeRoot THEN {Tail(p) : p \in {p \in within : Len(p) > 1}} ELSE within

\* A listing that reports no error has each link that stayed where it was, once
\* and under its own path, and goes no deeper than asked.
ListsStableOnce ==
    ListingDone =>
        /\ \A p \in ToList : \A k \in DOMAIN paths : Last(paths[k]) = Last(p) => paths[k] = p
        /\ \A p \in ToList : Cardinality({k \in DOMAIN paths : paths[k] = p}) = 1
        /\ call.maxDepth # -1 => \A k \in DOMAIN paths :
              Len(paths[k]) <= call.maxDepth + (IF call.excludeRoot THEN 0 ELSE 1)

\* No two links are listed under the same names, so that a download of the tree
\* does not write one file over another or make a directory twice.
PathsDistinct ==
    call.op = "list" =>
        \A j, k \in DOMAIN paths : j # k =>
            [n \in DOMAIN paths[j] |-> Name[paths[j][n]]]
                # [n \in DOMAIN paths[k] |-> Name[paths[k][n]]]

\* A search that answers nil has not passed over a link that was there, in its
\* place, all the time.
NilMeansAbsent ==
    pc = "idle" /\ call.op = "search" /\ result = "ok" =>
        \A p \in StablePaths : ~(Type(Last(p)) = call.linkType /\ Name[Last(p)] = call.target)

\* The walk returns, although other clients may move folders it has been to
\* below one it has yet to list.
WalkReturns == pc # "idle" ~> pc = "idle"
=============================================================================
