--------------------------- MODULE TreeWalkProofs ---------------------------
(***************************************************************************)
(* Proofs about TreeWalk: trees of any shape and depth, any names, calls   *)
(* of any number and depth, any number of changes made by other clients    *)
(* while a walk is under way.                                              *)
(***************************************************************************)
EXTENDS TreeWalk, FiniteSetTheorems, SequenceTheorems, WellFoundedInduction, TLAPS

Below == {p \in Nat \X Nat : p[1] < p[2]}

LEMMA BelowWellFounded == IsWellFoundedOn(Below, Nat)
BY NatLessThanWellFounded, Zenon DEF Below, OpToRel

LEMMA LeastElement ==
    ASSUME NEW T, T \subseteq Nat, T # {}
    PROVE  \E m \in T : \A k \in T : m <= k
<1>1. PICK m \in T : \A k \in T : <<k, m>> \notin Below
  BY BelowWellFounded, WFMin
<1>2. ASSUME NEW k \in T PROVE m <= k
  <2>1. k \in Nat /\ m \in Nat
    OBVIOUS
  <2>2. ~(k < m)
    BY <1>1, <2>1 DEF Below
  <2> QED BY <2>1, <2>2
<1> QED BY <1>2

LEMMA LinksFinite == Cardinality(Links) \in Nat
BY TreeAssumption, FS_CardinalityType

\* One level of Down from the one above
NextLevel(level) ==
    {Append(p[1], p[2]) : p \in {p \in level \X Links :
        Stable(p[2]) /\ server[p[2]].parent = Last(p[1])}}

FirstLevel == {<<l>> : l \in {l \in {call.start} : Stable(l)}}

\* The definition of Down by recursion defines a function.
LEMMA DownDefined ==
    Down = [n \in 0..Cardinality(Links) |-> IF n = 0 THEN FirstLevel ELSE NextLevel(Down[n - 1])]
<1> DEFINE N == Cardinality(Links)
           Levels(f, m) == f = [n \in 0..m |-> IF n = 0 THEN FirstLevel ELSE NextLevel(f[n - 1])]
           Bad == {m \in Nat : ~ \E f : Levels(f, m)}
<1>1. SUFFICES \E f : Levels(f, N)
  <2>1. Down = CHOOSE f : Levels(f, N)
    BY DEF Down, FirstLevel, NextLevel
  <2> QED BY <2>1
<1>2. Bad = {}
  <2>1. SUFFICES ASSUME Bad # {} PROVE FALSE
    OBVIOUS
  <2>2. PICK m \in Bad : \A k \in Bad : m <= k
    BY <2>1, LeastElement
  <2>3. m \in Nat /\ ~ \E f : Levels(f, m)
    OBVIOUS
  <2>4. m # 0
    <3>1. Levels([n \in 0..0 |-> FirstLevel], 0)
      OBVIOUS
    <3> QED BY <3>1, <2>3
  <2>5. m - 1 \in Nat /\ m - 1 \notin Bad
    BY <2>2, <2>3, <2>4
  <2>6. PICK f : Levels(f, m - 1)
    BY <2>5
  <2> DEFINE g == [n \in 0..m |-> IF n = 0 THEN FirstLevel ELSE NextLevel(f[n - 1])]
  <2>7. \A n \in 0..(m - 1) : g[n] = f[n]
    BY <2>3, <2>6
  <2>8. Levels(g, m)
    <3>1. ASSUME NEW n \in 0..m, n # 0 PROVE g[n - 1] = f[n - 1]
      <4>1. n - 1 \in 0..(m - 1)
        BY <2>3, <3>1
      <4> HIDE DEF g
      <4> QED BY <4>1, <2>7
    <3> QED BY <3>1
  <2> QED BY <2>3, <2>8
<1> QED BY <1>2, LinksFinite

\* The paths StablePaths has, without the recursion
StablePath(p) ==
    /\ p \in Seq(Links) /\ p # <<>> /\ p[1] = call.start
    /\ \A n \in 1..Len(p) : Stable(p[n])
    /\ \A n \in 2..Len(p) : server[p[n]].parent = p[n - 1]

LEMMA StablePathsAre ==
    ASSUME call.start \in Links PROVE \A p \in StablePaths : StablePath(p)
<1> DEFINE N == Cardinality(Links)
           Bad == {n \in Nat : n <= N /\ \E p \in Down[n] : ~StablePath(p)}
<1>1. Bad = {}
  <2>1. SUFFICES ASSUME Bad # {} PROVE FALSE
    OBVIOUS
  <2>2. PICK n \in Bad : \A k \in Bad : n <= k
    BY <2>1, LeastElement
  <2>3. n \in 0..N /\ n \in Nat
    BY LinksFinite
  <2>4. PICK p \in Down[n] : ~StablePath(p)
    OBVIOUS
  <2>5. CASE n = 0
    <3>1. Down[n] = FirstLevel
      BY <2>3, <2>5, DownDefined
    <3>2. p = <<call.start>> /\ Stable(call.start)
      BY <2>4, <3>1 DEF FirstLevel
    <3> QED BY <2>4, <3>2 DEF StablePath
  <2>6. CASE n # 0
    <3>1. Down[n] = NextLevel(Down[n - 1])
      BY <2>3, <2>6, DownDefined
    <3>2. PICK q \in Down[n - 1], l \in Links :
            p = Append(q, l) /\ Stable(l) /\ server[l].parent = Last(q)
      BY <2>4, <3>1 DEF NextLevel
    <3>3. StablePath(q)
      <4>1. n - 1 \in Nat /\ n - 1 <= N /\ ~(n <= n - 1)
        BY <2>3, <2>6, LinksFinite
      <4>2. n - 1 \notin Bad
        BY <2>2, <4>1
      <4> QED BY <4>1, <4>2
    <3> HIDE DEF Bad
    <3> DEFINE m == Len(q)
    <3>4. /\ q \in Seq(Links) /\ m \in Nat /\ m > 0 /\ q[1] = call.start
          /\ \A k \in 1..m : Stable(q[k])
          /\ \A k \in 2..m : server[q[k]].parent = q[k - 1]
      BY <3>3, EmptySeq DEF StablePath
    <3>5. /\ p \in Seq(Links) /\ Len(p) = m + 1 /\ p[m + 1] = l
          /\ \A k \in 1..m : p[k] = q[k]
      BY <3>2, <3>4, AppendProperties
    <3>6. p # <<>> /\ p[1] = call.start
      BY <3>4, <3>5
    <3>7. server[l].parent = q[m]
      BY <3>2 DEF Last
    <3> HIDE DEF m
    <3>8. ASSUME NEW k \in 1..(m + 1) PROVE Stable(p[k])
      <4>1. k \in 1..m \/ k = m + 1
        BY <3>4
      <4> QED BY <3>2, <3>4, <3>5, <4>1
    <3>9. ASSUME NEW k \in 2..(m + 1) PROVE server[p[k]].parent = p[k - 1]
      <4>1. CASE k = m + 1
        <5>1. k - 1 \in 1..m /\ k - 1 = m
          BY <3>4, <4>1
        <5> QED BY <3>5, <3>7, <4>1, <5>1
      <4>2. CASE k # m + 1
        <5>1. k \in 2..m /\ k \in 1..m /\ k - 1 \in 1..m
          BY <3>4, <4>2
        <5> QED BY <3>4, <3>5, <5>1
      <4> QED BY <4>1, <4>2
    <3> QED BY <2>4, <3>5, <3>6, <3>8, <3>9 DEF StablePath
  <2> QED BY <2>5, <2>6
<1>2. ASSUME NEW n \in 0..N, NEW p \in Down[n] PROVE StablePath(p)
  <2>1. n \in Nat /\ n <= N
    BY LinksFinite
  <2>2. n \notin Bad
    BY <1>1
  <2> QED BY <2>1, <2>2
<1>3. DOMAIN Down = 0..N
  BY DownDefined
<1> QED BY <1>2, <1>3 DEF StablePaths

-----------------------------------------------------------------------------
(* The invariant *)

Snap  == [id : Links, state : States]
Frame == [id : Folders, path : Seq(Links), todo : SUBSET Snap]

Typed ==
    /\ server \in [Links -> [parent : Folders \cup {NoLink}, state : States]]
    /\ changes \in 0..MaxChanges /\ touched \subseteq Links
    /\ call \in Calls \cup {NoCall}
    /\ pc \in {"idle", "visit", "children", "loop"}
    /\ visit \in Snap \cup {Nothing}
    /\ stack \in Seq(Frame)
    /\ paths \in Seq(Seq(Links))
    /\ result \in {"none", "ok", "error"} \cup Links

\* The root stays where it is, and names stay unique.
ServerOK ==
    /\ NamesUnique(server)
    /\ server[Root].parent = NoLink /\ server[Root].state = "active" /\ Root \notin touched

Listing == call.op = "list"

\* The link is one that the search looks for.
Sought(l) == Type(l) = call.linkType /\ Name[l] = call.target

InDepth(n) == call.maxDepth = -1 \/ n < call.maxDepth

ControlOK ==
    /\ pc = "idle" => stack = <<>>
    /\ pc # "idle" => call \in Calls
    /\ pc \in {"visit", "children"} => visit \in Snap /\ (Depth = 0 => visit.id = call.start)
    /\ pc = "children" =>
         /\ visit.id \in Folders /\ visit.state \in Walked
         /\ call.op = "search" => ~Sought(visit.id)
         /\ Listing => /\ InDepth(Depth)
                       /\ Excluded \/ \E j \in DOMAIN paths : Last(paths[j]) = visit.id

\* Of a link that has not changed, the walk holds what the server has.
SnapshotsOK ==
    /\ \A k \in DOMAIN stack : \A c \in stack[k].todo :
         c.id \notin touched =>
             server[c.id].state = c.state /\ server[c.id].parent = stack[k].id
    /\ pc \in {"visit", "children"} /\ visit.id \notin touched =>
         /\ server[visit.id].state = visit.state
         /\ Depth > 0 => server[visit.id].parent = Top.id

\* The walk is yet to look at the link, or at what is below it.
Pending(l) ==
    \/ pc \in {"visit", "children"} /\ visit.id = l
    \/ \E k \in DOMAIN stack : \E c \in stack[k].todo : c.id = l

\* A search has the way to every stable link it looks for still before it.
SearchCovers ==
    call.op = "search" /\ (pc # "idle" \/ result = "ok") =>
        \A p : StablePath(p) /\ Sought(Last(p)) => \E n \in 1..Len(p) : Pending(p[n])

\* The paths that a listing has to write
Required(p) ==
    /\ call.maxDepth = -1 \/ Len(p) - 1 <= call.maxDepth
    /\ call.excludeRoot => Len(p) > 1

\* A listing has written each, or has the way to it still before it.
ListCovers ==
    pc # "idle" \/ result = "ok" =>
        \A p : StablePath(p) /\ Required(p) =>
            \/ \E n \in 1..Len(p) : Pending(p[n])
            \/ \E j \in DOMAIN paths : Last(paths[j]) = Last(p)

\* Links of a path that the listing leaves out
Cut == IF call.excludeRoot THEN 1 ELSE 0

Before(q, n) == IF n > 1 THEN q[n - 1] ELSE IF call.excludeRoot THEN Root ELSE NoLink

\* On a path as the listing writes it, each link that has not changed is in the
\* folder before it.
Chain(q) == \A n \in 1..Len(q) : q[n] \notin touched => server[q[n]].parent = Before(q, n)

ChainsOK ==
    /\ \A k \in DOMAIN stack : /\ Chain(stack[k].path) /\ Len(stack[k].path) = k - Cut
                               /\ stack[k].id = IF k > Cut THEN Last(stack[k].path) ELSE Root
    /\ \A j \in DOMAIN paths : Chain(paths[j]) /\ paths[j] # <<>>

DepthOK ==
    call.maxDepth # -1 =>
        /\ Len(stack) <= call.maxDepth
        /\ \A j \in DOMAIN paths : Len(paths[j]) <= call.maxDepth + 1 - Cut

\* The names on path q begin with those on path p.
Under(q, p) == Len(p) <= Len(q) /\ \A n \in 1..Len(p) : Name[q[n]] = Name[p[n]]

ActiveTodo(k) == {c \in stack[k].todo : c.state = "active"}

\* No path written begins with the names of one that is still to be walked, and
\* the names still to be walked in a folder are not that of another one in it.
NamesOK ==
    /\ \A j, k \in DOMAIN paths :
         j # k => ~(Len(paths[j]) = Len(paths[k]) /\ Under(paths[j], paths[k]))
    /\ \A k \in DOMAIN stack : \A c \in ActiveTodo(k) :
         /\ \A j \in DOMAIN paths : ~Under(paths[j], Append(stack[k].path, c.id))
         /\ \A d \in ActiveTodo(k) : c # d => Name[c.id] # Name[d.id]
         /\ \A m \in DOMAIN stack : m > k =>
              /\ Len(stack[m].path) > Len(stack[k].path)
              /\ Name[stack[m].path[Len(stack[k].path) + 1]] # Name[c.id]
    /\ pc \in {"visit", "children"} /\ visit.state = "active" =>
         /\ Depth > 0 => \A c \in ActiveTodo(Depth) : Name[c.id] # Name[visit.id]
         /\ \A j \in DOMAIN paths :
              Under(paths[j], CurrentPath) => pc = "children" /\ Len(paths[j]) = Len(CurrentPath)

IInv ==
    /\ Typed /\ ServerOK /\ ControlOK /\ SnapshotsOK /\ SearchCovers
    /\ Listing => ListCovers /\ ChainsOK /\ DepthOK /\ NamesOK

-----------------------------------------------------------------------------
(* Facts about calls, the stack and the steps of other clients *)

LEMMA RootIs == Root \in Links /\ Root \in Folders /\ Root # NoLink /\ NoLink \notin Folders
BY TreeAssumption

LEMMA CallIs ==
    ASSUME NEW c \in Calls
    PROVE  /\ c.start \in Links /\ c.op \in {"list", "search"}
           /\ c.op = "list" => /\ c.start = Root /\ c.maxDepth \in Nat \cup {-1}
                               /\ c.excludeRoot \in BOOLEAN
           /\ c.op = "search" => c.drafts \in BOOLEAN
BY CallsAssumption, RootIs

LEMMA NoCallIs == NoCall.op = "none"
BY DEF NoCall

LEMMA DepthIs ==
    ASSUME Typed
    PROVE  /\ Depth \in Nat /\ Len(stack) = Depth /\ DOMAIN stack = 1..Depth
           /\ \A k \in 1..Depth : stack[k] \in Frame
           /\ Depth = 0 <=> stack = <<>>
           /\ stack # <<>> => Depth \in 1..Depth /\ Top = stack[Depth] /\ Top \in Frame
<1>1. stack \in Seq(Frame)
  BY DEF Typed
<1>2. Depth \in Nat /\ DOMAIN stack = 1..Depth
  BY <1>1, LenProperties DEF Depth
<1>3. \A k \in 1..Depth : stack[k] \in Frame
  BY <1>1, ElementOfSeq DEF Depth
<1>4. Depth = 0 <=> stack = <<>>
  BY <1>1, EmptySeq DEF Depth
<1> QED BY <1>1, <1>2, <1>3, <1>4 DEF Top, Depth

\* Push
LEMMA Pushed ==
    ASSUME Typed, NEW f \in Frame
    PROVE  /\ Append(stack, f) \in Seq(Frame) /\ Len(Append(stack, f)) = Depth + 1
           /\ \A k \in 1..Depth : Append(stack, f)[k] = stack[k]
           /\ Append(stack, f)[Depth + 1] = f
BY AppendProperties DEF Typed, Depth

\* Pop
LEMMA Popped ==
    ASSUME Typed, stack # <<>>
    PROVE  /\ Front(stack) \in Seq(Frame) /\ Len(Front(stack)) = Depth - 1
           /\ \A k \in 1..(Depth - 1) : Front(stack)[k] = stack[k]
<1>1. Depth \in Nat /\ Depth > 0 /\ stack \in Seq(Frame)
  BY DepthIs DEF Typed
<1>2. Depth - 1 \in Nat /\ Depth - 1 <= Len(stack)
  BY <1>1 DEF Depth
<1>3. Front(stack) = SubSeq(stack, 1, Depth - 1)
  BY DEF Front, Depth
<1>4. SubSeq(stack, 1, Depth - 1) \in Seq(Frame)
  BY <1>1, <1>2, SubSeqProperties DEF Depth
<1> DEFINE sub == SubSeq(stack, 1, Depth - 1)
<1>5. Len(sub) = Depth - 1 /\ \A k \in 1..(Depth - 1) : sub[k] = stack[k]
  <2>1. 1 \in 1..(Len(stack) + 1) /\ Depth - 1 \in 0..Len(stack)
    BY <1>1, <1>2 DEF Depth
  <2>2. /\ Len(sub) = IF 1 <= Depth - 1 THEN (Depth - 1) - 1 + 1 ELSE 0
        /\ \A k \in 1..((Depth - 1) - 1 + 1) : sub[k] = stack[1 + k - 1]
    BY <1>1, <2>1, SubSeqProperties
  <2> HIDE DEF sub
  <2> QED BY <1>1, <1>2, <2>2
<1> QED BY <1>3, <1>4, <1>5

LEMMA Taken ==
    ASSUME Typed, stack # <<>>, NEW c \in Top.todo,
           stack' = [stack EXCEPT ![Depth].todo = @ \ {c}]
    PROVE  /\ c \in Snap /\ stack' \in Seq(Frame) /\ Len(stack') = Depth
           /\ \A k \in 1..Depth :
                /\ stack'[k].id = stack[k].id /\ stack'[k].path = stack[k].path
                /\ stack'[k].todo = IF k = Depth THEN stack[k].todo \ {c} ELSE stack[k].todo
<1>1. /\ stack \in Seq(Frame) /\ Depth \in Nat /\ Len(stack) = Depth /\ DOMAIN stack = 1..Depth
      /\ Top = stack[Depth] /\ Top \in Frame /\ Depth \in 1..Depth
      /\ \A k \in 1..Depth : stack[k] \in Frame
  BY DepthIs DEF Typed
<1>2. c \in Snap
  BY <1>1 DEF Frame
<1> DEFINE f == [id |-> Top.id, path |-> Top.path, todo |-> Top.todo \ {c}]
<1>3. f \in Frame
  BY <1>1 DEF Frame
<1>4. stack' = [k \in 1..Depth |-> IF k = Depth THEN f ELSE stack[k]]
  <2>1. [stack[Depth] EXCEPT !.todo = stack[Depth].todo \ {c}] = f
    <3>1. ASSUME NEW t \in Frame, NEW rest
          PROVE  [t EXCEPT !.todo = rest] = [id |-> t.id, path |-> t.path, todo |-> rest]
      BY DEF Frame
    <3>2. [Top EXCEPT !.todo = Top.todo \ {c}] = f
      BY <1>1, <3>1
    <3> QED BY <1>1, <3>2
  <2>2. stack = [k \in 1..Depth |-> stack[k]]
    BY <1>1
  <2> HIDE DEF f
  <2> QED BY <1>1, <2>1, <2>2
<1>5. f.id = Top.id /\ f.path = Top.path /\ f.todo = Top.todo \ {c}
  OBVIOUS
<1> HIDE DEF f
<1>6. \A k \in 1..Depth : stack'[k] = IF k = Depth THEN f ELSE stack[k]
  BY <1>4
<1>7. stack' \in Seq(Frame) /\ Len(stack') = Depth
  <2>1. stack' \in [1..Depth -> Frame]
    BY <1>1, <1>3, <1>4
  <2> QED BY <2>1, <1>1, SeqDef, LenProperties
<1> QED BY <1>1, <1>2, <1>5, <1>6, <1>7

\* What a change by another client does
LEMMA OthersChange ==
    ASSUME Typed, ServerOK, Others
    PROVE  /\ \E l \in Links \ {Root} :
                /\ touched' = touched \cup {l}
                /\ \A m \in Links \ {l} : server'[m] = server[m]
           /\ server' \in [Links -> [parent : Folders \cup {NoLink}, state : States]]
           /\ changes' \in 0..MaxChanges
           /\ NamesUnique(server)'
           /\ UNCHANGED <<call, pc, visit, stack, paths, result>>
<1> DEFINE Holds(l) == server[l].parent \in Folders \cup {NoLink}
           Live(s) == s \in {"draft", "active"}
<1>1. \A l \in Links : server[l] \in [parent : Folders \cup {NoLink}, state : States]
  BY DEF Typed
<1>2. ASSUME NEW l \in Links \ {Root}, NEW p \in Folders \cup {NoLink}, NEW s \in States,
             Change(l, p, s),
             Live(s) => \/ NameFree(l, p)
                        \/ p = server[l].parent /\ Live(server[l].state)
      PROVE  /\ \E k \in Links \ {Root} :
                   /\ touched' = touched \cup {k}
                   /\ \A m \in Links \ {k} : server'[m] = server[m]
             /\ server' \in [Links -> [parent : Folders \cup {NoLink}, state : States]]
             /\ changes' \in 0..MaxChanges
             /\ NamesUnique(server)'
             /\ UNCHANGED <<call, pc, visit, stack, paths, result>>
  <2>1. /\ touched' = touched \cup {l}
        /\ \A m \in Links \ {l} : server'[m] = server[m]
        /\ server'[l].parent = p /\ server'[l].state = s
    BY <1>2 DEF Change, Typed
  <2>2. server' \in [Links -> [parent : Folders \cup {NoLink}, state : States]]
    BY <1>2 DEF Change, Typed
  <2>3. changes' \in 0..MaxChanges
    BY <1>2, TreeAssumption DEF Change, Typed
  <2>4. ASSUME NEW m \in Links \ {l}, server'[m].parent = p, p \in Folders,
               Live(server'[m].state), Live(s)
        PROVE  Name[m] # Name[l]
    <3>1. server[m].parent = p /\ Live(server[m].state)
      BY <2>1, <2>4
    <3>2. CASE NameFree(l, p)
      BY <3>1, <3>2 DEF NameFree, Children
    <3>3. CASE p = server[l].parent /\ Live(server[l].state)
      BY <2>4, <3>1, <3>3 DEF ServerOK, NamesUnique
    <3> QED BY <1>2, <2>4, <3>2, <3>3
  <2>5. ASSUME NEW x \in Links, NEW y \in Links, x # y, server'[x].parent = server'[y].parent,
               server'[x].parent \in Folders, Live(server'[x].state), Live(server'[y].state)
        PROVE  Name[x] # Name[y]
    <3>1. CASE x = l
      BY <2>1, <2>4, <2>5, <3>1
    <3>2. CASE y = l
      <4>1. Name[x] # Name[l]
        BY <2>1, <2>4, <2>5, <3>2
      <4> QED BY <4>1, <3>2
    <3>3. CASE x # l /\ y # l
      BY <2>1, <2>5, <3>3 DEF ServerOK, NamesUnique
    <3> QED BY <3>1, <3>2, <3>3
  <2>6. NamesUnique(server)'
    BY <2>5 DEF NamesUnique
  <2> QED BY <1>2, <2>1, <2>2, <2>3, <2>6 DEF Change
<1>3. PICK l \in Links : \/ CommitDraft(l) \/ Trash(l) \/ Restore(l) \/ Delete(l)
                         \/ \E p \in Folders : Create(l, p) \/ MoveTo(l, p)
  BY DEF Others
<1>4. server[l].parent \in Folders \cup {NoLink} /\ server[Root].state = "active"
  BY <1>1 DEF ServerOK
<1>5. CASE CommitDraft(l)
  BY <1>2, <1>4, <1>5 DEF CommitDraft, States
<1>6. CASE Trash(l)
  BY <1>2, <1>4, <1>6 DEF Trash, States
<1>7. CASE Restore(l)
  BY <1>2, <1>4, <1>7 DEF Restore, States
<1>8. CASE Delete(l)
  BY <1>2, <1>4, <1>8 DEF Delete, States
<1>9. ASSUME NEW p \in Folders, Create(l, p)
      PROVE  \E s \in States : Change(l, p, s) /\ NameFree(l, p)
  BY <1>9 DEF Create, States
<1>10. ASSUME NEW p \in Folders, Create(l, p) PROVE l # Root
  BY <1>4, <1>10 DEF Create
<1>11. ASSUME NEW p \in Folders, MoveTo(l, p)
       PROVE  l # Root /\ Change(l, p, "active") /\ NameFree(l, p)
  BY <1>11 DEF MoveTo
<1> HIDE DEF Live
<1>12. CASE \E p \in Folders : Create(l, p)
  <2>1. PICK p \in Folders : Create(l, p)
    BY <1>12
  <2>2. PICK s \in States : Change(l, p, s) /\ NameFree(l, p)
    BY <1>9, <2>1
  <2> QED BY <1>2, <1>10, <2>1, <2>2
<1>13. CASE \E p \in Folders : MoveTo(l, p)
  <2>1. PICK p \in Folders : MoveTo(l, p)
    BY <1>13
  <2>2. l # Root /\ Change(l, p, "active") /\ NameFree(l, p) /\ "active" \in States
    BY <1>11, <2>1 DEF States
  <2> QED BY <1>2, <2>2
<1> QED BY <1>3, <1>5, <1>6, <1>7, <1>8, <1>12, <1>13

LEMMA Empty ==
    /\ <<>> \in Seq(Frame) /\ <<>> \in Seq(Links) /\ <<>> \in Seq(Seq(Links)) /\ Len(<<>>) = 0
<1> DEFINE none == <<>>
<1>1. \A S : none \in Seq(S) /\ Len(none) = 0
  BY EmptySeq
<1> HIDE DEF none
<1>2. none \in Seq(Frame) /\ none \in Seq(Links) /\ none \in Seq(Seq(Links)) /\ Len(none) = 0
  BY <1>1
<1> QED BY <1>2 DEF none

\* The path above the link visited
Base == IF Depth = 0 THEN <<>> ELSE Top.path

LEMMA PathIs ==
    ASSUME Typed, visit \in Snap
    PROVE  /\ Base \in Seq(Links) /\ CurrentPath \in Seq(Links)
           /\ Excluded => CurrentPath = <<>>
           /\ ~Excluded => CurrentPath = Append(Base, visit.id)
<1>1. Base \in Seq(Links)
  BY DepthIs, Empty DEF Base, Frame
<1>2. visit.id \in Links
  BY DEF Snap
<1>3. Base \o <<visit.id>> = Append(Base, visit.id)
  BY <1>1, <1>2, AppendIsConcat
<1>4. Append(Base, visit.id) \in Seq(Links)
  BY <1>1, <1>2, AppendProperties
<1> QED BY <1>1, <1>3, <1>4, Empty DEF CurrentPath, Base

LEMMA SnapshotIs ==
    ASSUME Typed, NEW l \in Links
    PROVE  Snapshot(l) \in Snap /\ Snapshot(l).id = l /\ Snapshot(l).state = server[l].state
BY DEF Snapshot, Typed, Snap

LEMMA NothingIs == Nothing \notin Snap /\ Nothing.id = NoLink /\ Nothing.state = "absent"
BY TreeAssumption DEF Nothing, Snap

LEMMA InitTyped == Init => Typed
BY Empty, TreeAssumption DEF Init, Typed

LEMMA TypedNext ==
    ASSUME Typed, ServerOK, ControlOK, [Next]_vars
    PROVE  Typed'
<1> DEFINE Ended(how) == /\ End(how) /\ how \in {"none", "ok", "error"} \cup Links
                         /\ UNCHANGED <<server, changes, touched, call, paths>>
<1>1. ASSUME NEW how, Ended(how) PROVE Typed'
  BY <1>1, Empty DEF End, Typed, Frame, Snap
<1>2. CASE UNCHANGED vars
  BY <1>2 DEF vars, serverVars, Typed, Frame, Snap
<1>3. CASE Others
  <2>1. touched' \subseteq Links
    BY <1>3, OthersChange DEF Typed
  <2> QED BY <1>3, <2>1, OthersChange DEF Typed, Frame, Snap
<1>4. ASSUME NEW c \in Calls, Begin(c) PROVE Typed'
  <2>1. c.start \in Links
    BY CallIs
  <2>2. visit' \in Snap
    BY <1>4, <2>1, SnapshotIs DEF Begin
  <2> QED BY <1>4, <2>2, Empty DEF Begin, Typed, Frame, Snap
<1>5. CASE WalkFails
  BY <1>1, <1>5 DEF WalkFails, serverVars
<1>6. CASE Pass
  BY <1>6 DEF Pass, serverVars, Typed, Frame, Snap
<1>7. CASE ListVisit
  <2>1. visit \in Snap
    BY <1>7 DEF ListVisit, ControlOK
  <2>2. paths' \in Seq(Seq(Links))
    <3>1. CurrentPath \in Seq(Links)
      BY <2>1, PathIs
    <3>2. Append(paths, CurrentPath) \in Seq(Seq(Links))
      BY <3>1, AppendProperties DEF Typed
    <3> QED BY <1>7, <3>2 DEF ListVisit, Typed
  <2>3. pc' \in {"children", "loop"} /\ visit' \in {visit, Nothing}
    BY <1>7 DEF ListVisit
  <2> QED BY <1>7, <2>2, <2>3 DEF ListVisit, serverVars, Typed, Frame, Snap
<1>8. CASE SearchVisit
  <2>1. visit.id \in Links
    BY <1>8 DEF SearchVisit, ControlOK, Snap
  <2>2. CASE Matches
    BY <1>1, <1>8, <2>1, <2>2 DEF SearchVisit, serverVars
  <2>3. CASE ~Matches
    <3>1. pc' \in {"children", "loop"} /\ visit' \in {visit, Nothing} /\ UNCHANGED <<stack, result>>
      BY <1>8, <2>3 DEF SearchVisit
    <3> QED BY <1>8, <3>1 DEF SearchVisit, serverVars, Typed, Frame, Snap
  <2> QED BY <2>2, <2>3
<1>9. CASE ListChildren
  <2>1. visit \in Snap /\ visit.id \in Folders
    BY <1>9 DEF ListChildren, ControlOK
  <2>2. CASE server[visit.id].state = "absent"
    BY <1>1, <1>9, <2>2 DEF ListChildren, serverVars
  <2>3. CASE server[visit.id].state # "absent"
    <3> DEFINE f == [id |-> visit.id, path |-> IF call.op = "list" THEN CurrentPath ELSE <<>>,
                     todo |-> {Snapshot(c) : c \in Children(visit.id)}]
    <3>1. {Snapshot(c) : c \in Children(visit.id)} \subseteq Snap
      BY SnapshotIs DEF Children
    <3>2. (IF call.op = "list" THEN CurrentPath ELSE <<>>) \in Seq(Links)
      BY <2>1, PathIs, Empty
    <3>3. f \in Frame
      BY <2>1, <3>1, <3>2 DEF Frame
    <3>4. stack' = Append(stack, f) /\ pc' = "loop" /\ visit' = Nothing
          /\ UNCHANGED <<server, changes, touched, call, paths, result>>
      BY <1>9, <2>3 DEF ListChildren, serverVars
    <3> HIDE DEF f
    <3>5. stack' \in Seq(Frame)
      BY <3>3, <3>4, Pushed
    <3> QED BY <3>4, <3>5 DEF Typed, Frame, Snap
  <2> QED BY <2>2, <2>3
<1>10. CASE NextChild
  <2>1. PICK c \in Top.todo : visit' = c /\ stack' = [stack EXCEPT ![Depth].todo = @ \ {c}]
    BY <1>10 DEF NextChild
  <2>2. c \in Snap /\ stack' \in Seq(Frame)
    BY <1>10, <2>1, Taken DEF NextChild
  <2> QED BY <1>10, <2>1, <2>2 DEF NextChild, serverVars, Typed, Frame, Snap
<1>11. CASE LoopEnds
  BY <1>11, Popped DEF LoopEnds, serverVars, Typed, Frame, Snap
<1>12. CASE WalkEnds
  BY <1>1, <1>12 DEF WalkEnds, serverVars
<1> QED BY <1>2, <1>3, <1>4, <1>5, <1>6, <1>7, <1>8, <1>9, <1>10, <1>11, <1>12 DEF Next, Walk

LEMMA ServerNext ==
    ASSUME Typed, ServerOK, [Next]_vars
    PROVE  ServerOK'
<1>1. CASE UNCHANGED server /\ touched' \in {touched, {}}
  BY <1>1 DEF ServerOK, NamesUnique
<1>2. CASE Others
  <2>1. NamesUnique(server)'
    BY <1>2, OthersChange
  <2>2. PICK l \in Links \ {Root} : /\ touched' = touched \cup {l}
                                    /\ \A m \in Links \ {l} : server'[m] = server[m]
    BY <1>2, OthersChange
  <2>3. server'[Root] = server[Root] /\ Root \notin touched'
    BY <2>2, RootIs DEF ServerOK
  <2> QED BY <2>1, <2>3 DEF ServerOK
<1>3. ASSUME NEW c \in Calls, Begin(c) PROVE UNCHANGED server /\ touched' \in {touched, {}}
  BY <1>3 DEF Begin
<1>4. CASE Walk
  BY <1>1, <1>4 DEF Walk, WalkFails, Pass, ListVisit, SearchVisit, ListChildren, NextChild,
                    LoopEnds, WalkEnds, serverVars
<1> QED BY <1>1, <1>2, <1>3, <1>4 DEF Next, vars, serverVars

LEMMA NoDomain == DOMAIN <<>> = {} /\ Len(<<>>) = 0
<1> DEFINE none == <<>>
<1>1. none \in Seq(Links) /\ Len(none) = 0
  BY Empty
<1> HIDE DEF none
<1>2. DOMAIN none = 1..0
  BY <1>1, LenProperties
<1>3. DOMAIN none = {} /\ Len(none) = 0
  BY <1>1, <1>2
<1> QED BY <1>3 DEF none

\* How the steps of the walk change the stack
LEMMA EndStep ==
    ASSUME NEW how, End(how)
    PROVE  /\ pc' = "idle" /\ stack' = <<>> /\ DOMAIN stack' = {} /\ Depth' = 0
           /\ visit' = Nothing /\ result' = how
BY NoDomain DEF End, Depth

LEMMA ListChildrenStep ==
    ASSUME Typed, ControlOK, ListChildren, server[visit.id].state # "absent"
    PROVE  /\ visit \in Snap /\ visit.id \in Folders
           /\ DOMAIN stack' = 1..(Depth + 1) /\ Depth' = Depth + 1 /\ Len(stack') = Depth + 1
           /\ \A k \in 1..Depth : stack'[k] = stack[k]
           /\ stack'[Depth + 1].id = visit.id
           /\ stack'[Depth + 1].path = IF Listing THEN CurrentPath ELSE <<>>
           /\ stack'[Depth + 1].todo = {Snapshot(c) : c \in Children(visit.id)}
           /\ pc' = "loop" /\ visit' = Nothing
           /\ UNCHANGED <<server, changes, touched, call, paths, result>>
<1> DEFINE pth == IF call.op = "list" THEN CurrentPath ELSE <<>>
           todo == {Snapshot(c) : c \in Children(visit.id)}
           f == [id |-> visit.id, path |-> pth, todo |-> todo]
<1>1. visit \in Snap /\ visit.id \in Folders
  BY DEF ListChildren, ControlOK
<1>2. todo \subseteq Snap
  BY SnapshotIs DEF Children
<1>3. pth \in Seq(Links)
  BY <1>1, PathIs, Empty
<1>4. stack' = Append(stack, f) /\ pc' = "loop" /\ visit' = Nothing
      /\ UNCHANGED <<server, changes, touched, call, paths, result>>
  BY DEF ListChildren, serverVars
<1> HIDE DEF pth, todo
<1>5. f \in Frame /\ f.id = visit.id /\ f.path = pth /\ f.todo = todo
  BY <1>1, <1>2, <1>3 DEF Frame
<1> HIDE DEF f
<1>6. /\ stack' \in Seq(Frame) /\ Len(stack') = Depth + 1
      /\ \A k \in 1..Depth : stack'[k] = stack[k]
      /\ stack'[Depth + 1] = f
  BY <1>4, <1>5, Pushed
<1>7. DOMAIN stack' = 1..(Depth + 1) /\ Depth' = Depth + 1
  BY <1>6, LenProperties DEF Depth
<1> QED BY <1>1, <1>4, <1>5, <1>6, <1>7 DEF pth, todo, Listing

LEMMA NextChildStep ==
    ASSUME Typed, NextChild
    PROVE  /\ Depth \in 1..Depth /\ DOMAIN stack' = 1..Depth /\ Depth' = Depth
           /\ Len(stack') = Depth
           /\ \A k \in 1..Depth : stack'[k].id = stack[k].id /\ stack'[k].path = stack[k].path
           /\ \E c \in Snap :
                /\ c \in stack[Depth].todo /\ visit' = c
                /\ \A k \in 1..Depth :
                     stack'[k].todo = IF k = Depth THEN stack[k].todo \ {c} ELSE stack[k].todo
           /\ pc = "loop" /\ pc' = "visit"
           /\ UNCHANGED <<server, changes, touched, call, paths, result>>
<1>1. PICK c \in Top.todo : visit' = c /\ stack' = [stack EXCEPT ![Depth].todo = @ \ {c}]
  BY DEF NextChild
<1>2. /\ c \in Snap /\ stack' \in Seq(Frame) /\ Len(stack') = Depth
      /\ \A k \in 1..Depth :
           /\ stack'[k].id = stack[k].id /\ stack'[k].path = stack[k].path
           /\ stack'[k].todo = IF k = Depth THEN stack[k].todo \ {c} ELSE stack[k].todo
  BY <1>1, Taken DEF NextChild
<1>3. DOMAIN stack' = 1..Depth /\ Depth' = Depth
  BY <1>2, LenProperties DEF Depth
<1>4. Depth \in 1..Depth /\ Top = stack[Depth]
  BY DepthIs DEF NextChild
<1> QED BY <1>1, <1>2, <1>3, <1>4 DEF NextChild, serverVars

LEMMA LoopEndsStep ==
    ASSUME Typed, LoopEnds
    PROVE  /\ Depth \in 1..Depth /\ DOMAIN stack' = 1..(Depth - 1) /\ Depth' = Depth - 1
           /\ Len(stack') = Depth - 1
           /\ \A k \in 1..(Depth - 1) : stack'[k] = stack[k]
           /\ stack[Depth].todo = {} /\ pc = "loop"
           /\ UNCHANGED <<server, changes, touched, call, pc, visit, paths, result>>
<1>1. /\ stack' \in Seq(Frame) /\ Len(stack') = Depth - 1
      /\ \A k \in 1..(Depth - 1) : stack'[k] = stack[k]
  BY Popped DEF LoopEnds
<1>2. DOMAIN stack' = 1..(Depth - 1) /\ Depth' = Depth - 1
  BY <1>1, LenProperties DEF Depth
<1>3. Depth \in 1..Depth /\ Top = stack[Depth]
  BY DepthIs DEF LoopEnds
<1> QED BY <1>1, <1>2, <1>3 DEF LoopEnds, serverVars

LEMMA SearchVisitStep ==
    ASSUME SearchVisit
    PROVE  /\ pc = "visit" /\ call.op = "search" /\ visit.state \in Walked
           /\ UNCHANGED <<server, changes, touched, call, paths>>
           /\ \/ Matches /\ End(visit.id)
              \/ /\ ~Matches /\ UNCHANGED <<stack, result>>
                 /\ \/ visit.id \in Folders /\ pc' = "children" /\ UNCHANGED visit
                    \/ visit.id \notin Folders /\ pc' = "loop" /\ visit' = Nothing
BY DEF SearchVisit, serverVars

\* Steps that end the walk
Ends == \E how \in {"error", "ok"} :
            /\ End(how) /\ UNCHANGED <<server, changes, touched, call, paths>>
            /\ how = "ok" => pc = "loop" /\ stack = <<>>

LEMMA EndsAre ==
    /\ WalkFails => Ends
    /\ WalkEnds => Ends
    /\ ListChildren => Ends \/ server[visit.id].state # "absent"
<1>1. WalkFails => Ends
  BY DEF WalkFails, Ends, serverVars
<1>2. WalkEnds => Ends
  BY DEF WalkEnds, Ends, serverVars
<1>3. ListChildren => Ends \/ server[visit.id].state # "absent"
  BY DEF ListChildren, Ends, serverVars
<1> QED BY <1>1, <1>2, <1>3

\* What ListVisit writes
LEMMA Written ==
    ASSUME Typed, visit \in Snap
    PROVE  /\ DOMAIN paths = 1..Len(paths) /\ Len(paths) \in Nat
           /\ LET ps == Append(paths, CurrentPath)
              IN  /\ DOMAIN ps = 1..(Len(paths) + 1) /\ Len(paths) + 1 \in DOMAIN ps
                  /\ ps[Len(paths) + 1] = CurrentPath
                  /\ \A j \in DOMAIN paths : j \in DOMAIN ps /\ ps[j] = paths[j]
           /\ ~Excluded => /\ Last(CurrentPath) = visit.id /\ CurrentPath # <<>>
                           /\ LET ps == Append(paths, CurrentPath)
                              IN  \E j \in DOMAIN ps : Last(ps[j]) = visit.id
<1>1. paths \in Seq(Seq(Links)) /\ CurrentPath \in Seq(Links) /\ Base \in Seq(Links)
  BY PathIs DEF Typed
<1>2. visit.id \in Links
  BY DEF Snap
<1> DEFINE ps == Append(paths, CurrentPath)
<1>3. DOMAIN paths = 1..Len(paths) /\ Len(paths) \in Nat
  BY <1>1, LenProperties
<1>4. /\ ps \in Seq(Seq(Links)) /\ Len(ps) = Len(paths) + 1 /\ ps[Len(paths) + 1] = CurrentPath
      /\ \A j \in 1..Len(paths) : ps[j] = paths[j]
  BY <1>1, AppendProperties
<1> HIDE DEF ps
<1>5. DOMAIN ps = 1..(Len(paths) + 1)
  BY <1>4, LenProperties
<1>6. Len(paths) + 1 \in DOMAIN ps /\ \A j \in DOMAIN paths : j \in DOMAIN ps /\ ps[j] = paths[j]
  BY <1>3, <1>4, <1>5
<1>7. ASSUME ~Excluded PROVE Last(CurrentPath) = visit.id /\ CurrentPath # <<>>
  <2>1. CurrentPath = Append(Base, visit.id)
    BY <1>7, PathIs
  <2>2. /\ Len(CurrentPath) = Len(Base) + 1 /\ CurrentPath[Len(Base) + 1] = visit.id
        /\ Len(Base) \in Nat
    BY <1>1, <1>2, <2>1, AppendProperties, LenProperties
  <2>3. Last(CurrentPath) = visit.id
    BY <2>2 DEF Last
  <2>4. Len(CurrentPath) # 0
    BY <2>2
  <2> QED BY <2>3, <2>4, Empty
<1>8. ~Excluded => \E j \in DOMAIN ps : Last(ps[j]) = visit.id
  BY <1>4, <1>6, <1>7
<1> QED BY <1>3, <1>4, <1>5, <1>6, <1>7, <1>8 DEF ps

LEMMA ControlNext ==
    ASSUME Typed, ControlOK, [Next]_vars
    PROVE  ControlOK'
<1>1. ASSUME NEW how, End(how) PROVE ControlOK'
  BY <1>1, EndStep DEF ControlOK
<1>2. CASE UNCHANGED <<call, pc, visit, stack, paths>>
  BY <1>2 DEF ControlOK, Walked, Listing, InDepth, Depth, Sought, Excluded
<1>3. CASE Others
  BY <1>2, <1>3 DEF Others, CommitDraft, Trash, Restore, Delete, Create, MoveTo, Change
<1>4. ASSUME NEW c \in Calls, Begin(c) PROVE ControlOK'
  <2>1. c.start \in Links
    BY CallIs
  <2>2. visit' \in Snap /\ visit'.id = c.start /\ call' = c /\ pc' = "visit"
    BY <1>4, <2>1, SnapshotIs DEF Begin
  <2> QED BY <2>2 DEF ControlOK
<1>5. CASE Ends
  BY <1>1, <1>5 DEF Ends
<1>6. CASE Pass
  BY <1>6 DEF Pass, ControlOK
<1>7. CASE ListVisit
  <2>1. /\ visit \in Snap /\ visit.state \in Walked /\ call \in Calls /\ call.op = "list"
        /\ pc = "visit" /\ UNCHANGED <<call, stack>>
        /\ Depth = 0 => visit.id = call.start
    BY <1>7 DEF ListVisit, ControlOK
  <2>2. Depth' = Depth /\ Walked' = Walked /\ Excluded' = Excluded
    BY <2>1 DEF Depth, Walked, Excluded
  <2>3. CASE ~Deeper
    BY <1>7, <2>3, <2>1 DEF ListVisit, ControlOK
  <2>4. CASE Deeper
    <3>1. pc' = "children" /\ visit' = visit /\ visit.id \in Folders /\ InDepth(Depth)
      BY <1>7, <2>4 DEF ListVisit, Deeper, InDepth
    <3>2. InDepth(Depth)'
      BY <2>1, <2>2, <3>1 DEF InDepth
    <3>3. ASSUME ~Excluded PROVE \E j \in DOMAIN paths' : Last(paths'[j]) = visit.id
      <4>1. paths' = Append(paths, CurrentPath)
        BY <1>7, <3>3 DEF ListVisit
      <4> QED BY <2>1, <3>3, <4>1, Written
    <3> QED BY <2>1, <2>2, <3>1, <3>2, <3>3 DEF ControlOK
  <2> QED BY <2>3, <2>4
<1>8. CASE SearchVisit
  <2>1. CASE Matches
    BY <1>1, <1>8, <2>1, SearchVisitStep
  <2>2. CASE ~Matches
    <3>1. ~Sought(visit.id)
      BY <2>2 DEF Matches, Sought
    <3> QED BY <1>8, <2>2, <3>1, SearchVisitStep DEF ControlOK, Walked, Listing, Depth, Sought
  <2> QED BY <2>1, <2>2
<1>9. CASE ListChildren /\ server[visit.id].state # "absent"
  BY <1>9, ListChildrenStep DEF ControlOK, ListChildren
<1>10. CASE NextChild
  BY <1>10, NextChildStep DEF ControlOK
<1>11. CASE LoopEnds
  BY <1>11, LoopEndsStep DEF ControlOK
<1> QED BY <1>2, <1>3, <1>4, <1>5, <1>6, <1>7, <1>8, <1>9, <1>10, <1>11, EndsAre
        DEF Next, Walk, vars

LEMMA SnapshotsNext ==
    ASSUME Typed, ServerOK, ControlOK, SnapshotsOK, [Next]_vars
    PROVE  SnapshotsOK'
<1>1. DOMAIN stack = 1..Depth /\ Depth \in Nat
  BY DepthIs
<1>2. CASE UNCHANGED <<server, touched, stack>> /\ (pc' = "loop" \/ UNCHANGED <<pc, visit>>)
  BY <1>2 DEF SnapshotsOK, Depth, Top
<1>3. CASE Others
  <2>1. PICK l \in Links \ {Root} : /\ touched' = touched \cup {l}
                                    /\ \A m \in Links \ {l} : server'[m] = server[m]
    BY <1>3, OthersChange
  <2>2. UNCHANGED <<pc, visit, stack>>
    BY <1>3, OthersChange
  <2>3. \A k \in DOMAIN stack : \A c \in stack[k].todo : c.id \in Links
    BY DepthIs DEF Frame, Snap
  <2>4. pc \in {"visit", "children"} => visit.id \in Links
    BY DEF ControlOK, Snap
  <2>5. ASSUME NEW m \in Links, m \notin touched' PROVE m \notin touched /\ server'[m] = server[m]
    BY <2>1, <2>5
  <2>6. \A k \in DOMAIN stack' : \A c \in stack'[k].todo :
          c.id \notin touched' =>
             server'[c.id].state = c.state /\ server'[c.id].parent = stack'[k].id
    BY <2>2, <2>3, <2>5 DEF SnapshotsOK
  <2>7. Depth' = Depth /\ Top' = Top
    BY <2>2 DEF Depth, Top
  <2> QED BY <2>2, <2>4, <2>5, <2>6, <2>7 DEF SnapshotsOK
<1>4. ASSUME NEW c \in Calls, Begin(c) PROVE SnapshotsOK'
  <2>1. c.start \in Links /\ stack' = <<>>
    BY <1>4, CallIs DEF Begin, ControlOK
  <2>2. visit'.id = c.start /\ visit'.state = server'[c.start].state
    BY <1>4, <2>1, SnapshotIs DEF Begin
  <2>3. DOMAIN stack' = {} /\ Depth' = 0
    BY <2>1, NoDomain DEF Depth
  <2> QED BY <2>2, <2>3 DEF SnapshotsOK
<1>5. ASSUME NEW how, End(how) PROVE SnapshotsOK'
  BY <1>5, EndStep DEF SnapshotsOK
<1>6. CASE ListVisit
  BY <1>2, <1>6 DEF ListVisit, SnapshotsOK, Depth, Top, serverVars
<1>7. CASE SearchVisit
  <2>1. SearchVisit
    BY <1>7
  <2>2. CASE ~Matches
    <3>1. /\ pc = "visit" /\ UNCHANGED <<server, touched, stack>>
          /\ pc' = "loop" \/ UNCHANGED visit
      BY <1>5, <1>7, <2>2, SearchVisitStep
    <3>2. Depth' = Depth /\ Top' = Top
      BY <3>1 DEF Depth, Top
    <3> QED BY <3>1, <3>2 DEF SnapshotsOK
  <2> QED BY <1>5, <2>1, <2>2, SearchVisitStep
<1>8. CASE ListChildren /\ server[visit.id].state # "absent"
  <2>1. /\ DOMAIN stack' = 1..(Depth + 1)
        /\ \A k \in 1..Depth : stack'[k] = stack[k]
        /\ stack'[Depth + 1].id = visit.id
        /\ stack'[Depth + 1].todo = {Snapshot(c) : c \in Children(visit.id)}
        /\ pc' = "loop" /\ UNCHANGED <<server, touched>>
    BY <1>8, ListChildrenStep
  <2>2. ASSUME NEW k \in DOMAIN stack', NEW c \in stack'[k].todo, c.id \notin touched'
        PROVE  server'[c.id].state = c.state /\ server'[c.id].parent = stack'[k].id
    <3>1. CASE k \in 1..Depth
      BY <1>1, <2>1, <2>2, <3>1 DEF SnapshotsOK
    <3>2. CASE k = Depth + 1
      <4>1. PICK l \in Children(visit.id) : c = Snapshot(l)
        BY <2>1, <2>2, <3>2
      <4>2. l \in Links /\ server[l].parent = visit.id
        BY <4>1 DEF Children
      <4> QED BY <2>1, <3>2, <4>1, <4>2, SnapshotIs
    <3> QED BY <1>1, <2>1, <3>1, <3>2
  <2> QED BY <2>1, <2>2 DEF SnapshotsOK
<1>9. CASE NextChild
  <2>1. PICK c \in Snap :
            /\ c \in stack[Depth].todo /\ visit' = c
            /\ \A k \in 1..Depth :
                 stack'[k].todo = IF k = Depth THEN stack[k].todo \ {c} ELSE stack[k].todo
    BY <1>9, NextChildStep
  <2>2. /\ Depth \in 1..Depth /\ DOMAIN stack' = 1..Depth /\ Depth' = Depth
        /\ \A k \in 1..Depth : stack'[k].id = stack[k].id
        /\ UNCHANGED <<server, touched>>
    BY <1>9, NextChildStep
  <2>3. Top'.id = stack[Depth].id
    BY <2>2 DEF Top
  <2>4. c.id \notin touched =>
            server[c.id].state = c.state /\ server[c.id].parent = stack[Depth].id
    BY <1>1, <2>1, <2>2 DEF SnapshotsOK
  <2>5. ASSUME NEW k \in 1..Depth, NEW d \in stack'[k].todo, d.id \notin touched
        PROVE  server[d.id].state = d.state /\ server[d.id].parent = stack'[k].id
    <3>1. d \in stack[k].todo
      BY <2>1, <2>5
    <3> QED BY <1>1, <2>2, <2>5, <3>1 DEF SnapshotsOK
  <2> QED BY <2>1, <2>2, <2>3, <2>4, <2>5 DEF SnapshotsOK
<1>10. CASE LoopEnds
  BY <1>1, <1>10, LoopEndsStep DEF SnapshotsOK
<1>11. CASE Pass
  BY <1>2, <1>11 DEF Pass, serverVars
<1> QED BY <1>2, <1>3, <1>4, <1>5, <1>6, <1>7, <1>8, <1>9, <1>10, <1>11, EndsAre
        DEF Next, Walk, vars, serverVars, Ends

-----------------------------------------------------------------------------
(* The way to a stable link stays before the walk until the walk is there. *)

LEMMA StableParts ==
    ASSUME Typed, NEW p, StablePath(p)
    PROVE  /\ p \in Seq(Links) /\ Len(p) \in Nat /\ Len(p) >= 1 /\ Last(p) = p[Len(p)]
           /\ 1 \in 1..Len(p) /\ Len(p) \in 1..Len(p)
           /\ \A n \in 1..Len(p) : p[n] \in Links /\ Stable(p[n])
           /\ \A n \in 1..Len(p) : n # Len(p) => /\ n + 1 \in 1..Len(p) /\ p[n] \in Folders
                                                 /\ server[p[n + 1]].parent = p[n]
           /\ \A n \in 1..Len(p) : n # 1 => /\ n - 1 \in 1..Len(p)
                                            /\ server[p[n]].parent = p[n - 1]
<1>1. /\ p \in Seq(Links) /\ Len(p) \in Nat /\ Len(p) # 0
      /\ \A n \in 1..Len(p) : p[n] \in Links /\ Stable(p[n])
      /\ \A n \in 2..Len(p) : server[p[n]].parent = p[n - 1]
  <2>1. p \in Seq(Links) /\ p # <<>>
    BY DEF StablePath
  <2>2. Len(p) \in Nat /\ Len(p) # 0
    BY <2>1, LenProperties, EmptySeq
  <2>3. \A n \in 1..Len(p) : p[n] \in Links
    BY <2>1, ElementOfSeq
  <2> QED BY <2>1, <2>2, <2>3 DEF StablePath
<1>2. Len(p) >= 1 /\ 1 \in 1..Len(p) /\ Len(p) \in 1..Len(p)
  BY <1>1
<1>3. ASSUME NEW n \in 1..Len(p), n # 1
      PROVE  n - 1 \in 1..Len(p) /\ server[p[n]].parent = p[n - 1]
  <2>1. n \in 2..Len(p) /\ n - 1 \in 1..Len(p)
    BY <1>1, <1>3
  <2> QED BY <1>1, <2>1
<1>4. ASSUME NEW n \in 1..Len(p), n # Len(p)
      PROVE  n + 1 \in 1..Len(p) /\ p[n] \in Folders /\ server[p[n + 1]].parent = p[n]
  <2>1. n + 1 \in 1..Len(p) /\ n + 1 \in 2..Len(p) /\ (n + 1) - 1 = n
    BY <1>1, <1>4
  <2>2. server[p[n + 1]].parent = p[n]
    BY <1>1, <2>1
  <2>3. server[p[n + 1]].parent \in Folders \cup {NoLink} /\ p[n] \in Links
    BY <1>1, <2>1 DEF Typed
  <2> QED BY <2>1, <2>2, <2>3, TreeAssumption
<1> QED BY <1>1, <1>2, <1>3, <1>4 DEF Last

\* A path that is stable after a step was so before it.
LEMMA StableBefore ==
    ASSUME Typed, ServerOK, Others \/ UNCHANGED <<server, touched>>, UNCHANGED call,
           NEW p, StablePath(p)'
    PROVE  StablePath(p)
<1>1. p \in Seq(Links) /\ \A n \in 1..Len(p) : p[n] \in Links
  BY ElementOfSeq DEF StablePath
<1>2. ASSUME NEW l \in Links, l \notin touched' PROVE l \notin touched /\ server'[l] = server[l]
  <2>1. CASE UNCHANGED <<server, touched>>
    BY <1>2, <2>1
  <2>2. CASE Others
    <3>1. PICK k \in Links \ {Root} : /\ touched' = touched \cup {k}
                                      /\ \A m \in Links \ {k} : server'[m] = server[m]
      BY <2>2, OthersChange
    <3> QED BY <1>2, <3>1
  <2> QED BY <2>1, <2>2
<1>3. Walked' = Walked
  BY DEF Walked
<1>4. /\ p # <<>> /\ p[1] = call.start
      /\ \A n \in 1..Len(p) : p[n] \notin touched' /\ server'[p[n]].state \in Walked'
      /\ \A n \in 2..Len(p) : server'[p[n]].parent = p[n - 1]
  BY DEF StablePath, Stable
<1>5. \A n \in 1..Len(p) : Stable(p[n])
  BY <1>1, <1>2, <1>3, <1>4 DEF Stable
<1>6. Len(p) \in Nat
  BY <1>1, LenProperties
<1>7. ASSUME NEW n \in 2..Len(p) PROVE server[p[n]].parent = p[n - 1]
  <2>1. n \in 1..Len(p)
    BY <1>6
  <2> QED BY <1>1, <1>2, <1>4, <2>1
<1> QED BY <1>1, <1>4, <1>5, <1>7 DEF StablePath

\* What the walk has at hand of a stable link is of a state it walks through.
LEMMA StableVisit ==
    ASSUME SnapshotsOK, pc \in {"visit", "children"}, Stable(visit.id)
    PROVE  visit.state \in Walked
BY DEF SnapshotsOK, Stable

\* A step of the walk puts before it the next link of a stable path when it has
\* taken one: only a visit that goes no deeper, or the listing of what the last
\* link has in it, takes one without that.
LEMMA StillPending ==
    ASSUME Typed, ControlOK, SnapshotsOK, Walk, pc' # "idle",
           NEW p, StablePath(p), NEW n \in 1..Len(p), Pending(p[n])
    PROVE  \/ \E m \in 1..Len(p) : Pending(p[m])'
           \/ pc = "visit" /\ visit.id = p[n] /\ pc' = "loop" /\ (ListVisit \/ SearchVisit)
           \/ pc = "children" /\ visit.id = p[n] /\ n = Len(p)
<1> DEFINE At == pc \in {"visit", "children"} /\ visit.id = p[n]
<1>1. Stable(p[n]) /\ p[n] \in Links
  BY StableParts
<1>2. DOMAIN stack = 1..Depth /\ Depth \in Nat
  BY DepthIs
<1>3. CASE Ends
  BY <1>3, EndStep DEF Ends
<1>4. CASE Pass
  <2>1. ~At
    BY <1>1, <1>4, StableVisit DEF Pass
  <2>2. Pending(p[n])'
    BY <1>4, <2>1 DEF Pass, Pending
  <2> QED BY <2>2
<1>5. CASE ListVisit
  <2>1. /\ UNCHANGED stack /\ pc' \in {"loop", "children"} /\ pc = "visit"
        /\ pc' = "children" => UNCHANGED visit
    BY <1>5 DEF ListVisit
  <2> QED BY <1>5, <2>1 DEF Pending
<1>6. CASE SearchVisit
  <2>1. ~Matches
    BY <1>6, SearchVisitStep, EndStep
  <2>2. /\ UNCHANGED stack /\ pc' \in {"loop", "children"} /\ pc = "visit"
        /\ pc' = "children" => UNCHANGED visit
    BY <1>6, <2>1, SearchVisitStep
  <2> QED BY <1>6, <2>2 DEF Pending
<1>7. CASE ListChildren /\ server[visit.id].state # "absent"
  <2>1. /\ DOMAIN stack' = 1..(Depth + 1)
        /\ \A k \in 1..Depth : stack'[k] = stack[k]
        /\ stack'[Depth + 1].todo = {Snapshot(c) : c \in Children(visit.id)}
        /\ pc = "children"
    BY <1>7, ListChildrenStep DEF ListChildren
  <2>2. CASE At /\ n # Len(p)
    <3>1. n + 1 \in 1..Len(p) /\ server[p[n + 1]].parent = visit.id /\ p[n + 1] \in Links
          /\ Stable(p[n + 1])
      BY <2>2, StableParts
    <3>2. p[n + 1] \in Children(visit.id)
      BY <3>1 DEF Children, Stable, Walked
    <3>3. Snapshot(p[n + 1]) \in stack'[Depth + 1].todo /\ Snapshot(p[n + 1]).id = p[n + 1]
      BY <2>1, <3>1, <3>2, SnapshotIs
    <3>4. Depth + 1 \in DOMAIN stack'
      BY <1>2, <2>1
    <3>5. Pending(p[n + 1])'
      BY <3>3, <3>4 DEF Pending
    <3> QED BY <3>1, <3>5
  <2>3. CASE ~At
    <3>1. PICK k \in 1..Depth : \E c \in stack[k].todo : c.id = p[n]
      BY <1>2, <2>3 DEF Pending
    <3>2. k \in DOMAIN stack' /\ \E c \in stack'[k].todo : c.id = p[n]
      BY <1>2, <2>1, <3>1
    <3>3. Pending(p[n])'
      BY <3>2 DEF Pending
    <3> QED BY <3>3
  <2> QED BY <2>1, <2>2, <2>3
<1>8. CASE NextChild
  <2>1. PICK c \in Snap :
            /\ c \in stack[Depth].todo /\ visit' = c
            /\ \A k \in 1..Depth :
                 stack'[k].todo = IF k = Depth THEN stack[k].todo \ {c} ELSE stack[k].todo
    BY <1>8, NextChildStep
  <2>2. DOMAIN stack' = 1..Depth /\ pc = "loop" /\ pc' = "visit"
    BY <1>8, NextChildStep
  <2>3. PICK k \in 1..Depth : \E d \in stack[k].todo : d.id = p[n]
    BY <1>2, <2>2 DEF Pending
  <2>4. PICK d \in stack[k].todo : d.id = p[n]
    BY <2>3
  <2>5. Pending(p[n])'
    <3>1. CASE d = c
      BY <2>1, <2>2, <2>4, <3>1 DEF Pending
    <3>2. CASE d # c
      <4>1. d \in stack'[k].todo /\ k \in DOMAIN stack'
        BY <2>1, <2>2, <2>4, <3>2
      <4> QED BY <2>4, <4>1 DEF Pending
    <3> QED BY <3>1, <3>2
  <2> QED BY <2>5
<1>9. CASE LoopEnds
  <2>1. /\ DOMAIN stack' = 1..(Depth - 1) /\ \A k \in 1..(Depth - 1) : stack'[k] = stack[k]
        /\ stack[Depth].todo = {} /\ pc = "loop"
    BY <1>9, LoopEndsStep
  <2>2. PICK k \in 1..Depth : \E d \in stack[k].todo : d.id = p[n]
    BY <1>2, <2>1 DEF Pending
  <2>3. k \in 1..(Depth - 1)
    BY <1>2, <2>1, <2>2
  <2>4. Pending(p[n])'
    BY <2>1, <2>2, <2>3 DEF Pending
  <2> QED BY <2>4
<1> QED BY <1>3, <1>4, <1>5, <1>6, <1>7, <1>8, <1>9, EndsAre DEF Walk

\* At the start all is before it.
LEMMA PendingAtFirst ==
    ASSUME Typed, Typed', NEW c \in Calls, Begin(c), NEW p, StablePath(p)'
    PROVE  1 \in 1..Len(p) /\ Pending(p[1])'
<1>1. c.start \in Links
  BY CallIs
<1>2. visit'.id = c.start /\ call' = c /\ pc' = "visit"
  BY <1>1, SnapshotIs DEF Begin
<1>3. p[1] = c.start /\ p \in Seq(Links) /\ p # <<>>
  BY <1>2 DEF StablePath
<1>4. Len(p) \in Nat /\ Len(p) # 0
  BY <1>3, LenProperties, EmptySeq
<1>5. Pending(p[1])'
  BY <1>2, <1>3 DEF Pending
<1> QED BY <1>4, <1>5

LEMMA SearchNext ==
    ASSUME Typed, Typed', ServerOK, ControlOK, SnapshotsOK, SearchCovers, [Next]_vars
    PROVE  SearchCovers'
<1>1. SUFFICES ASSUME call'.op = "search", pc' # "idle" \/ result' = "ok",
                      NEW p, StablePath(p)', Sought(Last(p))'
               PROVE  \E n \in 1..Len(p) : Pending(p[n])'
  BY DEF SearchCovers
<1>2. CASE \E c \in Calls : Begin(c)
  <2>1. PICK c \in Calls : Begin(c)
    BY <1>2
  <2>2. 1 \in 1..Len(p) /\ Pending(p[1])'
    BY <1>1, <2>1, PendingAtFirst
  <2> QED BY <2>2
<1>3. CASE UNCHANGED <<call, pc, visit, stack, result>> /\ (Others \/ UNCHANGED <<server, touched>>)
  <2>1. StablePath(p)
    BY <1>1, <1>3, StableBefore
  <2>2. Sought(Last(p))
    BY <1>1, <1>3 DEF Sought
  <2>3. PICK n \in 1..Len(p) : Pending(p[n])
    BY <1>1, <1>3, <2>1, <2>2 DEF SearchCovers
  <2> QED BY <1>3, <2>3 DEF Pending
<1>4. CASE Walk
  <2>1. UNCHANGED <<server, touched, call>>
    BY <1>4 DEF Walk, WalkFails, Pass, ListVisit, SearchVisit, ListChildren, NextChild,
                LoopEnds, WalkEnds, serverVars
  <2>2. StablePath(p) /\ Sought(Last(p)) /\ pc # "idle"
    BY <1>1, <1>4, <2>1, StableBefore DEF Sought, Walk, WalkFails, Pass, ListVisit,
       SearchVisit, ListChildren, NextChild, LoopEnds, WalkEnds
  <2>3. PICK n \in 1..Len(p) : Pending(p[n])
    BY <1>1, <2>1, <2>2 DEF SearchCovers
  <2>4. CASE pc' = "idle"
    <3>1. ~SearchVisit
      <4>1. SUFFICES ASSUME SearchVisit PROVE FALSE
        OBVIOUS
      <4>2. Matches /\ End(visit.id) /\ visit.id \in Links
        BY <2>4, <4>1, SearchVisitStep DEF ControlOK, Snap
      <4> QED BY <1>1, <2>4, <4>2, EndStep, TreeAssumption
    <3>2. Ends
      BY <1>4, <2>2, <2>4, <3>1, EndsAre, ListChildrenStep, NextChildStep, LoopEndsStep
         DEF Walk, Pass, ListVisit
    <3>3. pc = "loop" /\ stack = <<>>
      BY <1>1, <2>4, <3>2, EndStep DEF Ends
    <3> QED BY <2>3, <3>3, NoDomain DEF Pending
  <2>5. CASE pc' # "idle"
    <3>1. ~(pc = "children" /\ visit.id = p[n] /\ n = Len(p))
      BY <1>1, <2>1, <2>2, StableParts DEF ControlOK
    <3>2. ~(pc = "visit" /\ visit.id = p[n] /\ pc' = "loop" /\ (ListVisit \/ SearchVisit))
      <4>1. SUFFICES ASSUME pc = "visit", visit.id = p[n], pc' = "loop", ListVisit \/ SearchVisit
                     PROVE  FALSE
        OBVIOUS
      <4>2. SearchVisit
        BY <1>1, <2>1, <4>1 DEF ListVisit
      <4>3. ~Matches /\ visit.id \notin Folders
        BY <4>1, <4>2, SearchVisitStep, EndStep
      <4>4. n = Len(p)
        BY <2>2, <4>1, <4>3, StableParts
      <4> QED BY <2>2, <4>1, <4>3, <4>4, StableParts DEF Matches, Sought
    <3> QED BY <1>4, <2>2, <2>3, <2>5, <3>1, <3>2, StillPending
  <2> QED BY <2>4, <2>5
<1> QED BY <1>2, <1>3, <1>4, OthersChange DEF Next, vars, serverVars

-----------------------------------------------------------------------------
(* Where a listing writes a stable link *)

LEMMA ListingIs ==
    ASSUME Typed, Listing
    PROVE  /\ call \in Calls /\ call.start = Root /\ call.maxDepth \in Nat \cup {-1}
           /\ call.excludeRoot \in BOOLEAN
           /\ Cut = (IF call.excludeRoot THEN 1 ELSE 0) /\ Cut \in {0, 1}
BY CallIs, NoCallIs DEF Typed, Listing, Cut

\* The root has no folder, so that it is at the start of a stable path only.
LEMMA RootFirst ==
    ASSUME Typed, ServerOK, NEW p, StablePath(p), NEW n \in 1..Len(p), p[n] = Root
    PROVE  n = 1
<1>1. ASSUME n # 1 PROVE FALSE
  <2>1. n - 1 \in 1..Len(p) /\ server[Root].parent = p[n - 1] /\ p[n - 1] \in Links
    BY <1>1, StableParts
  <2> QED BY <2>1, TreeAssumption DEF ServerOK
<1> QED BY <1>1

\* A stable link is in one place: a path on which each link that has not changed
\* is in the folder before it and that ends with the link is the stable one.
LEMMA OnlyPlace ==
    ASSUME Typed, ServerOK, Listing, NEW p, StablePath(p), NEW n \in 1..Len(p),
           NEW q \in Seq(Links), q # <<>>, Chain(q), Last(q) = p[n]
    PROVE  Len(q) = n - Cut /\ \A i \in 1..Len(q) : q[i] = p[i + Cut]
<1> DEFINE N == Len(q)
           Bad == {i \in Nat : i < N /\ i < n /\ q[N - i] # p[n - i]}
<1>1. /\ Len(p) \in Nat /\ n \in Nat /\ n >= 1 /\ n <= Len(p)
      /\ \A i \in 1..Len(p) : p[i] \in Links /\ p[i] \notin touched
      /\ \A i \in 1..Len(p) : i # 1 => i - 1 \in 1..Len(p) /\ server[p[i]].parent = p[i - 1]
      /\ p[1] = Root
  BY StableParts, ListingIs DEF Stable, StablePath
<1>2. N \in Nat /\ N # 0 /\ q[N] = p[n] /\ \A i \in 1..N : q[i] \in Links
  BY LenProperties, EmptySeq, ElementOfSeq DEF Last
<1>3. /\ \A i \in 1..N : i > 1 /\ q[i] \notin touched => server[q[i]].parent = q[i - 1]
      /\ q[1] \notin touched =>
             server[q[1]].parent = IF call.excludeRoot THEN Root ELSE NoLink
  <2>1. 1 \in 1..N
    BY <1>2
  <2>2. \A i \in 1..N : q[i] \notin touched => server[q[i]].parent = Before(q, i)
    BY DEF Chain
  <2>3. \A i \in 1..N : i > 1 => Before(q, i) = q[i - 1]
    BY DEF Before
  <2>4. Before(q, 1) = IF call.excludeRoot THEN Root ELSE NoLink
    BY DEF Before
  <2> QED BY <2>1, <2>2, <2>3, <2>4
<1> HIDE DEF N
<1>4. Bad = {}
  <2>1. SUFFICES ASSUME Bad # {} PROVE FALSE
    OBVIOUS
  <2>2. PICK m \in Bad : \A k \in Bad : m <= k
    BY <2>1, LeastElement
  <2>3. m \in Nat /\ m < N /\ m < n /\ q[N - m] # p[n - m]
    OBVIOUS
  <2>4. m # 0
    BY <1>1, <1>2, <2>3
  <2>5. m - 1 \in Nat /\ m - 1 < N /\ m - 1 < n /\ ~(m <= m - 1)
    BY <1>1, <1>2, <2>3, <2>4
  <2>6. m - 1 \notin Bad
    BY <2>2, <2>5
  <2>7. q[N - (m - 1)] = p[n - (m - 1)]
    BY <2>5, <2>6
  <2> DEFINE j == N - (m - 1)
             k == n - (m - 1)
  <2>8. j \in 1..N /\ j > 1 /\ k \in 1..Len(p) /\ k # 1 /\ j - 1 = N - m /\ k - 1 = n - m
    BY <1>1, <1>2, <2>3, <2>4
  <2>9. q[j] = p[k]
    BY <2>7
  <2> HIDE DEF j, k, Bad
  <2>10. p[k] \notin touched /\ server[p[k]].parent = p[k - 1]
    BY <1>1, <2>8
  <2>11. server[q[j]].parent = q[j - 1]
    BY <1>3, <2>8, <2>9, <2>10
  <2>12. p[k - 1] = q[j - 1]
    BY <2>9, <2>10, <2>11
  <2> QED BY <2>3, <2>8, <2>12
<1>5. ASSUME NEW i \in Nat, i < N, i < n PROVE q[N - i] = p[n - i]
  <2>1. i \notin Bad
    BY <1>4
  <2> QED BY <1>5, <2>1
<1> HIDE DEF Bad
<1>6. server[Root].parent = NoLink /\ NoLink \notin Links /\ Root \in Links
  BY TreeAssumption DEF ServerOK
<1>7. N <= n
  <2>1. SUFFICES ASSUME N > n PROVE FALSE
    BY <1>1, <1>2
  <2> DEFINE j == N - (n - 1)
  <2>2. n - 1 \in Nat /\ n - 1 < N /\ n - 1 < n /\ n - (n - 1) = 1
    BY <1>1, <1>2, <2>1
  <2>3. j \in 1..N /\ j > 1 /\ j - 1 \in 1..N
    BY <1>1, <1>2, <2>1
  <2>4. q[N - (n - 1)] = p[n - (n - 1)]
    BY <1>5, <2>2
  <2>5. q[j] = Root
    BY <1>1, <2>2, <2>4
  <2> HIDE DEF j
  <2>6. server[Root].parent = q[j - 1] /\ q[j - 1] \in Links
    BY <1>1, <1>2, <1>3, <2>3, <2>5 DEF ServerOK
  <2> QED BY <1>6, <2>6
<1> DEFINE k == n - N + 1
<1>8. k \in 1..Len(p) /\ k \in Int /\ k - 1 = n - N
  BY <1>1, <1>2, <1>7
<1>9. q[1] = p[k]
  <2>1. N - 1 \in Nat /\ N - 1 < N /\ N - 1 < n /\ N - (N - 1) = 1 /\ n - (N - 1) = k
    BY <1>1, <1>2, <1>7
  <2>2. q[N - (N - 1)] = p[n - (N - 1)]
    BY <1>5, <2>1
  <2> QED BY <2>1, <2>2
<1> HIDE DEF k
<1>10. server[p[k]].parent = IF call.excludeRoot THEN Root ELSE NoLink
  BY <1>1, <1>3, <1>8, <1>9
<1>11. k = Cut + 1
  <2>1. CASE call.excludeRoot
    <3>1. k # 1
      BY <1>1, <1>6, <1>10, <2>1
    <3>2. k - 1 \in 1..Len(p) /\ p[k - 1] = Root
      BY <1>1, <1>8, <1>10, <2>1, <3>1
    <3>3. k - 1 = 1
      BY <3>2, RootFirst
    <3> QED BY <1>8, <2>1, <3>3 DEF Cut
  <2>2. CASE ~call.excludeRoot
    <3>1. k = 1
      BY <1>1, <1>6, <1>8, <1>10, <2>2
    <3> QED BY <2>2, <3>1 DEF Cut
  <2> QED BY <2>1, <2>2
<1>12. Cut \in {0, 1} /\ N = n - Cut
  BY <1>1, <1>2, <1>8, <1>11 DEF Cut
<1>13. ASSUME NEW i \in 1..N PROVE q[i] = p[i + Cut]
  <2>1. N - i \in Nat /\ N - i < N /\ N - i < n /\ N - (N - i) = i /\ n - (N - i) = i + Cut
    BY <1>1, <1>2, <1>12
  <2>2. q[N - (N - i)] = p[n - (N - i)]
    BY <1>5, <2>1
  <2> QED BY <2>1, <2>2
<1> QED BY <1>12, <1>13 DEF N

\* The path of the link visited is such a path.
LEMMA CurrentChain ==
    ASSUME Typed, ServerOK, Listing, ControlOK, SnapshotsOK, ChainsOK,
           pc \in {"visit", "children"}
    PROVE  /\ CurrentPath \in Seq(Links) /\ Chain(CurrentPath)
           /\ Len(CurrentPath) = Depth + 1 - Cut
           /\ Excluded => Depth = 0 /\ Cut = 1 /\ visit.id = Root
           /\ visit.id = IF Depth + 1 > Cut THEN Last(CurrentPath) ELSE Root
           /\ ~Excluded => Depth + 1 > Cut
<1>1. visit \in Snap /\ visit.id \in Links /\ (Depth = 0 => visit.id = Root)
  BY ListingIs DEF ControlOK, Snap
<1>2. /\ CurrentPath \in Seq(Links) /\ Base \in Seq(Links) /\ Len(Base) \in Nat
      /\ Excluded => CurrentPath = <<>>
      /\ ~Excluded => CurrentPath = Append(Base, visit.id)
  BY <1>1, PathIs, LenProperties
<1>3. Depth \in Nat /\ Cut \in {0, 1} /\ (Cut = 1 <=> call.excludeRoot)
  BY DepthIs, ListingIs
<1>4. CASE Excluded
  <2>1. Depth = 0 /\ Cut = 1 /\ visit.id = Root /\ CurrentPath = <<>>
    BY <1>1, <1>2, <1>3, <1>4 DEF Excluded
  <2>2. Chain(CurrentPath) /\ Len(CurrentPath) = 0
    BY <2>1, Empty DEF Chain
  <2> QED BY <1>2, <1>4, <2>1, <2>2
<1>5. CASE ~Excluded
  <2>1. Depth > 0 => /\ Depth \in DOMAIN stack /\ Base = stack[Depth].path /\ Top = stack[Depth]
    BY <1>3, DepthIs DEF Base
  <2>2. Depth > 0 => /\ Chain(Base) /\ Len(Base) = Depth - Cut
                     /\ Top.id = IF Depth > Cut THEN Last(Base) ELSE Root
    BY <2>1 DEF ChainsOK
  <2>3. Depth = 0 => Chain(Base) /\ Len(Base) = Depth /\ Cut = 0
    BY <1>3, <1>5, Empty DEF Base, Chain, Excluded
  <2> DEFINE m == Len(Base)
             q == Append(Base, visit.id)
  <2>4. /\ q \in Seq(Links) /\ Len(q) = m + 1 /\ q[m + 1] = visit.id
        /\ \A i \in 1..m : q[i] = Base[i]
    BY <1>1, <1>2, AppendProperties
  <2>5. m = Depth - Cut /\ Depth + 1 > Cut
    BY <1>3, <2>2, <2>3
  <2>6. CurrentPath = q
    BY <1>2, <1>5
  <2>7. Last(q) = visit.id
    BY <2>4 DEF Last
  <2>8. m \in Nat /\ Chain(Base)
    BY <1>2, <1>3, <2>2, <2>3
  <2>9. m > 0 => Last(Base) = Base[m]
    BY DEF Last
  <2> HIDE DEF m, q
  <2>10. ASSUME NEW i \in 1..Len(q), q[i] \notin touched
         PROVE  server[q[i]].parent = Before(q, i)
    <3>1. CASE i \in 1..m
      <4>1. q[i] = Base[i] /\ server[Base[i]].parent = Before(Base, i)
        BY <2>4, <2>8, <2>10, <3>1 DEF Chain, m
      <4>2. Before(Base, i) = Before(q, i)
        <5>1. CASE i = 1
          BY <5>1 DEF Before
        <5>2. CASE i > 1
          <6>1. i - 1 \in 1..m
            BY <2>8, <3>1, <5>2
          <6> QED BY <2>4, <5>2, <6>1 DEF Before
        <5> QED BY <2>8, <3>1, <5>1, <5>2
      <4> QED BY <4>1, <4>2
    <3>2. CASE i = m + 1
      <4>1. q[i] = visit.id /\ visit.id \notin touched
        BY <2>4, <2>10, <3>2
      <4>2. CASE Depth = 0
        <5>1. visit.id = Root /\ i = 1 /\ ~call.excludeRoot
          BY <1>1, <1>3, <2>3, <2>5, <3>2, <4>2
        <5> QED BY <4>1, <5>1 DEF Before, ServerOK
      <4>3. CASE Depth > 0
        <5>1. server[visit.id].parent = Top.id
          BY <4>1, <4>3 DEF SnapshotsOK
        <5>2. CASE m = 0
          <6>1. Depth = Cut /\ i = 1 /\ call.excludeRoot
            BY <1>3, <2>5, <3>2, <4>3, <5>2
          <6>2. ~(Depth > Cut)
            BY <1>3, <6>1
          <6>3. Top.id = Root
            BY <2>2, <4>3, <6>2
          <6>4. Before(q, i) = Root
            BY <6>1 DEF Before
          <6> QED BY <4>1, <5>1, <6>3, <6>4
        <5>3. CASE m > 0
          <6>1. Depth > Cut /\ i > 1 /\ i - 1 = m /\ m \in 1..m
            BY <1>3, <2>5, <2>8, <3>2, <4>3, <5>3
          <6>2. Top.id = Base[m]
            BY <2>2, <2>9, <4>3, <5>3, <6>1
          <6>3. Before(q, i) = Base[m]
            BY <2>4, <6>1 DEF Before
          <6> QED BY <4>1, <5>1, <6>2, <6>3
        <5> QED BY <2>8, <5>2, <5>3
      <4> QED BY <1>3, <4>2, <4>3
    <3> QED BY <2>4, <2>8, <3>1, <3>2
  <2>11. Chain(q)
    BY <2>10 DEF Chain
  <2>12. Len(q) = Depth + 1 - Cut
    BY <1>3, <2>4, <2>5
  <2> QED BY <1>2, <1>5, <2>5, <2>6, <2>7, <2>11, <2>12
<1> QED BY <1>4, <1>5

LEMMA WalkKeeps ==
    Walk => UNCHANGED <<server, changes, touched, call>> /\ pc # "idle"
BY DEF Walk, WalkFails, Pass, ListVisit, SearchVisit, ListChildren, NextChild, LoopEnds, WalkEnds,
       serverVars

LEMMA StepIs ==
    ASSUME Typed, ServerOK, [Next]_vars
    PROVE  \/ \E c \in Calls : Begin(c)
           \/ /\ UNCHANGED <<call, pc, visit, stack, paths, result>>
              /\ Others \/ UNCHANGED <<server, touched>>
           \/ Walk
BY OthersChange DEF Next, vars, serverVars

LEMMA ListNext ==
    ASSUME Typed, Typed', ServerOK, ControlOK, SnapshotsOK,
           Listing => ListCovers /\ ChainsOK, [Next]_vars, Listing'
    PROVE  ListCovers'
<1>1. SUFFICES ASSUME pc' # "idle" \/ result' = "ok", NEW p, StablePath(p)', Required(p)'
               PROVE  \/ \E n \in 1..Len(p) : Pending(p[n])'
                      \/ \E j \in DOMAIN paths' : Last(paths'[j]) = Last(p)
  BY DEF ListCovers
<1>2. CASE \E c \in Calls : Begin(c)
  <2>1. PICK c \in Calls : Begin(c)
    BY <1>2
  <2>2. 1 \in 1..Len(p) /\ Pending(p[1])'
    BY <1>1, <2>1, PendingAtFirst
  <2> QED BY <2>2
<1>3. CASE /\ UNCHANGED <<call, pc, visit, stack, paths, result>>
           /\ Others \/ UNCHANGED <<server, touched>>
  <2>1. StablePath(p)
    BY <1>1, <1>3, StableBefore
  <2>2. Required(p) /\ Listing
    BY <1>1, <1>3 DEF Required, Listing
  <2>3. \/ \E n \in 1..Len(p) : Pending(p[n])
        \/ \E j \in DOMAIN paths : Last(paths[j]) = Last(p)
    BY <1>1, <1>3, <2>1, <2>2 DEF ListCovers
  <2>4. \A n : Pending(p[n]) => Pending(p[n])'
    BY <1>3 DEF Pending
  <2> QED BY <1>3, <2>3, <2>4
<1>4. CASE Walk
  <2>1. UNCHANGED <<server, touched, call>> /\ pc # "idle"
    BY <1>4, WalkKeeps
  <2>2. StablePath(p) /\ Required(p) /\ Listing /\ ChainsOK
    BY <1>1, <2>1, StableBefore DEF Required, Listing
  <2>3. \/ \E n \in 1..Len(p) : Pending(p[n])
        \/ \E j \in DOMAIN paths : Last(paths[j]) = Last(p)
    BY <2>1, <2>2 DEF ListCovers
  <2>4. ~SearchVisit
    BY <2>2 DEF SearchVisit, Listing
  <2>5. ListVisit => visit \in Snap
    BY DEF ListVisit, ControlOK
  <2>6. ASSUME NEW j \in DOMAIN paths PROVE j \in DOMAIN paths' /\ paths'[j] = paths[j]
    <3>1. CASE UNCHANGED paths
      BY <3>1
    <3>2. CASE ListVisit /\ paths' = Append(paths, CurrentPath)
      BY <2>5, <3>2, Written
    <3> QED BY <1>4, <2>4, <3>1, <3>2 DEF Walk, WalkFails, Pass, ListVisit, ListChildren,
            NextChild, LoopEnds, WalkEnds
  <2>7. SUFFICES ASSUME NEW n \in 1..Len(p), Pending(p[n])
                 PROVE  \/ \E m \in 1..Len(p) : Pending(p[m])'
                        \/ \E j \in DOMAIN paths' : Last(paths'[j]) = Last(p)
    BY <2>3, <2>6
  <2>8. pc' # "idle"
    <3>1. SUFFICES ASSUME pc' = "idle" PROVE FALSE
      OBVIOUS
    <3>2. Ends
      BY <1>4, <2>1, <2>4, <3>1, EndsAre, ListChildrenStep, NextChildStep, LoopEndsStep
         DEF Walk, Pass, ListVisit
    <3>3. pc = "loop" /\ stack = <<>>
      BY <1>1, <3>1, <3>2, EndStep DEF Ends
    <3> QED BY <2>7, <3>3, NoDomain DEF Pending
  <2>9. Len(p) \in Nat /\ Depth \in Nat /\ n \in Nat
    BY <2>2, StableParts, DepthIs
  <2>10. ASSUME pc \in {"visit", "children"}, visit.id = p[n], Excluded PROVE n # Len(p) /\ n = 1
    <3>1. visit.id = Root /\ call.excludeRoot
      BY <2>2, <2>10, CurrentChain DEF Excluded
    <3>2. n = 1
      BY <2>2, <2>10, <3>1, RootFirst
    <3> DEFINE L == Len(p)
    <3>3. L \in Nat /\ L > 1
      BY <2>2, <2>9, <3>1 DEF Required
    <3> HIDE DEF L
    <3>4. L # 1
      BY <3>3
    <3> QED BY <3>2, <3>4 DEF L
  <2>11. CASE pc = "visit" /\ visit.id = p[n] /\ pc' = "loop" /\ ListVisit
    <3>1. ~Deeper /\ visit \in Snap
      BY <2>5, <2>11 DEF ListVisit
    <3>2. CASE n = Len(p)
      <4>1. ~Excluded /\ paths' = Append(paths, CurrentPath)
        BY <2>10, <2>11, <3>2 DEF ListVisit
      <4>2. \E j \in DOMAIN paths' : Last(paths'[j]) = visit.id
        BY <3>1, <4>1, Written
      <4> QED BY <2>2, <2>11, <3>2, <4>2, StableParts
    <3>3. CASE n # Len(p)
      <4>1. visit.id \in Folders
        BY <2>2, <2>11, <3>3, StableParts
      <4>2. call.maxDepth # -1 /\ ~(Depth < call.maxDepth)
        BY <3>1, <4>1 DEF Deeper
      <4>3. Depth = n - 1
        <5>1. CASE Excluded
          BY <2>2, <2>10, <2>11, <5>1, CurrentChain
        <5>2. CASE ~Excluded
          <6>1. /\ CurrentPath \in Seq(Links) /\ Chain(CurrentPath)
                /\ Len(CurrentPath) = Depth + 1 - Cut
                /\ CurrentPath # <<>> /\ Last(CurrentPath) = p[n]
            BY <2>2, <2>11, <3>1, <5>2, CurrentChain, Written
          <6>2. Len(CurrentPath) = n - Cut
            BY <2>2, <6>1, OnlyPlace
          <6> QED BY <2>2, <2>9, <6>1, <6>2, ListingIs
        <5> QED BY <5>1, <5>2
      <4>4. call.maxDepth \in Nat /\ Len(p) - 1 <= call.maxDepth
        BY <2>2, <4>2, ListingIs DEF Required
      <4> QED BY <2>9, <3>3, <4>2, <4>3, <4>4
    <3> QED BY <3>2, <3>3
  <2>12. CASE pc = "children" /\ visit.id = p[n] /\ n = Len(p)
    <3>1. \E j \in DOMAIN paths : Last(paths[j]) = visit.id
      BY <2>2, <2>10, <2>12 DEF ControlOK
    <3> QED BY <2>2, <2>6, <2>12, <3>1, StableParts
  <2> QED BY <1>4, <2>2, <2>4, <2>7, <2>8, <2>11, <2>12, StillPending
<1> QED BY <1>2, <1>3, <1>4, StepIs

LEMMA ChainKept ==
    ASSUME Typed, ServerOK, Others \/ UNCHANGED <<server, touched>>, UNCHANGED call,
           NEW q \in Seq(Links), Chain(q)
    PROVE  Chain(q)'
<1>1. \A n \in 1..Len(q) : q[n] \in Links
  BY ElementOfSeq
<1>2. ASSUME NEW l \in Links, l \notin touched' PROVE l \notin touched /\ server'[l] = server[l]
  <2>1. CASE UNCHANGED <<server, touched>>
    BY <1>2, <2>1
  <2>2. CASE Others
    <3>1. PICK k \in Links \ {Root} : /\ touched' = touched \cup {k}
                                      /\ \A m \in Links \ {k} : server'[m] = server[m]
      BY <2>2, OthersChange
    <3> QED BY <1>2, <3>1
  <2> QED BY <2>1, <2>2
<1> QED BY <1>1, <1>2 DEF Chain, Before

LEMMA PathsTyped ==
    ASSUME Typed
    PROVE  /\ DOMAIN paths = 1..Len(paths) /\ Len(paths) \in Nat
           /\ \A j \in DOMAIN paths : paths[j] \in Seq(Links)
           /\ \A k \in DOMAIN stack : stack[k].path \in Seq(Links)
<1>1. paths \in Seq(Seq(Links))
  BY DEF Typed
<1> QED BY <1>1, LenProperties, ElementOfSeq, DepthIs DEF Frame

LEMMA ChainsNext ==
    ASSUME Typed, ServerOK, ControlOK, SnapshotsOK, Listing => ChainsOK, [Next]_vars, Listing'
    PROVE  ChainsOK'
<1>1. CASE \E c \in Calls : Begin(c)
  <2>1. stack' = <<>> /\ paths' = <<>>
    BY <1>1 DEF Begin, ControlOK
  <2> QED BY <2>1, NoDomain DEF ChainsOK
<1>2. SUFFICES ASSUME Others \/ UNCHANGED <<server, touched>>, UNCHANGED call,
                      Others => UNCHANGED <<stack, paths>>, ~(\E c \in Calls : Begin(c))
               PROVE  ChainsOK'
  BY <1>1, StepIs, WalkKeeps, OthersChange
<1>3. Listing /\ ChainsOK /\ Cut' = Cut
  BY <1>2 DEF Listing, Cut
<1>4. ASSUME NEW q \in Seq(Links), Chain(q) PROVE Chain(q)'
  BY <1>2, <1>4, ChainKept
<1> DEFINE FrameOK(f, k) == /\ f.path \in Seq(Links) /\ Chain(f.path) /\ Len(f.path) = k - Cut
                            /\ f.id = IF k > Cut THEN Last(f.path) ELSE Root
           PathOK(q) == q \in Seq(Links) /\ Chain(q) /\ q # <<>>
<1>5. /\ \A k \in DOMAIN stack : FrameOK(stack[k], k)
      /\ \A j \in DOMAIN paths : PathOK(paths[j])
      /\ DOMAIN stack = 1..Depth /\ Depth \in Nat
  BY <1>3, PathsTyped, DepthIs DEF ChainsOK
<1>6. SUFFICES /\ \A k \in DOMAIN stack' : \E f : /\ FrameOK(f, k) /\ stack'[k].path = f.path
                                                /\ stack'[k].id = f.id
               /\ \A j \in DOMAIN paths' : PathOK(paths'[j])
  BY <1>3, <1>4 DEF ChainsOK
<1>7. CASE UNCHANGED <<stack, paths>>
  BY <1>5, <1>7
<1>8. CASE Ends
  <2>1. DOMAIN stack' = {} /\ paths' = paths
    BY <1>8, EndStep DEF Ends
  <2> QED BY <1>5, <2>1
<1>9. CASE ListVisit
  <2>1. UNCHANGED stack /\ visit \in Snap
    BY <1>9 DEF ListVisit, ControlOK
  <2>2. CASE ~Excluded
    <3>1. paths' = Append(paths, CurrentPath)
      BY <1>9, <2>2 DEF ListVisit
    <3>2. PathOK(CurrentPath)
      BY <1>3, <1>9, <2>1, <2>2, CurrentChain, Written DEF ListVisit
    <3>3. \A j \in DOMAIN paths' : PathOK(paths'[j])
      <4>1. DOMAIN paths' = 1..(Len(paths) + 1) /\ paths'[Len(paths) + 1] = CurrentPath
        BY <2>1, <3>1, Written
      <4>2. DOMAIN paths = 1..Len(paths) /\ \A j \in DOMAIN paths : paths'[j] = paths[j]
        BY <2>1, <3>1, Written
      <4>3. Len(paths) \in Nat
        BY PathsTyped
      <4>4. ASSUME NEW j \in DOMAIN paths' PROVE j \in DOMAIN paths \/ j = Len(paths) + 1
        BY <4>1, <4>2, <4>3
      <4> HIDE DEF PathOK
      <4> QED BY <1>5, <3>2, <4>1, <4>2, <4>4
    <3> QED BY <1>5, <2>1, <3>3
  <2>3. CASE Excluded
    BY <1>5, <1>9, <2>1, <2>3 DEF ListVisit
  <2> QED BY <2>2, <2>3
<1>10. CASE ListChildren /\ server[visit.id].state # "absent"
  <2>1. /\ DOMAIN stack' = 1..(Depth + 1) /\ UNCHANGED paths
        /\ \A k \in 1..Depth : stack'[k] = stack[k]
        /\ stack'[Depth + 1].id = visit.id /\ stack'[Depth + 1].path = CurrentPath
    BY <1>3, <1>10, ListChildrenStep
  <2>2. FrameOK(stack'[Depth + 1], Depth + 1)
    <3>1. pc = "children"
      BY <1>10 DEF ListChildren
    <3>2. /\ CurrentPath \in Seq(Links) /\ Chain(CurrentPath)
          /\ Len(CurrentPath) = Depth + 1 - Cut
          /\ visit.id = IF Depth + 1 > Cut THEN Last(CurrentPath) ELSE Root
      BY <1>3, <3>1, CurrentChain
    <3>3. ASSUME NEW g, g.id = visit.id, g.path = CurrentPath PROVE FrameOK(g, Depth + 1)
      <4>1. g.path \in Seq(Links) /\ Chain(g.path)
        BY <3>2, <3>3
      <4>2. Len(g.path) = (Depth + 1) - Cut
        <5>1. Depth + 1 - Cut = (Depth + 1) - Cut
          BY <1>3, <1>5, ListingIs
        <5> QED BY <3>2, <3>3, <5>1
      <4>3. g.id = IF Depth + 1 > Cut THEN Last(g.path) ELSE Root
        BY <3>2, <3>3
      <4> QED BY <4>1, <4>2, <4>3
    <3> HIDE DEF FrameOK
    <3> QED BY <2>1, <3>3
  <2>3. \A k \in DOMAIN stack' : k \in 1..Depth \/ k = Depth + 1
    BY <1>5, <2>1
  <2> HIDE DEF FrameOK
  <2>4. \A k \in DOMAIN stack' : FrameOK(stack'[k], k)
    BY <1>5, <2>1, <2>2, <2>3
  <2> QED BY <1>5, <2>1, <2>4
<1>11. CASE NextChild
  BY <1>5, <1>11, NextChildStep
<1>12. CASE LoopEnds
  <2>1. /\ DOMAIN stack' = 1..(Depth - 1) /\ UNCHANGED paths
        /\ \A k \in 1..(Depth - 1) : stack'[k] = stack[k]
    BY <1>12, LoopEndsStep
  <2>2. \A k \in 1..(Depth - 1) : k \in 1..Depth
    BY <1>5
  <2> QED BY <1>5, <2>1, <2>2
<1>13. ~SearchVisit
  BY <1>3 DEF SearchVisit, Listing
<1>14. CASE Pass
  BY <1>7, <1>14 DEF Pass
<1> HIDE DEF FrameOK, PathOK
<1> QED BY <1>2, <1>7, <1>8, <1>9, <1>10, <1>11, <1>12, <1>13, <1>14, StepIs, EndsAre DEF Walk

LEMMA DepthNext ==
    ASSUME Typed, Typed', ServerOK, ControlOK, SnapshotsOK, Listing => ChainsOK /\ DepthOK,
           [Next]_vars, Listing'
    PROVE  DepthOK'
<1>1. SUFFICES ASSUME call'.maxDepth # -1
               PROVE  /\ Len(stack') <= call'.maxDepth
                      /\ \A j \in DOMAIN paths' : Len(paths'[j]) <= call'.maxDepth + 1 - Cut'
  BY DEF DepthOK
<1>2. CASE \E c \in Calls : Begin(c)
  <2>1. PICK c \in Calls : Begin(c)
    BY <1>2
  <2>2. stack' = <<>> /\ paths' = <<>> /\ call' = c
    BY <2>1 DEF Begin, ControlOK
  <2>3. c.maxDepth \in Nat
    BY <1>1, <2>2, CallIs DEF Listing
  <2> QED BY <2>2, <2>3, NoDomain
<1>3. SUFFICES ASSUME UNCHANGED call, ~(\E c \in Calls : Begin(c))
               PROVE  /\ Len(stack') <= call.maxDepth
                      /\ \A j \in DOMAIN paths' : Len(paths'[j]) <= call.maxDepth + 1 - Cut
  BY <1>2, StepIs, WalkKeeps DEF Cut
<1>4. Listing /\ ChainsOK /\ DepthOK /\ call.maxDepth \in Nat /\ Cut \in {0, 1}
  BY <1>1, <1>3, ListingIs DEF Listing
<1>5. /\ Depth <= call.maxDepth /\ Depth \in Nat /\ Len(stack) = Depth
      /\ \A j \in DOMAIN paths : Len(paths[j]) <= call.maxDepth + 1 - Cut
  BY <1>1, <1>3, <1>4, DepthIs DEF DepthOK
<1>6. CASE UNCHANGED <<stack, paths>>
  BY <1>5, <1>6
<1>7. CASE Ends
  <2>1. Len(stack') = 0 /\ UNCHANGED paths
    BY <1>7, EndStep, NoDomain DEF Ends
  <2> QED BY <1>4, <1>5, <2>1
<1>8. CASE ListVisit
  <2>1. UNCHANGED stack /\ visit \in Snap
    BY <1>8 DEF ListVisit, ControlOK
  <2>2. CASE ~Excluded
    <3>1. paths' = Append(paths, CurrentPath)
      BY <1>8, <2>2 DEF ListVisit
    <3>2. Len(CurrentPath) = Depth + 1 - Cut
      BY <1>4, <1>8, CurrentChain DEF ListVisit
    <3>3. Len(CurrentPath) <= call.maxDepth + 1 - Cut
      BY <1>4, <1>5, <3>2
    <3>4. \A j \in DOMAIN paths' : j \in DOMAIN paths \/ j = Len(paths) + 1
      BY <2>1, <3>1, Written
    <3>5. paths'[Len(paths) + 1] = CurrentPath /\ \A j \in DOMAIN paths : paths'[j] = paths[j]
      BY <2>1, <3>1, Written
    <3> QED BY <1>5, <2>1, <3>3, <3>4, <3>5
  <2>3. CASE Excluded
    BY <1>6, <1>8, <2>1, <2>3 DEF ListVisit
  <2> QED BY <2>2, <2>3
<1>9. CASE ListChildren /\ server[visit.id].state # "absent"
  <2>1. Len(stack') = Depth + 1 /\ UNCHANGED paths
    BY <1>9, ListChildrenStep
  <2>2. Depth < call.maxDepth
    BY <1>1, <1>3, <1>4, <1>9 DEF ControlOK, InDepth, ListChildren
  <2> QED BY <1>4, <1>5, <2>1, <2>2
<1>10. CASE NextChild
  BY <1>5, <1>10, NextChildStep
<1>11. CASE LoopEnds
  <2>1. Len(stack') = Depth - 1 /\ UNCHANGED paths
    BY <1>11, LoopEndsStep
  <2> QED BY <1>4, <1>5, <2>1
<1>12. ~SearchVisit
  BY <1>4 DEF SearchVisit, Listing
<1>13. CASE Pass
  BY <1>6, <1>13 DEF Pass
<1> QED BY <1>3, <1>6, <1>7, <1>8, <1>9, <1>10, <1>11, <1>12, <1>13, StepIs, EndsAre DEF Walk

-----------------------------------------------------------------------------
(* Names *)

LEMMA UnderAppend ==
    ASSUME NEW q \in Seq(Links), NEW p \in Seq(Links), NEW l \in Links,
           Under(q, Append(p, l))
    PROVE  Under(q, p) /\ Len(q) > Len(p) /\ Name[q[Len(p) + 1]] = Name[l]
<1> DEFINE m == Len(p)
           a == Append(p, l)
<1>1. m \in Nat /\ Len(q) \in Nat
  BY LenProperties
<1>2. Len(a) = m + 1 /\ a[m + 1] = l /\ \A i \in 1..m : a[i] = p[i]
  BY AppendProperties
<1>3. Len(a) <= Len(q) /\ \A i \in 1..Len(a) : Name[q[i]] = Name[a[i]]
  BY DEF Under
<1> HIDE DEF m, a
<1>4. m + 1 \in 1..Len(a) /\ (\A i \in 1..m : i \in 1..Len(a)) /\ Len(q) > m /\ m <= Len(q)
  BY <1>1, <1>2, <1>3
<1>5. Name[q[m + 1]] = Name[l] /\ \A i \in 1..m : Name[q[i]] = Name[p[i]]
  BY <1>2, <1>3, <1>4
<1> QED BY <1>4, <1>5 DEF Under, m

LEMMA UnderEqual ==
    ASSUME NEW q \in Seq(Links), NEW p \in Seq(Links), Len(p) = Len(q), Under(p, q)
    PROVE  Under(q, p)
BY LenProperties DEF Under

\* The path of the link visited parts from what is to be walked elsewhere.
LEMMA PartsFrom ==
    ASSUME Typed, ServerOK, Listing, ControlOK, SnapshotsOK, ChainsOK, NamesOK,
           pc \in {"visit", "children"}, visit.state = "active",
           NEW k \in 1..Depth, NEW c \in ActiveTodo(k)
    PROVE  /\ Len(CurrentPath) > Len(stack[k].path)
           /\ Name[CurrentPath[Len(stack[k].path) + 1]] # Name[c.id]
<1>1. /\ Depth \in Nat /\ DOMAIN stack = 1..Depth /\ Depth > 0 /\ Cut \in {0, 1} /\ k \in Nat
      /\ Top = stack[Depth]
  BY DepthIs, ListingIs
<1>2. visit \in Snap /\ visit.id \in Links
  BY DEF ControlOK, Snap
<1>3. ~Excluded
  BY <1>1 DEF Excluded
<1>4. CurrentPath = Append(Base, visit.id) /\ Base \in Seq(Links) /\ Base = stack[Depth].path
  BY <1>1, <1>2, <1>3, PathIs DEF Base
<1>5. Len(stack[k].path) = k - Cut /\ Len(stack[Depth].path) = Depth - Cut
  BY <1>1 DEF ChainsOK
<1> DEFINE b == Len(Base)
           n == Len(stack[k].path)
<1>6. /\ Len(CurrentPath) = b + 1 /\ CurrentPath[b + 1] = visit.id
      /\ \A i \in 1..b : CurrentPath[i] = Base[i]
  BY <1>2, <1>4, AppendProperties
<1>7. b = Depth - Cut /\ n = k - Cut /\ b \in Nat /\ n \in Nat
  BY <1>1, <1>4, <1>5, PathsTyped, LenProperties
<1> HIDE DEF b, n
<1>8. Len(CurrentPath) > n
  BY <1>1, <1>6, <1>7
<1>9. Name[CurrentPath[n + 1]] # Name[c.id]
  <2>1. CASE k = Depth
    BY <1>1, <1>6, <1>7, <2>1 DEF NamesOK
  <2>2. CASE k # Depth
    <3>1. Depth > k /\ Depth \in DOMAIN stack /\ k \in DOMAIN stack
      BY <1>1, <2>2
    <3>2. Name[stack[Depth].path[Len(stack[k].path) + 1]] # Name[c.id]
      BY <3>1 DEF NamesOK
    <3>3. n + 1 \in 1..b
      BY <1>1, <1>7, <3>1
    <3> QED BY <1>4, <1>6, <3>2, <3>3 DEF n
  <2> QED BY <2>1, <2>2
<1> QED BY <1>8, <1>9 DEF n

\* The parts of NamesOK
WrittenApart ==
    \A j, k \in DOMAIN paths :
        j # k => ~(Len(paths[j]) = Len(paths[k]) /\ Under(paths[j], paths[k]))

TodoApart(k, c) ==
    /\ \A j \in DOMAIN paths : ~Under(paths[j], Append(stack[k].path, c.id))
    /\ \A d \in ActiveTodo(k) : c # d => Name[c.id] # Name[d.id]
    /\ \A m \in DOMAIN stack : m > k =>
         /\ Len(stack[m].path) > Len(stack[k].path)
         /\ Name[stack[m].path[Len(stack[k].path) + 1]] # Name[c.id]

VisitApart ==
    pc \in {"visit", "children"} /\ visit.state = "active" =>
         /\ Depth > 0 => \A c \in ActiveTodo(Depth) : Name[c.id] # Name[visit.id]
         /\ \A j \in DOMAIN paths :
              Under(paths[j], CurrentPath) => pc = "children" /\ Len(paths[j]) = Len(CurrentPath)

LEMMA NamesParts ==
    NamesOK <=> /\ WrittenApart /\ VisitApart
                /\ \A k \in DOMAIN stack : \A c \in ActiveTodo(k) : TodoApart(k, c)
BY DEF NamesOK, WrittenApart, TodoApart, VisitApart

LEMMA NamesNext ==
    ASSUME Typed, Typed', ServerOK, ControlOK, SnapshotsOK, Listing => ChainsOK /\ NamesOK,
           [Next]_vars, Listing'
    PROVE  NamesOK'
<1>1. SUFFICES /\ WrittenApart' /\ VisitApart'
               /\ \A k \in DOMAIN stack' : \A c \in ActiveTodo(k)' : TodoApart(k, c)'
  BY DEF NamesOK, WrittenApart, TodoApart, VisitApart
<1>2. CASE \E c \in Calls : Begin(c)
  <2>1. stack' = <<>> /\ paths' = <<>>
    BY <1>2 DEF Begin, ControlOK
  <2>2. DOMAIN stack' = {} /\ DOMAIN paths' = {} /\ Depth' = 0
    BY <2>1, NoDomain DEF Depth
  <2> QED BY <2>2 DEF WrittenApart, VisitApart
<1>3. CASE UNCHANGED <<call, pc, visit, stack, paths>>
  <2>1. CurrentPath' = CurrentPath /\ Depth' = Depth
    BY <1>3 DEF CurrentPath, Excluded, Depth, Top
  <2>2. Listing /\ NamesOK
    BY <1>3 DEF Listing
  <2> QED BY <1>3, <2>1, <2>2, NamesParts
          DEF WrittenApart, TodoApart, VisitApart, ActiveTodo
<1>4. CASE Walk
  <2>1. UNCHANGED <<server, touched, call>> /\ pc # "idle"
    BY <1>4, WalkKeeps
  <2>2. Listing /\ ChainsOK /\ WrittenApart /\ VisitApart /\ NamesOK
        /\ \A k \in DOMAIN stack : \A c \in ActiveTodo(k) : TodoApart(k, c)
    BY <2>1, NamesParts DEF Listing
  <2>3. /\ DOMAIN stack = 1..Depth /\ Depth \in Nat /\ Cut \in {0, 1} /\ Walked = {"active"}
        /\ \A k \in DOMAIN stack : stack[k].path \in Seq(Links) /\ stack[k].todo \subseteq Snap
        /\ \A j \in DOMAIN paths : paths[j] \in Seq(Links)
    BY <2>2, DepthIs, ListingIs, PathsTyped DEF Walked, Listing, Frame
  <2>4. CASE Ends
    <3>1. DOMAIN stack' = {} /\ pc' = "idle" /\ UNCHANGED paths
      BY <2>4, EndStep DEF Ends
    <3> QED BY <2>2, <3>1 DEF WrittenApart, VisitApart
  <2>5. CASE Pass
    <3>1. UNCHANGED <<stack, paths>> /\ pc' = "loop"
      BY <2>5 DEF Pass
    <3> QED BY <2>2, <3>1 DEF WrittenApart, VisitApart, TodoApart, ActiveTodo
  <2>6. CASE ListVisit
    <3>1. /\ pc = "visit" /\ UNCHANGED stack /\ visit \in Snap /\ visit.state = "active"
          /\ pc' \in {"loop", "children"} /\ (pc' = "children" => UNCHANGED visit)
      BY <2>3, <2>6 DEF ListVisit, ControlOK
    <3>2. \A j \in DOMAIN paths : ~Under(paths[j], CurrentPath)
      BY <2>2, <3>1 DEF VisitApart
    <3>3. /\ Depth' = Depth /\ \A k : ActiveTodo(k)' = ActiveTodo(k)
          /\ pc' = "children" => CurrentPath' = CurrentPath
      BY <2>1, <3>1 DEF Depth, ActiveTodo, CurrentPath, Excluded, Top
    <3>4. pc' = "children" /\ Depth > 0 =>
              \A c \in ActiveTodo(Depth) : Name[c.id] # Name[visit.id]
      BY <2>2, <3>1 DEF VisitApart
    <3>5. CASE Excluded
      <4>1. UNCHANGED paths
        BY <2>6, <3>5 DEF ListVisit
      <4> QED BY <2>2, <3>1, <3>2, <3>3, <3>4, <4>1 DEF WrittenApart, VisitApart, TodoApart
    <3>6. CASE ~Excluded
      <4> DEFINE P == Len(paths) + 1
      <4>1. paths' = Append(paths, CurrentPath)
        BY <2>6, <3>6 DEF ListVisit
      <4>2. /\ DOMAIN paths' = 1..P /\ DOMAIN paths = 1..Len(paths)
            /\ paths'[P] = CurrentPath /\ \A j \in DOMAIN paths : paths'[j] = paths[j]
        BY <3>1, <4>1, Written
      <4>3. \A j \in DOMAIN paths' : j \in DOMAIN paths \/ j = P
        BY <4>2, PathsTyped
      <4> HIDE DEF P
      <4>4. CurrentPath \in Seq(Links)
        BY <3>1, PathIs
      <4>5. WrittenApart'
        <5>1. ASSUME NEW j \in DOMAIN paths, Len(CurrentPath) = Len(paths[j])
              PROVE  ~Under(CurrentPath, paths[j])
          <6>1. paths[j] \in Seq(Links) /\ ~Under(paths[j], CurrentPath)
            BY <2>3, <3>2
          <6>2. SUFFICES ASSUME Under(CurrentPath, paths[j]) PROVE Under(paths[j], CurrentPath)
            BY <6>1
          <6> QED BY <4>4, <5>1, <6>1, <6>2, UnderEqual
        <5> QED BY <2>2, <3>2, <4>2, <4>3, <5>1 DEF WrittenApart
      <4>6. VisitApart'
        BY <3>1, <3>2, <3>3, <3>4, <4>2, <4>3 DEF VisitApart
      <4>7. ASSUME NEW k \in DOMAIN stack', NEW c \in ActiveTodo(k)' PROVE TodoApart(k, c)'
        <5>1. k \in 1..Depth /\ c \in ActiveTodo(k) /\ c.id \in Links
          BY <2>3, <3>1, <3>3, <4>7 DEF ActiveTodo, Snap
        <5>2. TodoApart(k, c)
          BY <2>2, <2>3, <5>1
        <5>3. ~Under(CurrentPath, Append(stack[k].path, c.id))
          <6>1. Name[CurrentPath[Len(stack[k].path) + 1]] # Name[c.id]
            BY <2>2, <3>1, <5>1, PartsFrom
          <6> QED BY <2>3, <4>4, <5>1, <6>1, UnderAppend
        <5> QED BY <3>1, <3>3, <4>2, <4>3, <5>2, <5>3 DEF TodoApart
      <4> QED BY <4>5, <4>6, <4>7
    <3> QED BY <3>5, <3>6
  <2>7. CASE ListChildren /\ server[visit.id].state # "absent"
    <3>1. /\ visit \in Snap /\ visit.id \in Folders
          /\ DOMAIN stack' = 1..(Depth + 1) /\ \A k \in 1..Depth : stack'[k] = stack[k]
          /\ stack'[Depth + 1].path = CurrentPath
          /\ stack'[Depth + 1].todo = {Snapshot(c) : c \in Children(visit.id)}
          /\ pc' = "loop" /\ UNCHANGED <<server, paths>>
      BY <2>2, <2>7, ListChildrenStep
    <3>2. pc = "children" /\ visit.state = "active"
      BY <2>3, <2>7 DEF ListChildren, ControlOK
    <3>3. CurrentPath \in Seq(Links) /\ Len(CurrentPath) \in Nat
      BY <3>1, PathIs, LenProperties
    <3>4. ASSUME NEW k \in DOMAIN stack', NEW c \in ActiveTodo(k)', k # Depth + 1
          PROVE  TodoApart(k, c)'
      <4>1. k \in 1..Depth /\ k \in Nat /\ stack'[k] = stack[k] /\ c \in ActiveTodo(k)
            /\ ActiveTodo(k)' = ActiveTodo(k)
        BY <2>3, <3>1, <3>4 DEF ActiveTodo
      <4>2. TodoApart(k, c)
        BY <2>2, <2>3, <4>1
      <4>3. /\ Len(CurrentPath) > Len(stack[k].path)
            /\ Name[CurrentPath[Len(stack[k].path) + 1]] # Name[c.id]
        BY <2>2, <3>2, <4>1, PartsFrom
      <4>4. ASSUME NEW m \in DOMAIN stack', m > k
            PROVE  /\ Len(stack'[m].path) > Len(stack'[k].path)
                   /\ Name[stack'[m].path[Len(stack'[k].path) + 1]] # Name[c.id]
        <5>1. CASE m = Depth + 1
          BY <3>1, <4>1, <4>3, <5>1
        <5>2. CASE m # Depth + 1
          <6>1. m \in DOMAIN stack /\ stack'[m] = stack[m]
            BY <2>3, <3>1, <5>2
          <6> QED BY <4>1, <4>2, <4>4, <6>1 DEF TodoApart
        <5> QED BY <5>1, <5>2
      <4> QED BY <3>1, <4>1, <4>2, <4>4 DEF TodoApart
    <3>5. ASSUME NEW k \in DOMAIN stack', NEW c \in ActiveTodo(k)', k = Depth + 1
          PROVE  TodoApart(k, c)'
      <4>1. ASSUME NEW d \in ActiveTodo(k)'
            PROVE  d.id \in Links /\ server[d.id].parent = visit.id
                   /\ server[d.id].state = "active" /\ d = Snapshot(d.id)
        <5>1. d \in {Snapshot(l) : l \in Children(visit.id)} /\ d.state = "active"
          BY <3>1, <3>5, <4>1 DEF ActiveTodo
        <5>2. PICK l \in Children(visit.id) : d = Snapshot(l)
          BY <5>1
        <5>3. l \in Links /\ server[l].parent = visit.id
          BY <5>2 DEF Children
        <5> QED BY <5>1, <5>2, <5>3, SnapshotIs
      <4>2. ASSUME NEW d \in ActiveTodo(k)', c # d PROVE Name[c.id] # Name[d.id]
        <5>1. c.id # d.id
          BY <4>1, <4>2
        <5> QED BY <3>1, <4>1, <5>1 DEF ServerOK, NamesUnique
      <4>3. ASSUME NEW j \in DOMAIN paths, Under(paths[j], Append(CurrentPath, c.id)) PROVE FALSE
        <5>1. Under(paths[j], CurrentPath) /\ Len(paths[j]) > Len(CurrentPath)
          <6>1. c.id \in Links /\ paths[j] \in Seq(Links)
            BY <2>3, <4>1
          <6> QED BY <3>3, <4>3, <6>1, UnderAppend
        <5>2. Len(paths[j]) = Len(CurrentPath)
          BY <2>2, <3>2, <5>1 DEF VisitApart
        <5> QED BY <3>3, <5>1, <5>2
      <4>4. \A m \in DOMAIN stack' : ~(m > k)
        BY <2>3, <3>1, <3>5
      <4> QED BY <3>1, <3>5, <4>2, <4>3, <4>4 DEF TodoApart
    <3> QED BY <2>2, <3>1, <3>4, <3>5 DEF WrittenApart, VisitApart
  <2>8. CASE NextChild
    <3>1. PICK c \in Snap :
              /\ c \in stack[Depth].todo /\ visit' = c
              /\ \A k \in 1..Depth :
                   stack'[k].todo = IF k = Depth THEN stack[k].todo \ {c} ELSE stack[k].todo
      BY <2>8, NextChildStep
    <3>2. /\ Depth \in 1..Depth /\ DOMAIN stack' = 1..Depth /\ Depth' = Depth
          /\ \A k \in 1..Depth : stack'[k].path = stack[k].path
          /\ pc' = "visit" /\ UNCHANGED paths
      BY <2>8, NextChildStep
    <3>3. ASSUME NEW k \in 1..Depth PROVE /\ ActiveTodo(k)' \subseteq ActiveTodo(k)
                                          /\ k = Depth => c \notin ActiveTodo(k)'
      BY <3>1 DEF ActiveTodo
    <3>4. ASSUME NEW k \in DOMAIN stack', NEW d \in ActiveTodo(k)' PROVE TodoApart(k, d)'
      <4>1. k \in 1..Depth /\ d \in ActiveTodo(k) /\ ActiveTodo(k)' \subseteq ActiveTodo(k)
        BY <3>2, <3>3, <3>4
      <4>2. TodoApart(k, d)
        BY <2>2, <2>3, <4>1
      <4> QED BY <2>3, <3>2, <4>1, <4>2 DEF TodoApart
    <3>5. CASE visit'.state = "active"
      <4>1. c \in ActiveTodo(Depth) /\ c.id \in Links
        BY <3>1, <3>5 DEF ActiveTodo, Snap
      <4>2. TodoApart(Depth, c)
        BY <2>2, <2>3, <3>2, <4>1
      <4>3. \A d \in ActiveTodo(Depth)' : Name[d.id] # Name[visit'.id]
        BY <3>1, <3>2, <3>3, <4>2 DEF TodoApart
      <4>4. CurrentPath' = Append(stack[Depth].path, c.id)
        <5>1. Depth # 0 /\ stack[Depth].path \in Seq(Links)
          BY <2>3, <3>2
        <5>2. Top'.path = stack[Depth].path
          BY <3>2 DEF Top
        <5>3. CurrentPath' = stack[Depth].path \o <<c.id>>
          BY <3>1, <3>2, <5>1, <5>2 DEF CurrentPath, Excluded
        <5> QED BY <4>1, <5>1, <5>3, AppendIsConcat
      <4>5. \A j \in DOMAIN paths' : ~Under(paths'[j], CurrentPath')
        BY <3>2, <4>2, <4>4 DEF TodoApart
      <4>6. VisitApart'
        BY <3>2, <4>3, <4>5 DEF VisitApart, Under
      <4> QED BY <2>2, <3>2, <3>4, <4>6 DEF WrittenApart
    <3>6. CASE visit'.state # "active"
      BY <2>2, <3>2, <3>4, <3>6 DEF WrittenApart, VisitApart
    <3> QED BY <3>5, <3>6
  <2>9. CASE LoopEnds
    <3>1. /\ DOMAIN stack' = 1..(Depth - 1) /\ \A k \in 1..(Depth - 1) : stack'[k] = stack[k]
          /\ pc' = "loop" /\ UNCHANGED paths
      BY <2>9, LoopEndsStep
    <3>2. \A k \in DOMAIN stack' : k \in DOMAIN stack /\ ActiveTodo(k)' = ActiveTodo(k)
      BY <2>3, <3>1 DEF ActiveTodo
    <3>3. ASSUME NEW k \in DOMAIN stack', NEW c \in ActiveTodo(k)' PROVE TodoApart(k, c)'
      <4>1. TodoApart(k, c)
        BY <2>2, <3>2, <3>3
      <4> QED BY <3>1, <3>2, <4>1 DEF TodoApart
    <3> QED BY <2>2, <3>1, <3>3 DEF WrittenApart, VisitApart
  <2>10. ~SearchVisit
    BY <2>2 DEF SearchVisit, Listing
  <2> QED BY <1>4, <2>4, <2>5, <2>6, <2>7, <2>8, <2>9, <2>10, EndsAre DEF Walk
<1> QED BY <1>2, <1>3, <1>4, StepIs

-----------------------------------------------------------------------------
(* Theorems *)

LEMMA InitIInv == Init => IInv
<1> SUFFICES ASSUME Init PROVE IInv
  OBVIOUS
<1>1. Typed
  BY InitTyped
<1>2. ServerOK
  BY TreeAssumption DEF Init, ServerOK
<1>3. ControlOK
  BY DEF Init, ControlOK
<1>4. SnapshotsOK
  BY NoDomain DEF Init, SnapshotsOK
<1>5. SearchCovers /\ ~Listing
  BY NoCallIs DEF Init, SearchCovers, Listing
<1> QED BY <1>1, <1>2, <1>3, <1>4, <1>5 DEF IInv

LEMMA NextIInv == IInv /\ [Next]_vars => IInv'
<1> SUFFICES ASSUME IInv, [Next]_vars PROVE IInv'
  OBVIOUS
<1>1. /\ Typed /\ ServerOK /\ ControlOK /\ SnapshotsOK /\ SearchCovers
      /\ Listing => ListCovers /\ ChainsOK /\ DepthOK /\ NamesOK
  BY DEF IInv
<1>2. Typed'
  BY <1>1, TypedNext
<1>3. ServerOK'
  BY <1>1, ServerNext
<1>4. ControlOK'
  BY <1>1, ControlNext
<1>5. SnapshotsOK'
  BY <1>1, SnapshotsNext
<1>6. SearchCovers'
  BY <1>1, <1>2, SearchNext
<1>7. ASSUME Listing' PROVE ListCovers' /\ ChainsOK' /\ DepthOK' /\ NamesOK'
  BY <1>1, <1>2, <1>7, ListNext, ChainsNext, DepthNext, NamesNext
<1> QED BY <1>2, <1>3, <1>4, <1>5, <1>6, <1>7 DEF IInv

\* Every reachable state satisfies the invariant, whatever other clients do to the tree.
THEOREM Invariance == Spec => []IInv
BY InitIInv, NextIInv, PTL DEF Spec

\* The variables have their types.
THEOREM TypeCorrect == Spec => []TypeOK
<1>1. IInv => TypeOK
  <2> SUFFICES ASSUME IInv PROVE TypeOK
    OBVIOUS
  <2>1. Typed
    BY DEF IInv
  <2>2. visit.id \in Links \cup {NoLink} /\ visit.state \in States
    BY <2>1, NothingIs DEF Typed, Snap, States
  <2>3. \A k \in DOMAIN stack : /\ stack[k].id \in Folders
                                /\ \A c \in stack[k].todo : c.id \in Links /\ c.state \in States
    BY <2>1, DepthIs DEF Frame, Snap
  <2> QED BY <2>1, <2>2, <2>3 DEF Typed, TypeOK
<1> QED BY <1>1, Invariance, PTL

\* No two links are listed under the same names: what is still to be walked has
\* other names than all that is written (ListVisit, NextChild), because names are
\* unique in a folder at the moment it is listed.
THEOREM Distinct == Spec => []PathsDistinct
<1>1. IInv => PathsDistinct
  <2> SUFFICES ASSUME IInv, call.op = "list", NEW j \in DOMAIN paths, NEW k \in DOMAIN paths,
                      j # k, [n \in DOMAIN paths[j] |-> Name[paths[j][n]]]
                                = [n \in DOMAIN paths[k] |-> Name[paths[k][n]]]
               PROVE  FALSE
    BY DEF PathsDistinct
  <2>1. Typed /\ NamesOK
    BY DEF IInv, Listing
  <2> DEFINE q == paths[j]
             p == paths[k]
  <2>2. q \in Seq(Links) /\ p \in Seq(Links)
    BY <2>1, PathsTyped
  <2>3. ~(Len(q) = Len(p) /\ Under(q, p))
    BY <2>1 DEF NamesOK
  <2> HIDE DEF q, p
  <2>4. [n \in DOMAIN q |-> Name[q[n]]] = [n \in DOMAIN p |-> Name[p[n]]]
    BY DEF q, p
  <2>5. DOMAIN q = DOMAIN p /\ \A n \in DOMAIN p : Name[q[n]] = Name[p[n]]
    BY <2>4
  <2>6. DOMAIN q = 1..Len(q) /\ DOMAIN p = 1..Len(p) /\ Len(q) \in Nat /\ Len(p) \in Nat
    BY <2>2, LenProperties
  <2>7. Len(q) = Len(p)
    <3>1. ASSUME NEW m \in Nat, NEW n \in Nat, 1..m = 1..n, m < n PROVE FALSE
      <4>1. n \in 1..n /\ n \notin 1..m
        BY <3>1
      <4> QED BY <3>1, <4>1
    <3>2. 1..Len(q) = 1..Len(p)
      BY <2>5, <2>6
    <3>3. ASSUME NEW m \in Nat, NEW n \in Nat, 1..m = 1..n PROVE m = n
      <4>1. ~(m < n) /\ ~(n < m)
        BY <3>1, <3>3
      <4> QED BY <4>1
    <3> QED BY <2>6, <3>2, <3>3
  <2> QED BY <2>3, <2>5, <2>6, <2>7 DEF Under
<1> QED BY <1>1, Invariance, PTL

LEMMA NothingPending ==
    ASSUME ControlOK, pc = "idle", NEW l
    PROVE  ~Pending(l)
BY NoDomain DEF ControlOK, Pending

\* A search that answers nil has passed over no link of the name that was there,
\* in its place, all the time: the way to each stays before the walk until the
\* walk is there.
THEOREM Absent == Spec => []NilMeansAbsent
<1>1. IInv => NilMeansAbsent
  <2> SUFFICES ASSUME IInv, pc = "idle", call.op = "search", result = "ok",
                      NEW p \in StablePaths,
                      Type(Last(p)) = call.linkType, Name[Last(p)] = call.target
               PROVE  FALSE
    BY DEF NilMeansAbsent
  <2>1. Typed /\ ControlOK /\ SearchCovers
    BY DEF IInv
  <2>2. call.start \in Links
    BY <2>1, CallIs, NoCallIs DEF Typed
  <2>3. StablePath(p)
    BY <2>2, StablePathsAre
  <2>4. PICK n \in 1..Len(p) : Pending(p[n])
    BY <2>1, <2>3 DEF SearchCovers, Sought
  <2> QED BY <2>1, <2>4, NothingPending
<1> QED BY <1>1, Invariance, PTL

\* What a listing is to write for a stable path
LEMMA ToListIs ==
    ASSUME Typed, Listing, NEW w \in ToList
    PROVE  \E p : /\ StablePath(p) /\ Required(p) /\ w \in Seq(Links) /\ Len(w) = Len(p) - Cut
                  /\ \A i \in 1..Len(w) : w[i] = p[i + Cut]
                  /\ Last(w) = Last(p)
<1>1. call.start \in Links /\ call.excludeRoot \in BOOLEAN /\ Root \in Links
  BY ListingIs, RootIs
<1>2. CASE ~call.excludeRoot
  <2>1. w \in StablePaths /\ (call.maxDepth = -1 \/ Len(w) - 1 <= call.maxDepth)
    BY <1>2 DEF ToList
  <2>2. StablePath(w)
    BY <1>1, <2>1, StablePathsAre
  <2>3. Required(w) /\ Cut = 0
    BY <1>2, <2>1 DEF Required, Cut
  <2>4. w \in Seq(Links) /\ Len(w) \in Nat
    BY <2>2, LenProperties DEF StablePath
  <2>5. Len(w) = Len(w) - Cut /\ \A i \in 1..Len(w) : w[i] = w[i + Cut]
    <3>1. \A i \in 1..Len(w) : i + Cut = i
      BY <2>3, <2>4
    <3>2. Len(w) - Cut = Len(w)
      BY <2>3, <2>4
    <3> QED BY <3>1, <3>2
  <2> QED BY <2>2, <2>3, <2>4, <2>5
<1>3. CASE call.excludeRoot
  <2>1. PICK p \in StablePaths : /\ call.maxDepth = -1 \/ Len(p) - 1 <= call.maxDepth
                                 /\ Len(p) > 1 /\ w = Tail(p)
    BY <1>3 DEF ToList
  <2>2. StablePath(p)
    BY <1>1, StablePathsAre
  <2>3. Required(p) /\ Cut = 1
    BY <1>3, <2>1 DEF Required, Cut
  <2>4. p \in Seq(Links) /\ Len(p) \in Nat /\ p # <<>>
    BY <2>2, LenProperties DEF StablePath
  <2> DEFINE L == Len(p)
  <2>5. /\ w \in Seq(Links) /\ Len(w) = L - 1
        /\ \A i \in 1..(L - 1) : w[i] = p[i + 1]
    BY <2>1, <2>4, HeadTailProperties
  <2>6. Last(p) = p[L] /\ Last(w) = w[L - 1]
    BY <2>5 DEF Last
  <2>7. L \in Nat /\ L > 1
    BY <2>1, <2>4
  <2> HIDE DEF L
  <2>8. L - 1 \in 1..(L - 1) /\ (L - 1) + 1 = L
    BY <2>7
  <2>9. Last(w) = Last(p)
    BY <2>5, <2>6, <2>8
  <2>10. Len(w) = L - Cut /\ \A i \in 1..Len(w) : w[i] = p[i + Cut]
    BY <2>3, <2>5
  <2> QED BY <2>2, <2>3, <2>5, <2>9, <2>10 DEF L
<1> QED BY <1>1, <1>2, <1>3

\* A listing that reports no error has each link that stayed where it was once
\* and under its own path, and goes no deeper than asked.
THEOREM ListedOnce == Spec => []ListsStableOnce
<1>1. IInv => ListsStableOnce
  <2> SUFFICES ASSUME IInv, ListingDone
               PROVE  /\ \A w \in ToList : \A k \in DOMAIN paths :
                           Last(paths[k]) = Last(w) => paths[k] = w
                      /\ \A w \in ToList : Cardinality({k \in DOMAIN paths : paths[k] = w}) = 1
                      /\ call.maxDepth # -1 => \A k \in DOMAIN paths :
                            Len(paths[k]) <= call.maxDepth + (IF call.excludeRoot THEN 0 ELSE 1)
    BY DEF ListsStableOnce
  <2>1. Listing /\ pc = "idle" /\ result = "ok"
    BY DEF ListingDone, Listing
  <2>2. /\ Typed /\ ServerOK /\ ControlOK /\ ListCovers /\ ChainsOK /\ DepthOK /\ NamesOK
    BY <2>1 DEF IInv
  <2>3. ASSUME NEW w \in ToList, NEW k \in DOMAIN paths, Last(paths[k]) = Last(w)
        PROVE  paths[k] = w
    <3>1. PICK p : /\ StablePath(p) /\ w \in Seq(Links) /\ Len(w) = Len(p) - Cut
                   /\ \A i \in 1..Len(w) : w[i] = p[i + Cut]
                   /\ Last(w) = Last(p)
      BY <2>1, <2>2, ToListIs
    <3>2. paths[k] \in Seq(Links) /\ Chain(paths[k]) /\ paths[k] # <<>>
      BY <2>2, PathsTyped DEF ChainsOK
    <3>3. Len(p) \in 1..Len(p) /\ Last(paths[k]) = p[Len(p)]
      BY <2>2, <2>3, <3>1, StableParts
    <3>4. /\ Len(paths[k]) = Len(p) - Cut
          /\ \A i \in 1..Len(paths[k]) : paths[k][i] = p[i + Cut]
      BY <2>1, <2>2, <3>1, <3>2, <3>3, OnlyPlace
    <3>5. Len(paths[k]) = Len(w) /\ \A i \in 1..Len(w) : paths[k][i] = w[i]
      BY <3>1, <3>4
    <3> QED BY <3>1, <3>2, <3>5, SeqEqual
  <2>4. ASSUME NEW w \in ToList PROVE Cardinality({k \in DOMAIN paths : paths[k] = w}) = 1
    <3>1. PICK p : StablePath(p) /\ Required(p) /\ Last(w) = Last(p)
      BY <2>1, <2>2, ToListIs
    <3>2. PICK j \in DOMAIN paths : Last(paths[j]) = Last(p)
      BY <2>1, <2>2, <3>1, NothingPending DEF ListCovers
    <3>3. paths[j] = w
      BY <2>3, <3>1, <3>2
    <3>4. ASSUME NEW k \in DOMAIN paths, paths[k] = w PROVE k = j
      <4>1. Under(w, w)
        <5>1. Len(w) \in Nat
          BY <2>2, <3>3, PathsTyped, LenProperties
        <5> QED BY <5>1 DEF Under
      <4> QED BY <2>2, <3>3, <3>4, <4>1 DEF NamesOK
    <3>5. {k \in DOMAIN paths : paths[k] = w} = {j}
      BY <3>3, <3>4
    <3> QED BY <3>5, FS_Singleton
  <2>5. ASSUME call.maxDepth # -1, NEW k \in DOMAIN paths
        PROVE  Len(paths[k]) <= call.maxDepth + (IF call.excludeRoot THEN 0 ELSE 1)
    <3>1. Len(paths[k]) <= call.maxDepth + 1 - Cut /\ call.maxDepth \in Nat
      BY <2>1, <2>2, <2>5, ListingIs DEF DepthOK
    <3>2. call.maxDepth + 1 - Cut = call.maxDepth + (IF call.excludeRoot THEN 0 ELSE 1)
      BY <3>1 DEF Cut
    <3> QED BY <3>1, <3>2
  <2> QED BY <2>3, <2>4, <2>5
<1> QED BY <1>1, Invariance, PTL
=============================================================================
