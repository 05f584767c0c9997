------------------------- MODULE CacheRemoveProofs -------------------------
(***************************************************************************)
(* The recursion of _remove_nolock never contradicts its maps, never ends  *)
(* the process and enters no link twice, for any number of links and       *)
(* whatever tables insertions can build.                                   *)
(***************************************************************************)
EXTENDS CacheRemove, TLAPS

Cell  == [link : Link, kr : {None}]
Maps  == [data : [Links -> Cell \cup {None}], children : [Parents -> SUBSET Links]]
Frame == [link : Links, seen : SUBSET Links]

Typed ==
    /\ maps \in Maps
    /\ stack \in Seq(Frame)
    /\ entry \in Links \cup {None}

\* The link of an active call has left `data`, and so has every link the call
\* has yielded, but for the one it is about to handle: so the maps that Finish
\* deletes register no cached link any more.
FramesOK ==
    \A i \in DOMAIN stack :
        /\ stack[i].link \notin Cached(maps)
        /\ \A k \in stack[i].seen : k \in Cached(maps) => k = entry

RemovalInv == Typed /\ ~dead /\ MapsAgree /\ FramesOK /\ NoReentry

-----------------------------------------------------------------------------
(* The operators of LinkTable *)

\* An insertion registers the link it caches and takes no registration away.
LEMMA InsertRegisters ==
    ASSUME NEW t \in Maps, Registered(t), NEW link \in Link
    PROVE  Insert(t, link) \in Maps /\ Registered(Insert(t, link))
<1> DEFINE u == Insert(t, link)
<1>1. link.id \in Links /\ link.parent \in Parents
  BY DEF Link
<1>2. [link |-> link, kr |-> None] \in Cell
  BY DEF Cell
<1>3. u.data = [t.data EXCEPT ![link.id] = [link |-> link, kr |-> None]]
      /\ u.children = [t.children EXCEPT ![link.parent] = t.children[link.parent] \cup {link.id}]
  BY DEF Insert
<1>4. u \in Maps
  <2>1. u.data \in [Links -> Cell \cup {None}]
    BY <1>1, <1>2, <1>3 DEF Maps
  <2>2. u.children \in [Parents -> SUBSET Links]
    BY <1>1, <1>3 DEF Maps
  <2> QED BY <2>1, <2>2 DEF Insert, Maps
<1>5. ASSUME NEW l \in Cached(u) PROVE l \in u.children[ParentOf(u, l)]
  <2>1. CASE l = link.id
    <3>1. ParentOf(u, l) = link.parent
      BY <1>1, <1>3, <2>1 DEF ParentOf, Maps
    <3> QED BY <1>1, <1>3, <2>1, <3>1 DEF Maps
  <2>2. CASE l # link.id
    <3>1. l \in Links /\ u.data[l] = t.data[l] /\ l \in Cached(t)
      BY <1>1, <1>3, <1>5, <2>2 DEF Cached, Maps
    <3>2. ParentOf(u, l) = ParentOf(t, l) /\ ParentOf(t, l) \in Parents
      <4>1. t.data[l] \in Cell
        BY <3>1 DEF Cached, Maps
      <4> QED BY <3>1, <4>1 DEF ParentOf, Cell, Link
    <3>3. l \in t.children[ParentOf(t, l)]
      BY <3>1 DEF Registered
    <3> QED BY <1>1, <1>3, <3>2, <3>3 DEF Maps
  <2> QED BY <2>1, <2>2
<1> QED BY <1>4, <1>5 DEF Registered

\* An empty table is one of them.
LEMMA EmptyRegisters == EmptyTable \in Maps /\ Registered(EmptyTable)
<1>1. EmptyTable \in Maps
  BY DEF EmptyTable, Maps
<1>2. Cached(EmptyTable) = {}
  BY DEF EmptyTable, Cached
<1> QED BY <1>1, <1>2 DEF Registered

-----------------------------------------------------------------------------
(* The invariant *)

\* A stack without its last call.
LEMMA Popped ==
    ASSUME NEW s \in Seq(Frame), s # <<>>
    PROVE  /\ SubSeq(s, 1, Len(s) - 1) \in Seq(Frame)
           /\ DOMAIN SubSeq(s, 1, Len(s) - 1) \subseteq DOMAIN s
           /\ \A i \in DOMAIN SubSeq(s, 1, Len(s) - 1) : SubSeq(s, 1, Len(s) - 1)[i] = s[i]
<1>1. Len(s) \in Nat /\ Len(s) > 0 /\ DOMAIN s = 1..Len(s)
  OBVIOUS
<1> QED BY <1>1

\* The call on top of the stack
LEMMA TopIsLast ==
    ASSUME Typed, stack # <<>>
    PROVE  Len(stack) \in DOMAIN stack /\ Top = stack[Len(stack)] /\ Top \in Frame
<1>1. Len(stack) \in Nat /\ Len(stack) > 0 /\ DOMAIN stack = 1..Len(stack)
  BY DEF Typed
<1> QED BY <1>1 DEF Top, Typed

LEMMA InitRemoval == Init => RemovalInv
<1> SUFFICES ASSUME Init PROVE RemovalInv
  OBVIOUS
<1>1. stack = <<>> /\ DOMAIN stack = {}
  BY DEF Init
<1>2. Typed /\ MapsAgree
  BY EmptyRegisters DEF Init, Typed, MapsAgree
<1> QED BY <1>1, <1>2 DEF Init, RemovalInv, FramesOK, NoReentry

LEMMA InsertRemoval == RemovalInv /\ InsertLink => RemovalInv'
<1> SUFFICES ASSUME RemovalInv, InsertLink PROVE RemovalInv'
  OBVIOUS
<1>1. PICK link \in Link : maps' = Insert(maps, link)
  BY DEF InsertLink
<1>2. maps' \in Maps /\ Registered(maps')
  BY <1>1, InsertRegisters DEF RemovalInv, Typed, MapsAgree
<1>3. stack' = <<>> /\ entry' = entry /\ dead' = dead
  BY DEF InsertLink, Unlocked
<1> QED BY <1>2, <1>3 DEF RemovalInv, Typed, MapsAgree, FramesOK, NoReentry

LEMMA ClearRemoval == RemovalInv /\ ClearCache => RemovalInv'
<1> SUFFICES ASSUME RemovalInv, ClearCache PROVE RemovalInv'
  OBVIOUS
<1>1. maps' \in Maps /\ Registered(maps')
  BY EmptyRegisters DEF ClearCache
<1>2. stack' = <<>> /\ entry' = entry /\ dead' = dead
  BY DEF ClearCache, Unlocked
<1> QED BY <1>1, <1>2 DEF RemovalInv, Typed, MapsAgree, FramesOK, NoReentry

LEMMA CallRemoval == RemovalInv /\ CallRemove => RemovalInv'
<1> SUFFICES ASSUME RemovalInv, CallRemove PROVE RemovalInv'
  OBVIOUS
<1>1. stack' = <<>> /\ stack' = stack /\ maps' = maps /\ dead' = dead /\ entry' \in Links
  BY DEF CallRemove, Unlocked
<1> QED BY <1>1 DEF RemovalInv, Typed, MapsAgree, FramesOK, NoReentry

\* A call of _remove_nolock uncaches its link and takes away no registration but
\* its own; the link was cached, so no active call is removing it.
LEMMA EnterRemoval == RemovalInv /\ Enter => RemovalInv'
<1> SUFFICES ASSUME RemovalInv, Enter PROVE RemovalInv'
  OBVIOUS
<1>1. entry \in Links /\ entry' = None /\ ~dead
  BY DEF Enter, RemovalInv, Typed
<1>2. CASE entry \notin Cached(maps)
  <2>1. maps' = maps /\ dead' = dead /\ stack' = stack
    BY <1>2 DEF Enter
  <2>2. FramesOK'
    BY <1>2, <2>1 DEF RemovalInv, FramesOK
  <2> QED BY <1>1, <2>1, <2>2 DEF RemovalInv, Typed, MapsAgree, NoReentry
<1>3. CASE entry \in Cached(maps)
  <2> DEFINE parent == ParentOf(maps, entry)
  <2>1. parent \in Parents /\ entry \in maps.children[parent]
    <3>1. maps.data[entry] \in Cell
      BY <1>3 DEF RemovalInv, Typed, Maps, Cached
    <3>2. entry \in maps.children[parent]
      BY <1>3 DEF RemovalInv, MapsAgree, Registered
    <3> QED BY <3>1, <3>2 DEF ParentOf, Cell, Link
  <2>2. /\ maps' = [data     |-> [maps.data EXCEPT ![entry] = None],
                    children |-> [maps.children EXCEPT ![parent] = maps.children[parent] \ {entry}]]
        /\ stack' = IF deep THEN Append(stack, [link |-> entry, seen |-> {}]) ELSE stack
        /\ dead' = dead
    BY <1>3, <2>1 DEF Enter
  <2>3. maps' \in Maps
    <3>1. maps'.data \in [Links -> Cell \cup {None}]
      BY <1>1, <2>2 DEF RemovalInv, Typed, Maps
    <3>2. maps'.children \in [Parents -> SUBSET Links]
      BY <2>1, <2>2 DEF RemovalInv, Typed, Maps
    <3> QED BY <2>2, <3>1, <3>2 DEF Maps
  <2>4. Cached(maps') = Cached(maps) \ {entry}
        /\ \A l \in Cached(maps') : maps'.data[l] = maps.data[l]
    BY <1>1, <2>2 DEF RemovalInv, Typed, Maps, Cached
  <2>5. MapsAgree'
    <3> SUFFICES ASSUME NEW l \in Cached(maps') PROVE l \in maps'.children[ParentOf(maps', l)]
      BY DEF MapsAgree, Registered
    <3>1. l \in Cached(maps) /\ l # entry /\ ParentOf(maps', l) = ParentOf(maps, l)
      BY <2>4 DEF ParentOf
    <3>2. l \in maps.children[ParentOf(maps, l)]
      BY <3>1 DEF RemovalInv, MapsAgree, Registered
    <3>3. ParentOf(maps, l) \in Parents
      <4>1. maps.data[l] \in Cell
        BY <3>1 DEF RemovalInv, Typed, Maps, Cached
      <4> QED BY <4>1 DEF ParentOf, Cell, Link
    <3> QED BY <2>1, <2>2, <3>1, <3>2, <3>3 DEF RemovalInv, Typed, Maps
  <2>6. CASE ~deep
    <3>1. stack' = stack
      BY <2>2, <2>6
    <3>2. FramesOK'
      BY <2>4, <3>1 DEF RemovalInv, FramesOK
    <3> QED BY <1>1, <2>2, <2>3, <2>5, <3>1, <3>2 DEF RemovalInv, Typed, NoReentry
  <2>7. CASE deep
    <3> DEFINE top == [link |-> entry, seen |-> {}]
    <3>1. stack' = Append(stack, top) /\ top \in Frame
      BY <1>1, <2>2, <2>7 DEF Frame
    <3>2. /\ stack' \in Seq(Frame) /\ Len(stack) \in Nat
          /\ DOMAIN stack = 1..Len(stack) /\ DOMAIN stack' = 1..(Len(stack) + 1)
          /\ \A i \in 1..Len(stack) : stack'[i] = stack[i]
          /\ stack'[Len(stack) + 1] = top
      BY <3>1 DEF RemovalInv, Typed
    <3>3. \A i \in DOMAIN stack' : i \in DOMAIN stack \/ i = Len(stack) + 1
      BY <3>2
    <3>4. FramesOK'
      <4> SUFFICES ASSUME NEW i \in DOMAIN stack'
                   PROVE  /\ stack'[i].link \notin Cached(maps')
                          /\ \A k \in stack'[i].seen : k \in Cached(maps') => k = entry'
        BY DEF FramesOK
      <4>1. CASE i \in DOMAIN stack
        BY <2>4, <3>2, <4>1 DEF RemovalInv, FramesOK
      <4>2. CASE i = Len(stack) + 1
        BY <2>4, <3>2, <4>2
      <4> QED BY <3>3, <4>1, <4>2
    <3>5. NoReentry'
      <4>1. \A i \in DOMAIN stack : stack[i].link # entry
        BY <1>3 DEF RemovalInv, FramesOK
      <4> SUFFICES ASSUME NEW i \in DOMAIN stack', NEW k \in DOMAIN stack', i # k
                   PROVE  stack'[i].link # stack'[k].link
        BY DEF NoReentry
      <4>2. CASE i \in DOMAIN stack /\ k \in DOMAIN stack
        BY <3>2, <4>2 DEF RemovalInv, NoReentry
      <4>3. CASE i = Len(stack) + 1 /\ k \in DOMAIN stack
        BY <3>2, <4>1, <4>3
      <4>4. CASE k = Len(stack) + 1 /\ i \in DOMAIN stack
        BY <3>2, <4>1, <4>4
      <4> QED BY <3>3, <4>2, <4>3, <4>4
    <3> QED BY <1>1, <2>2, <2>3, <2>5, <3>2, <3>4, <3>5 DEF RemovalInv, Typed
  <2> QED BY <2>6, <2>7
<1> QED BY <1>2, <1>3

LEMMA IterateRemoval == RemovalInv /\ Iterate => RemovalInv'
<1> SUFFICES ASSUME RemovalInv, Iterate PROVE RemovalInv'
  OBVIOUS
<1> DEFINE n == Len(stack)
<1>1. stack # <<>> /\ entry = None /\ maps' = maps /\ dead' = dead
  BY DEF Iterate
<1>2. n \in DOMAIN stack /\ Top = stack[n] /\ Top \in Frame
  BY <1>1, TopIsLast DEF RemovalInv
<1>3. PICK k \in maps.children[Top.link] \ Top.seen :
        /\ entry' = k
        /\ stack' = [stack EXCEPT ![n].seen = Top.seen \cup {k}]
  BY <1>2 DEF Iterate
<1>4. k \in Links
  BY <1>2, <1>3 DEF RemovalInv, Typed, Maps, Frame, Parents
<1>5. /\ DOMAIN stack' = DOMAIN stack
      /\ \A i \in DOMAIN stack : stack'[i].link = stack[i].link
      /\ \A i \in DOMAIN stack : i # n => stack'[i] = stack[i]
      /\ stack'[n] = [link |-> Top.link, seen |-> Top.seen \cup {k}]
  BY <1>2, <1>3 DEF RemovalInv, Typed, Frame
<1>6. Typed'
  <2>1. stack'[n] \in Frame
    BY <1>2, <1>4, <1>5 DEF Frame
  <2>2. stack' = [stack EXCEPT ![n] = stack'[n]]
    BY <1>2, <1>3, <1>5
  <2>3. stack' \in Seq(Frame)
    BY <1>2, <2>1, <2>2 DEF RemovalInv, Typed
  <2> QED BY <1>1, <1>3, <1>4, <2>3 DEF RemovalInv, Typed
<1>7. FramesOK'
  <2> SUFFICES ASSUME NEW i \in DOMAIN stack
               PROVE  /\ stack'[i].link \notin Cached(maps')
                      /\ \A j \in stack'[i].seen : j \in Cached(maps') => j = entry'
    BY <1>5 DEF FramesOK
  <2>1. \A j \in stack[i].seen : j \notin Cached(maps)
    <3>1. None \notin Cached(maps)
      BY NoneAssumption DEF Cached
    <3> QED BY <1>1, <3>1 DEF RemovalInv, FramesOK
  <2>2. stack'[i].link \notin Cached(maps')
    BY <1>1, <1>5 DEF RemovalInv, FramesOK
  <2>3. stack'[i].seen \subseteq stack[i].seen \cup {k}
    BY <1>2, <1>5
  <2> QED BY <1>1, <1>3, <2>1, <2>2, <2>3
<1>8. NoReentry'
  BY <1>5 DEF RemovalInv, NoReentry
<1> QED BY <1>1, <1>6, <1>7, <1>8 DEF RemovalInv, MapsAgree

\* When the loop is over, every link still registered under the call's link has
\* been yielded and handled, so none of them is cached.
LEMMA FinishRemoval == RemovalInv /\ Finish => RemovalInv'
<1> SUFFICES ASSUME RemovalInv, Finish PROVE RemovalInv'
  OBVIOUS
<1> DEFINE n == Len(stack)
           l == Top.link
<1>1. /\ stack # <<>> /\ entry = None /\ entry' = entry /\ dead' = dead
      /\ maps.children[l] \subseteq Top.seen
      /\ maps' = [maps EXCEPT !.children[l] = {}]
      /\ stack' = SubSeq(stack, 1, n - 1)
  BY DEF Finish
<1>2. n \in DOMAIN stack /\ Top = stack[n] /\ Top \in Frame
  BY <1>1, TopIsLast DEF RemovalInv
<1>3. /\ maps'.data = maps.data
      /\ maps'.children = [maps.children EXCEPT ![l] = {}]
      /\ maps' \in Maps
  BY <1>1, <1>2 DEF RemovalInv, Typed, Maps, Frame, Parents
<1>4. Cached(maps') = Cached(maps) /\ \A k \in Links : ParentOf(maps', k) = ParentOf(maps, k)
  BY <1>3 DEF Cached, ParentOf
<1>5. \A k \in maps.children[l] : k \notin Cached(maps)
  <2>1. None \notin Cached(maps)
    BY NoneAssumption DEF Cached
  <2>2. \A k \in Top.seen : k \in Cached(maps) => k = None
    BY <1>1, <1>2 DEF RemovalInv, FramesOK
  <2> QED BY <1>1, <2>1, <2>2
<1>6. MapsAgree'
  <2> SUFFICES ASSUME NEW k \in Cached(maps') PROVE k \in maps'.children[ParentOf(maps', k)]
    BY DEF MapsAgree, Registered
  <2>1. k \in Links /\ k \in Cached(maps) /\ k \in maps.children[ParentOf(maps, k)]
    BY <1>4 DEF RemovalInv, MapsAgree, Registered, Cached
  <2>2. ParentOf(maps, k) # l
    BY <1>5, <2>1
  <2>3. ParentOf(maps, k) \in Parents
    <3>1. maps.data[k] \in Cell
      BY <2>1 DEF RemovalInv, Typed, Maps, Cached
    <3> QED BY <3>1 DEF ParentOf, Cell, Link
  <2> QED BY <1>3, <1>4, <2>1, <2>2, <2>3 DEF RemovalInv, Typed, Maps
<1>7. /\ stack' \in Seq(Frame)
      /\ DOMAIN stack' \subseteq DOMAIN stack
      /\ \A i \in DOMAIN stack' : stack'[i] = stack[i]
  BY <1>1, Popped DEF RemovalInv, Typed
<1>8. FramesOK'
  <2> SUFFICES ASSUME NEW i \in DOMAIN stack'
               PROVE  /\ stack'[i].link \notin Cached(maps')
                      /\ \A k \in stack'[i].seen : k \in Cached(maps') => k = entry'
    BY DEF FramesOK
  <2>1. entry' = entry
    BY <1>1
  <2> QED BY <1>4, <1>7, <2>1 DEF RemovalInv, FramesOK
<1>9. NoReentry'
  <2> SUFFICES ASSUME NEW i \in DOMAIN stack', NEW k \in DOMAIN stack', i # k
               PROVE  stack'[i].link # stack'[k].link
    BY DEF NoReentry
  <2> QED BY <1>7 DEF RemovalInv, NoReentry
<1> QED BY <1>1, <1>3, <1>6, <1>7, <1>8, <1>9 DEF RemovalInv, Typed

\* Every reachable state of the recursion satisfies its invariant.
THEOREM RemovalInvariance == Spec => []RemovalInv
<1>1. RemovalInv /\ [Next]_vars => RemovalInv'
  <2>1. RemovalInv /\ UNCHANGED vars => RemovalInv'
    BY DEF vars, RemovalInv, Typed, MapsAgree, FramesOK, NoReentry
  <2> QED BY <2>1, InsertRemoval, ClearRemoval, CallRemoval, EnterRemoval, IterateRemoval,
             FinishRemoval DEF Next
<1> QED BY <1>1, InitRemoval, PTL DEF Spec

\* Also in the middle of a removal, every cached link is registered with its
\* parent in children, so that the checks of _remove_nolock find it.
THEOREM RemovalsAgree == Spec => []MapsAgree
<1>1. RemovalInv => MapsAgree
  BY DEF RemovalInv
<1> QED BY <1>1, RemovalInvariance, PTL

\* The recursion is never inside the removal of one link twice, whatever loops
\* the cached parents form: its depth is at most the number of links.
THEOREM RemovalsEnd == Spec => []NoReentry
<1>1. RemovalInv => NoReentry
  BY DEF RemovalInv
<1> QED BY <1>1, RemovalInvariance, PTL

\* Neither log.Fatalln of _remove_nolock is reached.
THEOREM RemovalsNeverFatal == Spec => []~dead
<1>1. RemovalInv => ~dead
  BY DEF RemovalInv
<1> QED BY <1>1, RemovalInvariance, PTL

-----------------------------------------------------------------------------
(* The refinement: from the lock to its release the maps go from `before` to *)
(* what the one-step removal of LinkTable makes of it.                       *)

Busy == stack # <<>> \/ entry # None

\* The links the removal has taken out of `data` so far
Gone == Cached(before) \ Cached(maps)

\* Those whose removal is still under way: their calls are on the stack
Active == {stack[i].link : i \in DOMAIN stack}

\* The removal of r has begun.  It has removed nothing that it should not; the
\* maps are those at the lock without what is gone; and a link whose removal is
\* complete has left no cached link behind that was registered under it.
Underway(r) ==
    /\ deep /\ stack # <<>> /\ r \in Gone
    /\ Active \subseteq Gone /\ Gone \subseteq Reached(before, r, TRUE)
    /\ entry # None => \E m \in Gone : entry \in before.children[m]
    /\ \A k \in Cached(maps) : maps.data[k] = before.data[k]
    /\ Cached(maps) \subseteq Cached(before)
    /\ \A p \in Parents :
         maps.children[p] = IF p \in Gone \ Active THEN {}
                            ELSE before.children[p] \ {k \in Gone : ParentOf(before, k) = p}
    /\ \A m \in Gone \ Active : before.children[m] \cap Cached(maps) = {}

HistoryOK ==
    /\ before \in Maps /\ Registered(before)
    /\ IF Busy THEN \/ stack = <<>> /\ entry \in Links /\ before = maps
                    \/ \E r \in Links : Underway(r)
               ELSE before = maps

\* The operators of the abstract table are those of the maps.
LEMMA SameOperators ==
    /\ Abstract!EmptyTable = EmptyTable /\ Abstract!Link = Link
    /\ \A t, link : Abstract!Insert(t, link) = Insert(t, link)
    /\ \A t, l, c : Abstract!Remove(t, l, c) = Remove(t, l, c)
    /\ \A t, l, c : Abstract!RemoveIsFatal(t, l, c) = RemoveIsFatal(t, l, c)
<1>1. Abstract!Parents = Parents
  BY DEF Abstract!Parents, Parents
<1>2. Abstract!EmptyTable = EmptyTable
  BY <1>1 DEF Abstract!EmptyTable, EmptyTable
<1>3. Abstract!Link = Link
  BY <1>1 DEF Abstract!Link, Link
<1>4. \A t, link : Abstract!Insert(t, link) = Insert(t, link)
  BY DEF Abstract!Insert, Insert
<1>5. \A t : Abstract!Cached(t) = Cached(t)
  BY DEF Abstract!Cached, Cached
<1>6. \A t, l : Abstract!ParentOf(t, l) = ParentOf(t, l)
  BY DEF Abstract!ParentOf, ParentOf
<1>7. \A t, l, c : Abstract!Reached(t, l, c) = Reached(t, l, c)
  BY <1>5 DEF Abstract!Reached, Reached, Abstract!ClosedUnder, ClosedUnder
<1>8. \A t, l, c : Abstract!Remove(t, l, c) = Remove(t, l, c)
  <2> TAKE t, l, c
  <2> DEFINE gone == Reached(t, l, c)
  <2>1. Abstract!Reached(t, l, c) = gone
    BY <1>7
  <2> HIDE DEF gone
  <2> DEFINE Without ==
               [data     |-> [k \in Links |-> IF k \in gone THEN None ELSE t.data[k]],
                children |-> [p \in Parents |->
                                IF c /\ p \in gone THEN {}
                                ELSE t.children[p] \ {k \in gone : t.data[k].link.parent = p}]]
  <2>2. Remove(t, l, c) = Without
    BY DEF Remove, gone, ParentOf
  <2>3. Abstract!Remove(t, l, c) = Without
    BY <1>1, <2>1 DEF Abstract!Remove, Abstract!ParentOf
  <2> QED BY <2>2, <2>3
<1>9. \A t, l, c : Abstract!RemoveIsFatal(t, l, c) = RemoveIsFatal(t, l, c)
  BY <1>6, <1>7 DEF Abstract!RemoveIsFatal, RemoveIsFatal
<1> QED BY <1>2, <1>3, <1>4, <1>8, <1>9

\* A removal takes the link it is called for with it, only cached links, and with
\* each the cached links registered under it; and it takes no more than any set
\* that is closed in this way.
LEMMA ReachedIsLeast ==
    ASSUME NEW t \in Maps, NEW r \in Cached(t)
    PROVE  /\ Reached(t, r, TRUE) \subseteq Cached(t) /\ r \in Reached(t, r, TRUE)
           /\ \A m \in Reached(t, r, TRUE), k \in Cached(t) :
                k \in t.children[m] => k \in Reached(t, r, TRUE)
           /\ \A S \in SUBSET Cached(t) :
                r \in S /\ ClosedUnder(t, S) => Reached(t, r, TRUE) \subseteq S
<1> DEFINE R == {k \in Cached(t) : \A S \in SUBSET Cached(t) :
                                       r \in S /\ ClosedUnder(t, S) => k \in S}
<1>1. Reached(t, r, TRUE) = R
  BY DEF Reached
<1>2. r \in R
  OBVIOUS
<1>3. ASSUME NEW m \in R, NEW k \in Cached(t), k \in t.children[m] PROVE k \in R
  <2>1. SUFFICES ASSUME NEW S \in SUBSET Cached(t), r \in S, ClosedUnder(t, S) PROVE k \in S
    BY <1>3
  <2>2. m \in S
    BY <2>1
  <2> QED BY <1>3, <2>1, <2>2 DEF ClosedUnder
<1>4. ASSUME NEW S \in SUBSET Cached(t), r \in S, ClosedUnder(t, S) PROVE R \subseteq S
  BY <1>4
<1> HIDE DEF R
<1>5. R \subseteq Cached(t)
  BY DEF R
<1> QED BY <1>1, <1>2, <1>3, <1>4, <1>5

\* A table in which every cached link is registered has no fatal removal.
LEMMA NoFatalRemoval ==
    ASSUME NEW t, Registered(t), NEW l \in Links, NEW c \in BOOLEAN
    PROVE  ~RemoveIsFatal(t, l, c)
<1>1. Reached(t, l, c) \subseteq Cached(t)
  BY DEF Reached
<1> QED BY <1>1 DEF RemoveIsFatal, Registered

\* A removal whose links are all reached, and which has left no cached link
\* behind under any of them, has removed what the call reaches.
LEMMA CompleteRemoval ==
    ASSUME NEW t \in Maps, NEW G \in SUBSET Cached(t), NEW r \in G, G \subseteq Reached(t, r, TRUE),
           \A m \in G : t.children[m] \cap Cached(t) \subseteq G
    PROVE  Reached(t, r, TRUE) = G
<1>1. ClosedUnder(t, G)
  BY DEF ClosedUnder
<1>2. Reached(t, r, TRUE) \subseteq G
  BY <1>1, ReachedIsLeast
<1> QED BY <1>2

\* A step of the abstract table
LEMMA AbstractRemoval ==
    ASSUME HistoryOK, ~dead, dead' = dead, NEW l \in Links, NEW c \in BOOLEAN,
           before' = Remove(before, l, c)
    PROVE  Abstract!Next
<1>1. ~Abstract!RemoveIsFatal(before, l, c) /\ before' = Abstract!Remove(before, l, c)
  BY SameOperators, NoFatalRemoval DEF HistoryOK
<1> QED BY <1>1 DEF Abstract!Next, Abstract!RemoveAny

LEMMA InitHistory == Init => HistoryOK /\ Abstract!Init
BY EmptyRegisters, SameOperators DEF Init, HistoryOK, Busy, Abstract!Init

LEMMA InsertHistory ==
    ASSUME RemovalInv, HistoryOK, InsertLink PROVE HistoryOK' /\ Abstract!Next
<1>1. PICK link \in Link : maps' = Insert(maps, link)
  BY DEF InsertLink
<1>2. /\ stack = <<>> /\ entry = None /\ ~dead /\ before' = maps' /\ before = maps
      /\ UNCHANGED <<dead, stack, entry>>
  BY DEF InsertLink, Unlocked, HistoryOK, Busy
<1>3. maps' \in Maps /\ Registered(maps')
  BY <1>1, InsertRegisters DEF RemovalInv, Typed, MapsAgree
<1>4. HistoryOK'
  BY <1>2, <1>3 DEF HistoryOK, Busy
<1>5. Abstract!InsertAny
  BY <1>1, <1>2, SameOperators DEF Abstract!InsertAny
<1> QED BY <1>2, <1>4, <1>5 DEF Abstract!Next

LEMMA ClearHistory ==
    ASSUME RemovalInv, HistoryOK, ClearCache PROVE HistoryOK' /\ Abstract!Next
<1>1. /\ stack = <<>> /\ entry = None /\ ~dead /\ before' = EmptyTable /\ maps' = EmptyTable
      /\ UNCHANGED <<dead, stack, entry>>
  BY DEF ClearCache, Unlocked
<1>2. HistoryOK'
  BY <1>1, EmptyRegisters DEF HistoryOK, Busy
<1>3. Abstract!ClearAll
  BY <1>1, SameOperators DEF Abstract!ClearAll
<1> QED BY <1>1, <1>2, <1>3 DEF Abstract!Next

LEMMA CallHistory ==
    ASSUME RemovalInv, HistoryOK, CallRemove PROVE HistoryOK' /\ UNCHANGED <<before, dead>>
<1>1. /\ stack = <<>> /\ entry = None /\ before = maps /\ entry' \in Links
      /\ UNCHANGED <<maps, dead, stack, before>>
  BY DEF CallRemove, Unlocked, HistoryOK, Busy
<1> QED BY <1>1, NoneAssumption DEF HistoryOK, Busy

\* With the lock held, a call is made next only by a removal with children.
LEMMA UnderwayDeep ==
    ASSUME HistoryOK, stack # <<>> PROVE \E r \in Links : Underway(r)
BY DEF HistoryOK, Busy

LEMMA IterateHistory ==
    ASSUME RemovalInv, HistoryOK, Iterate PROVE HistoryOK' /\ UNCHANGED <<before, dead>>
<1> DEFINE n == Len(stack)
<1>1. stack # <<>> /\ entry = None /\ UNCHANGED <<maps, dead, deep, before>>
  BY DEF Iterate
<1>2. n \in DOMAIN stack /\ Top = stack[n] /\ Top \in Frame
  BY <1>1, TopIsLast DEF RemovalInv
<1>3. PICK k \in maps.children[Top.link] :
        /\ entry' = k
        /\ stack' = [stack EXCEPT ![n].seen = Top.seen \cup {k}]
  BY <1>2 DEF Iterate
<1>4. /\ DOMAIN stack' = DOMAIN stack
      /\ \A i \in DOMAIN stack : stack'[i].link = stack[i].link
  BY <1>2, <1>3 DEF RemovalInv, Typed, Frame
<1>5. stack' # <<>>
  BY <1>2, <1>4
<1>6. PICK r \in Links : Underway(r)
  BY <1>1, UnderwayDeep
<1>7. Gone' = Gone /\ Active' = Active
  BY <1>1, <1>4 DEF Gone, Active
<1>8. Top.link \in Gone /\ k \in before.children[Top.link]
  <2>1. Top.link \in Active
    BY <1>2 DEF Active
  <2>2. Top.link \in Gone /\ Top.link \in Parents
    BY <1>2, <1>6, <2>1 DEF Underway, Frame, Parents
  <2>3. maps.children[Top.link] \subseteq before.children[Top.link]
    BY <1>6, <2>2 DEF Underway
  <2> QED BY <1>3, <2>2, <2>3
<1>9. Underway(r)'
  BY <1>1, <1>3, <1>5, <1>6, <1>7, <1>8 DEF Underway
<1> QED BY <1>1, <1>5, <1>9 DEF HistoryOK, Busy

\* The link a call enters is one of those the whole removal reaches.
LEMMA EnterHistory ==
    ASSUME RemovalInv, RemovalInv', HistoryOK, Enter
    PROVE  HistoryOK' /\ [Abstract!Next]_<<before, dead>>
<1>1. /\ entry \in Links /\ entry # None /\ entry' = None /\ ~dead /\ ~dead'
      /\ UNCHANGED <<dead, deep>>
  BY DEF Enter, RemovalInv, Typed
<1>2. /\ before \in Maps /\ Registered(before) /\ Busy
      /\ maps \in Maps /\ maps' \in Maps /\ Registered(maps')
  BY <1>1 DEF HistoryOK, Busy, RemovalInv, Typed, MapsAgree
<1>3. CASE entry \notin Cached(maps)
  <2>1. maps' = maps /\ stack' = stack /\ before' = IF stack' = <<>> THEN maps ELSE before
    BY <1>1, <1>3 DEF Enter, Unlock
  <2>2. CASE stack = <<>>
    <3>1. before = maps
      BY <1>1, <2>2 DEF HistoryOK, Busy, Underway
    <3>2. before' = before
      BY <2>1, <2>2, <3>1
    <3>3. HistoryOK'
      BY <1>1, <1>2, <2>1, <2>2, <3>1, <3>2 DEF HistoryOK, Busy
    <3> QED BY <1>1, <3>2, <3>3
  <2>3. CASE stack # <<>>
    <3>1. PICK r \in Links : Underway(r)
      BY <2>3, UnderwayDeep
    <3>2. before' = before /\ Gone' = Gone /\ Active' = Active
      BY <2>1, <2>3 DEF Gone, Active
    <3>3. Underway(r)'
      BY <1>1, <2>1, <3>1, <3>2 DEF Underway
    <3>4. HistoryOK'
      BY <1>2, <2>1, <2>3, <3>2, <3>3 DEF HistoryOK, Busy
    <3> QED BY <1>1, <3>2, <3>4
  <2> QED BY <2>2, <2>3
<1>4. CASE entry \in Cached(maps)
  <2> DEFINE parent == ParentOf(maps, entry)
  <2>1. parent \in Parents /\ entry \in maps.children[parent]
    <3>1. maps.data[entry] \in Cell
      BY <1>4 DEF RemovalInv, Typed, Maps, Cached
    <3>2. entry \in maps.children[parent]
      BY <1>4 DEF RemovalInv, MapsAgree, Registered
    <3> QED BY <3>1, <3>2 DEF ParentOf, Cell, Link
  <2>2. /\ maps' = [data     |-> [maps.data EXCEPT ![entry] = None],
                    children |-> [maps.children EXCEPT ![parent] = maps.children[parent] \ {entry}]]
        /\ stack' = IF deep THEN Append(stack, [link |-> entry, seen |-> {}]) ELSE stack
        /\ before' = IF stack' = <<>> THEN maps' ELSE before
    BY <1>1, <1>4, <2>1 DEF Enter, Unlock
  <2>3. /\ \A l \in Links : maps'.data[l] = IF l = entry THEN None ELSE maps.data[l]
        /\ \A p \in Parents : maps'.children[p] = IF p = parent THEN maps.children[p] \ {entry}
                                                  ELSE maps.children[p]
    BY <1>2, <2>1, <2>2 DEF Maps
  <2>4. Cached(maps') = Cached(maps) \ {entry}
    BY <2>3 DEF Cached
  <2>5. CASE ~deep
    <3>1. stack = <<>> /\ before = maps
      BY <2>5, <1>1 DEF HistoryOK, Busy, Underway
    <3>2. stack' = <<>> /\ before' = maps'
      BY <2>2, <2>5, <3>1
    <3>3. Reached(before, entry, FALSE) = {entry}
      BY <1>4, <3>1 DEF Reached
    <3>4. maps' = Remove(before, entry, FALSE)
      <4>1. maps'.data = [k \in Links |-> IF k \in {entry} THEN None ELSE before.data[k]]
        BY <1>2, <2>3, <3>1 DEF Maps
      <4>2. maps'.children =
              [p \in Parents |-> IF FALSE /\ p \in {entry} THEN {}
                                 ELSE before.children[p]
                                        \ {k \in {entry} : ParentOf(before, k) = p}]
        <5>1. ASSUME NEW p \in Parents
              PROVE  maps'.children[p]
                       = before.children[p] \ {k \in {entry} : ParentOf(before, k) = p}
          BY <2>3, <3>1
        <5> QED BY <1>2, <5>1 DEF Maps
      <4>3. maps' = [data |-> maps'.data, children |-> maps'.children]
        BY <1>2 DEF Maps
      <4> QED BY <3>3, <4>1, <4>2, <4>3 DEF Remove
    <3>5. Abstract!Next
      BY <1>1, <3>2, <3>4, AbstractRemoval
    <3>6. HistoryOK'
      BY <1>1, <1>2, <3>2 DEF HistoryOK, Busy
    <3> QED BY <3>5, <3>6
  <2>6. CASE deep
    <3> DEFINE top == [link |-> entry, seen |-> {}]
    <3>1. /\ stack' = Append(stack, top) /\ Len(stack) \in Nat
          /\ DOMAIN stack = 1..Len(stack) /\ DOMAIN stack' = 1..(Len(stack) + 1)
          /\ \A i \in 1..Len(stack) : stack'[i] = stack[i]
          /\ stack'[Len(stack) + 1] = top
      <4>1. top \in Frame
        BY <1>1 DEF Frame
      <4> QED BY <2>2, <2>6, <4>1 DEF RemovalInv, Typed
    <3>2. stack' # <<>> /\ before' = before
      <4>1. stack' # <<>>
        BY <3>1
      <4> QED BY <2>2, <4>1
    <3>3. Active' = Active \cup {entry}
      <4>1. \A i \in DOMAIN stack' : i \in DOMAIN stack \/ i = Len(stack) + 1
        BY <3>1
      <4>2. Len(stack) + 1 \in DOMAIN stack' /\ top.link = entry
        BY <3>1
      <4>3. \A i \in DOMAIN stack : i \in DOMAIN stack' /\ stack'[i].link = stack[i].link
        BY <3>1
      <4> QED BY <3>1, <4>1, <4>2, <4>3 DEF Active
    <3>4. CASE stack = <<>>
      <4>1. before = maps /\ Gone = {} /\ Active = {}
        <5>1. before = maps
          BY <1>1, <3>4 DEF HistoryOK, Busy, Underway
        <5>2. DOMAIN stack = {}
          BY <3>4
        <5> QED BY <5>1, <5>2 DEF Gone, Active
      <4>2. Gone' = {entry}
        BY <1>4, <2>4, <3>2, <4>1 DEF Gone
      <4>3. Gone' \subseteq Reached(before, entry, TRUE)
        BY <1>2, <1>4, <4>1, <4>2, ReachedIsLeast
      <4>4. \A p \in Parents :
              maps'.children[p] = before.children[p] \ {k \in {entry} : ParentOf(before, k) = p}
        BY <2>3, <4>1
      <4>5. \A k \in Cached(maps') : maps'.data[k] = before.data[k]
        BY <2>3, <2>4, <4>1 DEF Cached
      <4> PICK r \in Links : r = entry
        BY <1>1
      <4>6. Underway(r)'
        BY <1>1, <2>4, <2>6, <3>2, <3>3, <4>1, <4>2, <4>3, <4>4, <4>5 DEF Underway
      <4>7. HistoryOK'
        BY <1>1, <1>2, <3>2, <4>6 DEF HistoryOK, Busy
      <4> QED BY <1>1, <3>2, <4>7
    <3>5. CASE stack # <<>>
      <4>1. PICK r \in Links : Underway(r)
        BY <3>5, UnderwayDeep
      <4>2. entry \in Cached(before) /\ entry \notin Gone /\ parent = ParentOf(before, entry)
        BY <1>4, <4>1 DEF Underway, Gone, ParentOf
      <4>3. Gone' = Gone \cup {entry}
        BY <2>4, <3>2, <4>2, <1>4 DEF Gone
      <4>4. Gone' \ Active' = Gone \ Active
        BY <3>3, <4>2, <4>3
      <4>5. Gone' \subseteq Reached(before, r, TRUE)
        <5>1. r \in Cached(before) /\ Gone \subseteq Reached(before, r, TRUE)
          BY <4>1 DEF Underway, Gone
        <5>2. PICK m \in Gone : entry \in before.children[m]
          BY <1>1, <4>1 DEF Underway
        <5>3. entry \in Reached(before, r, TRUE)
          BY <1>2, <4>2, <5>1, <5>2, ReachedIsLeast
        <5> QED BY <4>3, <5>1, <5>3
      <4>6. ASSUME NEW p \in Parents
            PROVE  maps'.children[p]
                     = IF p \in Gone' \ Active' THEN {}
                       ELSE before.children[p] \ {k \in Gone' : ParentOf(before, k) = p}
        <5>1. maps.children[p] = IF p \in Gone \ Active THEN {}
                                 ELSE before.children[p] \ {k \in Gone : ParentOf(before, k) = p}
          BY <4>1 DEF Underway
        <5> QED BY <2>3, <4>2, <4>3, <4>4, <5>1
      <4>7. \A k \in Cached(maps') : maps'.data[k] = before.data[k]
        BY <2>3, <2>4, <4>1 DEF Cached, Underway
      <4>8. \A m \in Gone' \ Active' : before.children[m] \cap Cached(maps') = {}
        BY <2>4, <4>1, <4>4 DEF Underway
      <4>9. Cached(maps') \subseteq Cached(before) /\ Active' \subseteq Gone' /\ r \in Gone'
        BY <2>4, <3>3, <4>1, <4>3 DEF Underway
      <4>10. Underway(r)'
        BY <1>1, <2>6, <3>2, <4>5, <4>6, <4>7, <4>8, <4>9 DEF Underway
      <4>11. HistoryOK'
        BY <1>2, <3>2, <4>10 DEF HistoryOK, Busy
      <4> QED BY <1>1, <3>2, <4>11
    <3> QED BY <3>4, <3>5
  <2> QED BY <2>5, <2>6
<1> QED BY <1>3, <1>4

\* When the last call returns, what is gone is what the whole removal reaches.
LEMMA FinishHistory ==
    ASSUME RemovalInv, RemovalInv', HistoryOK, Finish
    PROVE  HistoryOK' /\ [Abstract!Next]_<<before, dead>>
<1> DEFINE n == Len(stack)
           l == Top.link
<1>1. /\ stack # <<>> /\ entry = None /\ entry' = None /\ ~dead /\ UNCHANGED <<dead, deep>>
      /\ maps.children[l] \subseteq Top.seen
      /\ maps' = [maps EXCEPT !.children[l] = {}]
      /\ stack' = SubSeq(stack, 1, n - 1)
      /\ before' = IF stack' = <<>> THEN maps' ELSE before
  BY DEF Finish, Unlock
<1>2. n \in DOMAIN stack /\ Top = stack[n] /\ Top \in Frame /\ l \in Links /\ l \in Parents
  BY <1>1, TopIsLast DEF RemovalInv, Frame, Parents
<1>3. /\ maps \in Maps /\ maps' \in Maps /\ Registered(maps')
      /\ before \in Maps /\ Registered(before)
      /\ maps'.data = maps.data
      /\ \A p \in Parents : maps'.children[p] = IF p = l THEN {} ELSE maps.children[p]
  BY <1>1, <1>2 DEF RemovalInv, Typed, MapsAgree, HistoryOK, Maps
<1>4. Cached(maps') = Cached(maps)
  BY <1>3 DEF Cached
<1>5. /\ stack \in Seq(Frame) /\ n \in Nat /\ DOMAIN stack = 1..n
      /\ DOMAIN stack' = 1..(n - 1) /\ \A i \in 1..(n - 1) : stack'[i] = stack[i]
  BY <1>1, <1>2 DEF RemovalInv, Typed
<1> DEFINE active == {stack'[i].link : i \in DOMAIN stack'}
<1>6. active = Active \ {l}
  <2> HIDE DEF n, l
  <2>1. ASSUME NEW i \in DOMAIN stack' PROVE stack'[i].link \in Active \ {l}
    <3>1. i \in DOMAIN stack /\ i # n
      BY <1>5
    <3>2. stack'[i].link = stack[i].link
      BY <1>5
    <3>3. stack[i].link # stack[n].link
      BY <1>2, <3>1 DEF RemovalInv, NoReentry
    <3> QED BY <1>2, <3>1, <3>2, <3>3 DEF Active, l
  <2>2. ASSUME NEW i \in DOMAIN stack, stack[i].link # l PROVE stack[i].link \in active
    <3>1. i # n
      BY <1>2, <2>2 DEF l
    <3>2. i \in DOMAIN stack' /\ stack'[i] = stack[i]
      BY <1>5, <3>1
    <3> QED BY <3>2
  <2> HIDE DEF active
  <2>3. active \subseteq Active \ {l}
    BY <2>1 DEF active
  <2>4. Active \ {l} \subseteq active
    BY <2>2 DEF Active
  <2> QED BY <2>3, <2>4
<1> HIDE DEF active
<1>7. PICK r \in Links : Underway(r)
  BY <1>1, UnderwayDeep
<1>8. l \in Active /\ l \in Gone
  BY <1>2, <1>7 DEF Active, Underway
<1>9. Gone \ active = (Gone \ Active) \cup {l}
  BY <1>6, <1>8
\* Whatever was registered under the link has been yielded, or is gone.
<1>10. before.children[l] \cap Cached(maps) = {}
  <2>1. SUFFICES ASSUME NEW k \in before.children[l], k \in Cached(maps) PROVE FALSE
    OBVIOUS
  <2>2. maps.children[l] = before.children[l] \ {j \in Gone : ParentOf(before, j) = l}
    BY <1>2, <1>7, <1>8 DEF Underway
  <2>3. k \in Top.seen
    BY <1>1, <2>1, <2>2 DEF Gone
  <2>4. k = None /\ k \in Links
    BY <1>1, <1>2, <2>1, <2>3 DEF RemovalInv, FramesOK, Cached
  <2> QED BY <2>4, NoneAssumption
<1>11. ASSUME NEW p \in Parents
       PROVE  maps'.children[p] = IF p \in Gone \ active THEN {}
                                  ELSE before.children[p] \ {k \in Gone : ParentOf(before, k) = p}
  <2>1. maps.children[p] = IF p \in Gone \ Active THEN {}
                           ELSE before.children[p] \ {k \in Gone : ParentOf(before, k) = p}
    BY <1>7 DEF Underway
  <2> QED BY <1>3, <1>9, <2>1
<1>12. \A m \in Gone \ active : before.children[m] \cap Cached(maps) = {}
  BY <1>7, <1>9, <1>10 DEF Underway
<1>13. CASE stack' = <<>>
  <2>1. active = {} /\ before' = maps'
    BY <1>1, <1>13 DEF active
  <2>2. maps' = Remove(before, r, TRUE)
    <3>1. Gone \in SUBSET Cached(before) /\ r \in Gone /\ Gone \ active = Gone
      BY <1>7, <2>1 DEF Underway, Gone
    <3>2. Reached(before, r, TRUE) = Gone
      <4>1. \A m \in Gone : before.children[m] \cap Cached(before) \subseteq Gone
        BY <1>12, <3>1 DEF Gone
      <4> QED BY <1>3, <1>7, <3>1, <4>1, CompleteRemoval DEF Underway
    <3>3. maps'.data = [k \in Links |-> IF k \in Gone THEN None ELSE before.data[k]]
      <4>1. ASSUME NEW k \in Links
            PROVE  maps'.data[k] = IF k \in Gone THEN None ELSE before.data[k]
        BY <1>3, <1>7 DEF Underway, Gone, Cached
      <4> QED BY <1>3, <4>1 DEF Maps
    <3>4. maps'.children = [p \in Parents |->
                              IF TRUE /\ p \in Gone THEN {}
                              ELSE before.children[p] \ {k \in Gone : ParentOf(before, k) = p}]
      <4>1. ASSUME NEW p \in Parents
            PROVE  maps'.children[p]
                     = IF TRUE /\ p \in Gone THEN {}
                       ELSE before.children[p] \ {k \in Gone : ParentOf(before, k) = p}
        BY <1>11, <3>1
      <4> QED BY <1>3, <4>1 DEF Maps
    <3>5. maps' = [data |-> maps'.data, children |-> maps'.children]
      BY <1>3 DEF Maps
    <3> QED BY <3>2, <3>3, <3>4, <3>5 DEF Remove
  <2>3. Abstract!Next
    BY <1>1, <2>1, <2>2, AbstractRemoval
  <2>4. HistoryOK'
    BY <1>1, <1>3, <1>13, <2>1 DEF HistoryOK, Busy
  <2> QED BY <2>3, <2>4
<1>14. CASE stack' # <<>>
  <2>1. before' = before /\ Gone' = Gone /\ Active' = active
    BY <1>1, <1>4, <1>14 DEF Gone, Active, active
  <2>2. Underway(r)'
    <3>1. /\ deep' /\ r \in Gone' /\ Active' \subseteq Gone' /\ entry' = None
          /\ Gone' \subseteq Reached(before', r, TRUE)
          /\ Cached(maps') \subseteq Cached(before')
          /\ \A k \in Cached(maps') : maps'.data[k] = before'.data[k]
      BY <1>1, <1>3, <1>4, <1>6, <1>7, <2>1 DEF Underway
    <3>2. \A p \in Parents :
            maps'.children[p] = IF p \in Gone' \ Active' THEN {}
                                ELSE before'.children[p] \ {k \in Gone' : ParentOf(before', k) = p}
      BY <1>11, <2>1
    <3>3. \A m \in Gone' \ Active' : before'.children[m] \cap Cached(maps') = {}
      BY <1>4, <1>12, <2>1
    <3> QED BY <1>14, <3>1, <3>2, <3>3 DEF Underway
  <2>3. HistoryOK'
    BY <1>3, <1>14, <2>1, <2>2 DEF HistoryOK, Busy
  <2> QED BY <1>1, <2>1, <2>3
<1> QED BY <1>13, <1>14

\* The recursion of _remove_nolock, in whatever order `range` yields the children
\* and whatever loops the cached parents form, amounts to the removal in one step
\* that LinkCache uses; insertions and clearings are the abstract ones.
THEOREM Refinement == Spec => Implements
<1>1. ASSUME RemovalInv, RemovalInv', HistoryOK, [Next]_vars
      PROVE  HistoryOK' /\ [Abstract!Next]_<<before, dead>>
  <2>1. CASE UNCHANGED vars
    <3>1. UNCHANGED <<maps, stack, entry, deep, before, dead>>
      BY <2>1 DEF vars
    <3>2. Gone' = Gone /\ Active' = Active
      BY <3>1 DEF Gone, Active
    <3>3. \A r \in Links : Underway(r) => Underway(r)'
      BY <3>1, <3>2 DEF Underway
    <3>4. HistoryOK'
      BY <1>1, <3>1, <3>3 DEF HistoryOK, Busy
    <3> QED BY <3>1, <3>4
  <2> QED BY <1>1, <2>1, InsertHistory, ClearHistory, CallHistory, EnterHistory, IterateHistory,
             FinishHistory DEF Next
<1>2. Spec => [](RemovalInv /\ HistoryOK)
  <2>1. (RemovalInv /\ RemovalInv') /\ HistoryOK /\ [Next]_vars => HistoryOK'
    BY <1>1
  <2> QED BY <2>1, InitHistory, RemovalInvariance, PTL DEF Spec
<1>3. (RemovalInv /\ RemovalInv') /\ HistoryOK /\ [Next]_vars => [Abstract!Next]_<<before, dead>>
  BY <1>1
<1> QED BY <1>2, <1>3, InitHistory, PTL DEF Spec, Implements, Abstract!Spec
=============================================================================
