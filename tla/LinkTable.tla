----------------------------- MODULE LinkTable -----------------------------
(***************************************************************************)
(* The in-memory table behind cache.go: the map `data` from a link ID to   *)
(* the cached link and its keyring, and the map `children` from a link ID  *)
(* to the IDs that were cached with it as their parent.  Every operator    *)
(* here is one critical section of cache.go (the code holds the cache's    *)
(* RWMutex over it).                                                       *)
(*                                                                         *)
(* A Go map is a total function: an absent entry of `data` is None and an  *)
(* absent entry of `children` is the empty set.  _remove_nolock ends the   *)
(* process whether the map of the parent is missing or has no such link,   *)
(* so the two need not be told apart.                                      *)
(***************************************************************************)
CONSTANTS
    Links,      \* link IDs
    NoLink,     \* the empty string: the parent ID of the root link
    None        \* Go's nil

Parents == Links \cup {NoLink}

EmptyTable == [data     |-> [l \in Links |-> None],
               children |-> [p \in Parents |-> {}]]

Cached(t) == {l \in Links : t.data[l] # None}

ParentOf(t, l) == t.data[l].link.parent

\* (Variants named *_Mutant are the definition below them with a defect; the
\* specification does not use them.)
\* Registers a link only the first time it is cached.
Insert_Mutant(t, link) ==
    [data     |-> [t.data EXCEPT ![link.id] = [link |-> link, kr |-> None]],
     children |-> IF link.id \in Cached(t) THEN t.children
                  ELSE [t.children EXCEPT ![link.parent] = @ \cup {link.id}]]

\* Stores a link under the ID of its parent.
InsertKey_Mutant(t, link) ==
    [data     |-> [t.data EXCEPT ![IF link.parent \in Links THEN link.parent ELSE link.id] =
                     [link |-> link, kr |-> None]],
     children |-> [t.children EXCEPT ![link.parent] = @ \cup {link.id}]]

\* cache._insert(link.LinkID, link, nil): a new entry, registered with the
\* parent it names.  A registration under an earlier parent stays behind.
Insert(t, link) ==
    [data     |-> [t.data EXCEPT ![link.id] = [link |-> link, kr |-> None]],
     children |-> [t.children EXCEPT ![link.parent] = @ \cup {link.id}]]

\* data.kr = kr, through the pointer an earlier cache._get returned.
SetKeyring(t, l, k) == [t EXCEPT !.data[l] = [@ EXCEPT !.kr = k]]

\* S is closed under the recursive calls of _remove_nolock, which descend from
\* a cached link to the cached links registered under it.
ClosedUnder(t, S) == \A m \in S : t.children[m] \cap Cached(t) \subseteq S

\* Takes the children of the link, but not theirs.
Reached_Mutant(t, l, includingChildren) ==
    IF l \notin Cached(t) THEN {}
    ELSE IF ~includingChildren THEN {l}
    ELSE {l} \cup (t.children[l] \cap Cached(t))

\* The links one call of _remove_nolock takes out of `data`.
Reached(t, l, includingChildren) ==
    IF l \notin Cached(t) THEN {}
    ELSE IF ~includingChildren THEN {l}
    ELSE {k \in Cached(t) : \A S \in SUBSET Cached(t) :
                                l \in S /\ ClosedUnder(t, S) => k \in S}

\* cache._remove(l, includingChildren)
Remove(t, l, includingChildren) ==
    LET gone == Reached(t, l, includingChildren)
    IN  [data     |-> [k \in Links |-> IF k \in gone THEN None ELSE t.data[k]],
         children |-> [p \in Parents |->
                         IF includingChildren /\ p \in gone THEN {}
                         ELSE t.children[p] \ {k \in gone : ParentOf(t, k) = p}]]

\* Every cached link is registered with its cached parent: what the two
\* log.Fatalln checks of _remove_nolock test.
Registered(t) == \A l \in Cached(t) : l \in t.children[ParentOf(t, l)]

\* The removal meets one of those two checks.
RemoveIsFatal(t, l, includingChildren) ==
    \E k \in Reached(t, l, includingChildren) : k \notin t.children[ParentOf(t, k)]
=============================================================================
