---------------------------- MODULE CacheRemove ----------------------------
(***************************************************************************)
(* cache.go as it runs: _remove takes the write lock and calls             *)
(* _remove_nolock, which calls itself for every link that `range` yields   *)
(* from the children map of the link it removes.  `range` yields the keys  *)
(* in any order, and not a key that a nested call has deleted before its   *)
(* turn; nested calls change the very maps the outer ones iterate over.    *)
(* Insertions and clearings are single steps here too: they hold the lock  *)
(* and do not call anything.                                               *)
(***************************************************************************)
EXTENDS LinkTable, Naturals, Sequences

\* Go's nil is no link ID.
ASSUME NoneAssumption == None \notin Links

VARIABLES
    maps,   \* cache.data and cache.children
    dead,   \* a log.Fatalln has ended the process
    stack,  \* the active calls of _remove_nolock that iterate: [link, seen]
    entry,  \* the link a call of _remove_nolock is about to handle, or None
    deep,   \* includingChildren
    before  \* history: the maps as they were when the lock was taken

vars == <<maps, dead, stack, entry, deep, before>>

Link == {link \in [id : Links, parent : Parents] : link.id # link.parent}

Unlocked == stack = <<>> /\ entry = None /\ ~dead

Init ==
    /\ maps = EmptyTable /\ before = EmptyTable
    /\ dead = FALSE /\ stack = <<>> /\ entry = None /\ deep = FALSE

InsertLink ==
    /\ Unlocked
    /\ \E link \in Link : maps' = Insert(maps, link)
    /\ before' = maps' /\ UNCHANGED <<dead, stack, entry, deep>>

ClearCache ==
    /\ Unlocked
    /\ maps' = EmptyTable
    /\ before' = maps' /\ UNCHANGED <<dead, stack, entry, deep>>

\* _remove: the lock is taken and the first call made.
CallRemove ==
    /\ Unlocked
    /\ entry' \in Links /\ deep' \in BOOLEAN
    /\ UNCHANGED <<maps, dead, stack, before>>

\* The maps are as a completed removal leaves them; the lock is released.
Unlock(m) == before' = IF stack' = <<>> /\ entry' = None THEN m ELSE before

\* (Variants named *_Mutant are the definition below them with a defect; the
\* specification does not use them.)
\* The link leaves `data` only if it has no children to remove first.
Enter_Mutant ==
    /\ entry # None /\ ~dead
    /\ entry' = None
    /\ IF entry \notin Cached(maps)
       THEN UNCHANGED <<maps, dead, stack>> /\ Unlock(maps)
       ELSE /\ maps' = IF deep THEN maps ELSE [maps EXCEPT !.data[entry] = None]
            /\ stack' = IF deep THEN Append(stack, [link |-> entry, seen |-> {}]) ELSE stack
            /\ UNCHANGED dead /\ Unlock(maps')
    /\ UNCHANGED deep

\* _remove_nolock(l): returns at once if l is not cached; otherwise takes l out
\* of data and out of its parent's map, or ends the process if it is not there.
Enter ==
    /\ entry # None /\ ~dead
    /\ entry' = None
    /\ IF entry \notin Cached(maps)
       THEN UNCHANGED <<maps, dead, stack>> /\ Unlock(maps)
       ELSE LET parent == ParentOf(maps, entry)
            IN  IF entry \notin maps.children[parent]
                THEN dead' = TRUE /\ UNCHANGED <<maps, stack, before>>
                ELSE /\ maps' = [data     |-> [maps.data EXCEPT ![entry] = None],
                                 children |-> [maps.children EXCEPT ![parent] = @ \ {entry}]]
                     /\ stack' = IF deep THEN Append(stack, [link |-> entry, seen |-> {}])
                                         ELSE stack
                     /\ UNCHANGED dead /\ Unlock(maps')
    /\ UNCHANGED deep

Top == stack[Len(stack)]

\* `for k := range data`: a child that is still there and not yet yielded.
Iterate ==
    /\ stack # <<>> /\ entry = None /\ ~dead
    /\ \E k \in maps.children[Top.link] \ Top.seen :
         /\ entry' = k
         /\ stack' = [stack EXCEPT ![Len(stack)].seen = @ \cup {k}]
    /\ UNCHANGED <<maps, dead, deep, before>>

\* Without the delete.
Finish_Mutant ==
    /\ stack # <<>> /\ entry = None /\ ~dead
    /\ maps.children[Top.link] \subseteq Top.seen
    /\ UNCHANGED maps
    /\ stack' = SubSeq(stack, 1, Len(stack) - 1)
    /\ UNCHANGED <<dead, entry, deep>> /\ Unlock(maps)

\* The loop is over: delete(cache.children, link.LinkID), and return.
Finish ==
    /\ stack # <<>> /\ entry = None /\ ~dead
    /\ maps.children[Top.link] \subseteq Top.seen
    /\ maps' = [maps EXCEPT !.children[Top.link] = {}]
    /\ stack' = SubSeq(stack, 1, Len(stack) - 1)
    /\ UNCHANGED <<dead, entry, deep>> /\ Unlock(maps')

Next == InsertLink \/ ClearCache \/ CallRemove \/ Enter \/ Iterate \/ Finish

Spec == Init /\ [][Next]_vars

-----------------------------------------------------------------------------
(* Properties *)

\* The recursion, whatever order `range` takes, amounts to the one-step removal
\* of LinkTable: nothing is left half-removed, and no Fatalln is reached.
Abstract == INSTANCE CacheTable WITH table <- before
Implements == Abstract!Spec

\* Every cached link is where the next removal will look for it, also while a
\* removal is under way.
MapsAgree == Registered(maps)

\* No link is being removed by two of the nested calls, even when the cached
\* parents form a loop: the recursion is no deeper than there are links.
NoReentry ==
    \A i, k \in DOMAIN stack : i # k => stack[i].link # stack[k].link
=============================================================================
