----------------------------- MODULE CacheTable -----------------------------
(***************************************************************************)
(* What cache.go promises to those who call it: the table changes only by  *)
(* whole insertions, whole removals and clearings, one at a time.  This is *)
(* the view LinkCache takes of the cache; CacheRemove shows that the code  *)
(* of _remove, run step by step under the lock, implements it.             *)
(***************************************************************************)
EXTENDS LinkTable

VARIABLES
    table,  \* the two maps of the cache
    dead    \* a log.Fatalln has ended the process

Link == {link \in [id : Links, parent : Parents] : link.id # link.parent}

InsertAny == \E link \in Link : table' = Insert(table, link) /\ UNCHANGED dead

RemoveAny ==
    \E l \in Links, includingChildren \in BOOLEAN :
        IF RemoveIsFatal(table, l, includingChildren)
        THEN dead' = TRUE /\ UNCHANGED table
        ELSE table' = Remove(table, l, includingChildren) /\ UNCHANGED dead

ClearAll == table' = EmptyTable /\ UNCHANGED dead

Init == table = EmptyTable /\ dead = FALSE

Next == ~dead /\ (InsertAny \/ RemoveAny \/ ClearAll)

Spec == Init /\ [][Next]_<<table, dead>>
=============================================================================
