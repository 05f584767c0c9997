------------------------- MODULE LinkCacheInvariant -------------------------
(***************************************************************************)
(* The inductive invariant of LinkCache.  It says of every link the client *)
(* holds anywhere that it is a snapshot the server once gave, and of every *)
(* lookup what it is looking for: whatever steps other callers and other   *)
(* clients take in between, the keyring it brings is the one for which it  *)
(* was started.                                                            *)
(***************************************************************************)
EXTENDS LinkCache

\* What the server hands out: a link whose passphrase its parent's key opens.
Snapshot == {link \in Link : link.encTo = link.parent}

ServerOK ==
    /\ server \in [Links -> Snapshot] /\ \A l \in Links : server[l].id = l
    /\ changes \in Nat

\* An entry of the cache is a snapshot of its own link with no keyring but its
\* own, and is registered with the parent it names.
EntryOK(t, l) ==
    LET e == t.data[l]
    IN  /\ e \in Entry /\ e.link \in Snapshot /\ e.link.id = l
        /\ e.kr \in {None, l}
        /\ l \in t.children[e.link.parent]

TableOK(t) == t \in Table /\ \A l \in Cached(t) : EntryOK(t, l)

HeldOK == held \in [Callers -> Snapshot \cup {None}]

\* One of the first n steps of the operation is this one.
Done(op, n, step) == \E m \in 1..n : Program[op][m] = step

\* What the first n steps of j have left in it.
Ready(j, n) ==
    /\ j.src \in Snapshot \cup {None} /\ j.dst \in Snapshot \cup {None}
    /\ j.listed \subseteq Snapshot
    /\ j.op \in ByLink \/ Done(j.op, n, "getSrc") => j.src # None
    /\ Done(j.op, n, "getDst") \/ Done(j.op, n, "findDst") => j.dst # None
    /\ Done(j.op, n, "krSrc") => j.src # None /\ j.kr = j.src.id
    /\ Done(j.op, n, "krDst") => j.dst # None /\ j.kr = j.dst.id

JobOK(j) == j \in Job /\ j.at \in 1..Len(Program[j.op]) /\ Ready(j, j.at - 1)

LinkSteps == {"getSrc", "getDst"}
KeyringSteps == {"krSrc", "krDst", "krSrcParent", "krDstParent"}

\* The node that the lookup of step j.at is for
Goal(j) ==
    LET step == Program[j.op][j.at]
    IN  CASE step = "getSrc"      -> j.l
          [] step = "getDst"      -> j.d
          [] step = "krSrc"       -> j.src.id
          [] step = "krDst"       -> j.dst.id
          [] step = "krSrcParent" -> j.src.parent
          [] OTHER                -> j.dst.parent

\* The node it has to find before it can decrypt the innermost link of its climb
Wanted(cl, j) == IF cl.climb = <<>> THEN Goal(j) ELSE cl.climb[Len(cl.climb)].parent

\* The links of a climb lead from the goal upwards, each the parent that the
\* snapshot before it names.
ClimbOK(climb, j) ==
    /\ climb \in Seq(Snapshot)
    /\ climb # <<>> => climb[1].id = Goal(j)
    /\ \A k \in 1..(Len(climb) - 1) : climb[k].parent = climb[k + 1].id

LookupOK(cl, j) ==
    /\ cl.wants = "link" => /\ cl.at \in {"get", "fetch", "insert"} /\ cl.climb = <<>>
                            /\ Program[j.op][j.at] \in LinkSteps
    /\ cl.wants = "kr" => Program[j.op][j.at] \in KeyringSteps
    /\ ClimbOK(cl.climb, j)
    /\ cl.at \in {"get", "fetch"} => cl.id \in Links
    /\ cl.at \in {"get", "fetch", "krById"} => cl.id = Wanted(cl, j)
    /\ cl.at \in {"insert", "kr", "plant"} =>
         cl.link \in Snapshot /\ cl.link.id = Wanted(cl, j)
    /\ cl.at = "unwind" => cl.kr = Wanted(cl, j)

CallerOK(c) ==
    \/ job[c] = None /\ call[c] = NoCall
    \/ job[c] # None /\ JobOK(job[c]) /\ (call[c].at # "none" => LookupOK(call[c], job[c]))

CallersOK ==
    /\ job \in [Callers -> Job \cup {None}]
    /\ call \in [Callers -> Call]
    /\ \A c \in Callers : CallerOK(c)

\* The inductive invariant: whatever a caller holds is a snapshot, and every
\* lookup is on the way to the node it was started for.
IInv ==
    /\ ServerOK
    /\ TableOK(cache)
    /\ process \in {"running", "overflow"}
    /\ CallersOK
    /\ HeldOK
=============================================================================
