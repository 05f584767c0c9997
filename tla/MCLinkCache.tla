---------------------------- MODULE MCLinkCache ----------------------------
(***************************************************************************)
(* Instances of LinkCache for TLC: a drive with a root, two folders and a  *)
(* file, and the sets of operations the runs let callers use.              *)
(***************************************************************************)
EXTENDS LinkCacheInvariant, TLC

CONSTANTS root, a, b, f

\* b does not exist yet: CreateNewFolderByID makes it.
MCWithoutB == (root :> NoLink) @@ (a :> root) @@ (b :> NoLink) @@ (f :> a)

\* A drive of two folders.
MCFolders == (root :> NoLink) @@ (a :> root) @@ (b :> root)

\* A drive of a folder and a file, which may have yet to be uploaded.
MCAF       == (root :> NoLink) @@ (a :> root) @@ (f :> a)
MCWithoutF == (root :> NoLink) @@ (a :> root) @@ (f :> NoLink)

CallerSymmetry == Permutations(Callers)
=============================================================================
