--------------------------- MODULE MCCacheRemove ---------------------------
(* Three links, each of which may be cached with any other as its parent.   *)
EXTENDS CacheRemove, TLC
LinkSymmetry == Permutations(Links)
=============================================================================
