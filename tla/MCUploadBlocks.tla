--------------------------- MODULE MCUploadBlocks ---------------------------
(* Two uploads that share the semaphore, the first with more than one batch. *)
EXTENDS UploadBlocks, TLC

CONSTANTS u1, u2

MCMaxBlocks == (u1 :> 5) @@ (u2 :> 1)
=============================================================================
