--------------------------- MODULE MCUploadDraft ---------------------------
(* One client that meets its own drafts, and two that meet each other's.    *)
EXTENDS UploadDraft, TLC
=============================================================================
