--------------------------- MODULE MCDriveClient ---------------------------
(* One mail with two attachments, and one to an external recipient. *)
EXTENDS DriveClient, TLC

CONSTANTS m1, m2

MCAttachments == (m1 :> 2) @@ (m2 :> 0)
=============================================================================
