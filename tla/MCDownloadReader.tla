-------------------------- MODULE MCDownloadReader --------------------------
(* Four revisions: of several blocks with their sizes in the attributes, of *)
(* others without, an empty one, and one that has no attributes.            *)
EXTENDS DownloadReader, TLC

CONSTANTS r1, r2, r3, r4

MCEnds == (r1 :> <<2, 4, 5>>) @@ (r2 :> <<3, 4>>) @@ (r3 :> <<>>) @@ (r4 :> <<1>>)

MCXAttr ==
    (r1 :> "sizes") @@ (r2 :> "no sizes") @@ (r3 :> "sizes") @@ (r4 :> "missing")

MCOffsets == {-1, 0, 1, 2, 3, 4, 5, 6}
=============================================================================
