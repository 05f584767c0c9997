----------------------------- MODULE MCTreeWalk -----------------------------
(* A root with a folder and a file, a second folder and a file in the first, *)
(* and a file yet to be created; two files have the same name.               *)
EXTENDS TreeWalk, TLC

CONSTANTS root, a, b, f, g

MCName ==
    (root :> "root") @@ (a :> "a") @@ (b :> "b") @@ (f :> "x") @@ (g :> "x")

In(p, s) == [parent |-> p, state |-> s]

MCTree ==
    (root :> In(NoLink, "active")) @@ (a :> In(root, "active")) @@ (b :> In(a, "active"))
        @@ (f :> In(b, "active")) @@ (g :> In(NoLink, "absent"))

MCCalls ==
    {List(root, -1, TRUE), List(root, 1, TRUE), List(root, 2, FALSE),
     Search(root, "x", "file", FALSE), Search(root, "x", "file", TRUE),
     Search(a, "b", "folder", FALSE)}
=============================================================================
