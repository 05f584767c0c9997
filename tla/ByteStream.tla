----------------------------- MODULE ByteStream -----------------------------
(***************************************************************************)
(* What DownloadFile promises to its caller: it asks for a file from an    *)
(* offset and then reads the bytes of one revision of that file from there *)
(* on, in order, each once, until the end.  A call may fail without losing *)
(* the place.  After a failed integrity check nothing is promised.         *)
(*                                                                         *)
(* The k-th byte of revision r is <<r, k>>.                                *)
(***************************************************************************)
EXTENDS Integers, Sequences

CONSTANTS
    Revisions,  \* revisions of the file
    Size,       \* [Revisions -> Nat]: the bytes of each
    NoRevision  \* not a revision

VARIABLES
    status,     \* "idle", "opening", "open" or "broken"
    asked,      \* the offset asked for
    file,       \* the revision opened
    attrs,      \* the revision whose attributes the caller was given
    pos,        \* how many bytes of the file are behind the reader
    chunk,      \* the bytes the last call returned
    eof         \* the last call returned io.EOF

vars == <<status, asked, file, attrs, pos, chunk, eof>>

\* Bytes from..to of revision r
Bytes(r, from, to) == [k \in 1..(to - from + 1) |-> <<r, from + k - 1>>]

Init ==
    /\ status = "idle" /\ asked = 0 /\ file = NoRevision /\ attrs = NoRevision
    /\ pos = 0 /\ chunk = <<>> /\ eof = FALSE

Call ==
    /\ status = "idle"
    /\ status' = "opening" /\ asked' \in Int
    /\ UNCHANGED <<file, attrs, pos, chunk, eof>>

\* The reader is at the offset asked for, which lies in the file or at its end.
Open ==
    /\ status = "opening"
    /\ \E r \in Revisions : asked \in 0..Size[r] /\ file' = r /\ attrs' = r
    /\ status' = "open" /\ pos' = asked
    /\ UNCHANGED <<asked, chunk, eof>>

Deliver ==
    /\ status = "open"
    /\ \E n \in 1..(Size[file] - pos) :
         pos' = pos + n /\ chunk' = Bytes(file, pos + 1, pos + n)
    /\ eof' = FALSE
    /\ UNCHANGED <<status, asked, file, attrs>>

End ==
    /\ status = "open" /\ pos = Size[file]
    /\ chunk' = <<>> /\ eof' = TRUE
    /\ UNCHANGED <<status, asked, file, attrs, pos>>

Fail ==
    /\ status = "open"
    /\ chunk' = <<>> /\ eof' = FALSE
    /\ UNCHANGED <<status, asked, file, attrs, pos>>

\* A block is found to be not what was uploaded: the reader has lost its place.
Break ==
    /\ status = "open"
    /\ status' = "broken" /\ pos' = 0 /\ chunk' = <<>> /\ eof' = FALSE
    /\ UNCHANGED <<asked, file, attrs>>

\* The call fails, or the caller closes the reader.
Finish ==
    /\ status # "idle"
    /\ status' = "idle" /\ asked' = 0 /\ file' = NoRevision /\ attrs' = NoRevision
    /\ pos' = 0 /\ chunk' = <<>> /\ eof' = FALSE

Next == Call \/ Open \/ Deliver \/ End \/ Fail \/ Break \/ Finish

Spec == Init /\ [][Next]_vars
=============================================================================
