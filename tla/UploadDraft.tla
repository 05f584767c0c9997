---------------------------- MODULE UploadDraft ----------------------------
(***************************************************************************)
(* createFileUploadDraft and what surrounds it in uploadFile: several      *)
(* clients of one account upload to the same name in the same folder.      *)
(* Every request is a step of its own; a request may fail, its answer may  *)
(* be lost, a client may crash between any two requests and leave its      *)
(* draft behind, and it may try again.  Block upload is left to            *)
(* UploadBlocks: here it is the time between the draft and the commit.     *)
(*                                                                         *)
(* The server is external.  What it does is what the code counts on: a     *)
(* name is taken by an active or a draft link, a link has at most one      *)
(* draft revision, DeleteChildren deletes draft links and refuses active   *)
(* ones, a draft revision can be deleted only if there is an active one,   *)
(* and the revisions of a deleted or broken link cannot be listed (2501).  *)
(***************************************************************************)
EXTENDS Naturals, FiniteSets

CONSTANTS
    Clients,
    Replacers,  \* the clients with Config.ReplaceExistingDraft
    MaxRevs,    \* bound: revisions, and links, ever created under the name
    MaxFaults,  \* bound: crashes, failed requests, lost answers and reaped drafts
    None        \* Go's nil, and the empty revision ID

ASSUME ConstantsAssumption ==
    /\ Replacers \subseteq Clients
    /\ MaxRevs \in Nat /\ MaxFaults \in Nat
    /\ None \notin Nat

VARIABLES
    links,    \* server: the links that have had the name
    revs,     \* server: revisions created so far
    faults,   \* faults so far
    pc,       \* per client: the request it makes next, or how the last call ended
    retried,  \* per client: createFileAction has been called twice
    link,     \* per client: the link it found or created, with the state it saw
    rev,      \* per client: the revision ID it works with
    won       \* per client: its last upload was committed and it was told so

clientVars == <<pc, retried, link, rev, won>>
vars == <<links, revs, faults, clientVars>>

LinkIDs == 1..MaxRevs
RevIDs  == 1..MaxRevs

\* draft and active are revision IDs; a broken link reserves its name but has no
\* revision that can be read.
ServerLink == [state : {"unused", "draft", "active", "deleted"},
               draft : RevIDs \cup {None}, active : RevIDs \cup {None}, broken : BOOLEAN]

Found == [id : LinkIDs, state : {"draft", "active"}]

Requests == {"create", "checkActive", "listActive", "checkDraft", "listDraft", "revisions",
             "recover", "deleteLink", "deleteRevision", "createRevision", "commit"}

TypeOK ==
    /\ links \in [LinkIDs -> ServerLink]
    /\ revs \in 0..MaxRevs /\ faults \in 0..MaxFaults
    /\ pc \in [Clients -> Requests \cup {"idle", "cantLocate", "draftExists"}]
    /\ retried \in [Clients -> BOOLEAN] /\ won \in [Clients -> BOOLEAN]
    /\ link \in [Clients -> Found \cup {None}]
    /\ rev \in [Clients -> RevIDs \cup {None}]

Init ==
    /\ links = [l \in LinkIDs |-> [state |-> "unused", draft |-> None, active |-> None,
                                   broken |-> FALSE]]
    /\ revs = 0 /\ faults = 0
    /\ pc = [c \in Clients |-> "idle"]
    /\ retried = [c \in Clients |-> FALSE] /\ won = [c \in Clients |-> FALSE]
    /\ link = [c \in Clients |-> None] /\ rev = [c \in Clients |-> None]

Goto(c, where) == pc' = [pc EXCEPT ![c] = where]

\* The links that hold the name: at most one.
Holders == {l \in LinkIDs : links[l].state \in {"draft", "active"}}

\* A draft that its owner can still commit
Live(l) == links[l].draft # None /\ ~links[l].broken

-----------------------------------------------------------------------------
(* uploadFile *)

Outcomes == {"idle", "cantLocate", "draftExists"}

Begin(c) ==
    /\ pc[c] \in Outcomes
    /\ Goto(c, "create")
    /\ retried' = [retried EXCEPT ![c] = FALSE]
    /\ link' = [link EXCEPT ![c] = None] /\ rev' = [rev EXCEPT ![c] = None]
    /\ won' = [won EXCEPT ![c] = FALSE]
    /\ UNCHANGED <<links, revs, faults>>

\* The upload ends: with an error, or committed.
End(c, how) == Goto(c, how) /\ UNCHANGED <<retried, link, rev, won>>

\* The answer to a request that changed the server reaches the client, or is
\* lost: the API client makes the request again, or the upload sees an error and
\* ends.
Answer(c, ok) ==
    \/ ok /\ UNCHANGED faults
    \/ faults < MaxFaults /\ faults' = faults + 1 /\ (UNCHANGED clientVars \/ End(c, "idle"))

\* The request is not carried out, or the client crashes before it makes it.
Fault(c) ==
    /\ pc[c] \in Requests /\ faults < MaxFaults
    /\ faults' = faults + 1
    /\ End(c, "idle")
    /\ UNCHANGED <<links, revs>>

NextRev == revs + 1

\* createFileAction: a new draft link with a draft revision.
CreateFile(c) ==
    /\ pc[c] = "create" /\ Holders = {} /\ revs < MaxRevs
    /\ \E l \in LinkIDs :
         /\ links[l].state = "unused" /\ \A k \in LinkIDs : links[k].state = "unused" => l <= k
         /\ links' = [links EXCEPT ![l].state = "draft", ![l].draft = NextRev]
         /\ revs' = NextRev
         /\ Answer(c, /\ Goto(c, "commit")
                      /\ link' = [link EXCEPT ![c] = [id |-> l, state |-> "draft"]]
                      /\ rev' = [rev EXCEPT ![c] = NextRev]
                      /\ UNCHANGED <<retried, won>>)

\* The bound on revisions is reached: the server has no room for another.
ServerFull(c) ==
    /\ pc[c] \in {"create", "createRevision"} /\ revs = MaxRevs
    /\ End(c, "idle")
    /\ UNCHANGED <<links, revs, faults>>

\* proton.ErrFileNameExist: the file is searched for, active first.
NameExists(c) ==
    /\ pc[c] = "create" /\ Holders # {}
    /\ Goto(c, "checkActive")
    /\ UNCHANGED <<links, revs, faults, retried, link, rev, won>>

\* CheckAvailableHashes: nothing is searched if the name is free by now.
CheckHash(c) ==
    /\ \/ pc[c] = "checkActive" /\ Goto(c, IF Holders = {} THEN "checkDraft" ELSE "listActive")
       \/ pc[c] = "checkDraft"  /\ Goto(c, IF Holders = {} THEN "cantLocate" ELSE "listDraft")
    /\ UNCHANGED <<links, revs, faults, retried, link, rev, won>>

\* (Variants named *_Mutant are the definition below them with a defect; the
\* specification does not use them.)
\* The state is not filtered by.
ListFolder_Mutant(c, state, otherwise) ==
    /\ pc[c] = IF state = "active" THEN "listActive" ELSE "listDraft"
    /\ \E l \in {k \in LinkIDs : links[k].state # "unused"} :
         link' = [link EXCEPT ![c] = [id |-> l, state |-> links[l].state]]
    /\ Goto(c, "revisions")
    /\ UNCHANGED <<links, revs, faults, retried, rev, won>>

\* ListChildren, filtered by name and state; ErrCantLocateRevision if neither
\* search finds the file.
ListFolder(c, state, otherwise) ==
    /\ pc[c] = IF state = "active" THEN "listActive" ELSE "listDraft"
    /\ LET found == {l \in Holders : links[l].state = state}
       IN  IF found = {} THEN Goto(c, otherwise) /\ UNCHANGED link
           ELSE /\ \E l \in found : link' = [link EXCEPT ![c] = [id |-> l, state |-> state]]
                /\ Goto(c, "revisions")
    /\ UNCHANGED <<links, revs, faults, retried, rev, won>>

Search(c) == ListFolder(c, "active", "checkDraft") \/ ListFolder(c, "draft", "cantLocate")

-----------------------------------------------------------------------------
(* handleRevisionConflict *)

Readable(l) == links[l].state \in {"draft", "active"} /\ ~links[l].broken

\* ListRevisions fails with 2501: recoverBrokenConflictState deletes the link if
\* it was a draft when it was found.
RevisionsUnreadable(c) ==
    /\ pc[c] = "revisions" /\ ~Readable(link[c].id)
    /\ Goto(c, IF link[c].state = "draft" THEN "recover" ELSE "idle")
    /\ UNCHANGED <<links, revs, faults, retried, link, rev, won>>

\* ReplaceExistingDraft is not looked at.
RevisionsListed_Mutant(c) ==
    /\ pc[c] = "revisions" /\ Readable(link[c].id)
    /\ LET draft == links[link[c].id].draft
       IN  /\ rev' = [rev EXCEPT ![c] = draft]
           /\ Goto(c, IF draft = None THEN "createRevision"
                      ELSE IF link[c].state = "draft" THEN "deleteLink" ELSE "deleteRevision")
    /\ UNCHANGED <<links, revs, faults, retried, link, won>>

\* The draft that is there is taken over.
RevisionsListedReuse_Mutant(c) ==
    /\ pc[c] = "revisions" /\ Readable(link[c].id)
    /\ LET draft == links[link[c].id].draft
       IN  /\ rev' = [rev EXCEPT ![c] = draft]
           /\ Goto(c, IF draft = None THEN "createRevision"
                      ELSE IF c \notin Replacers THEN "draftExists" ELSE "commit")
    /\ UNCHANGED <<links, revs, faults, retried, link, won>>

\* Only the draft revision is deleted, also of a link that has no other.
RevisionsListedNoLink_Mutant(c) ==
    /\ pc[c] = "revisions" /\ Readable(link[c].id)
    /\ LET draft == links[link[c].id].draft
       IN  /\ rev' = [rev EXCEPT ![c] = draft]
           /\ Goto(c, IF draft = None THEN "createRevision"
                      ELSE IF c \notin Replacers THEN "draftExists" ELSE "deleteRevision")
    /\ UNCHANGED <<links, revs, faults, retried, link, won>>

\* The draft revision, if there is one, is replaced or refused.
RevisionsListed(c) ==
    /\ pc[c] = "revisions" /\ Readable(link[c].id)
    /\ LET draft == links[link[c].id].draft
       IN  /\ rev' = [rev EXCEPT ![c] = draft]
           /\ Goto(c, IF draft = None THEN "createRevision"
                      ELSE IF c \notin Replacers THEN "draftExists"
                      ELSE IF link[c].state = "draft" THEN "deleteLink" ELSE "deleteRevision")
    /\ UNCHANGED <<links, revs, faults, retried, link, won>>

\* shouldSubmitCreateFileRequestAgain: the first time the file is created again;
\* the second time the flag is ignored, and the upload goes on with an empty
\* revision ID.
SubmitAgain(c) ==
    /\ Goto(c, IF retried[c] THEN "commit" ELSE "create")
    /\ retried' = [retried EXCEPT ![c] = TRUE]
    /\ link' = IF retried[c] THEN link ELSE [link EXCEPT ![c] = None]
    /\ rev' = [rev EXCEPT ![c] = None]
    /\ UNCHANGED won

\* DeleteChildren of the draft link
DeleteLink(c) ==
    /\ pc[c] \in {"recover", "deleteLink"}
    /\ LET l == link[c].id
       IN  /\ links[l].state = "draft"
           /\ links' = [links EXCEPT ![l].state = "deleted", ![l].draft = None]
    /\ Answer(c, SubmitAgain(c))
    /\ UNCHANGED revs

\* DeleteChildren of a link that is not a draft any more.
DeleteLinkRefused(c) ==
    /\ pc[c] \in {"recover", "deleteLink"} /\ links[link[c].id].state # "draft"
    /\ End(c, "idle")
    /\ UNCHANGED <<links, revs, faults>>

DeleteRevision(c) ==
    /\ pc[c] = "deleteRevision"
    /\ LET l == link[c].id
       IN  /\ links[l].state = "active" /\ links[l].draft = rev[c]
           /\ links' = [links EXCEPT ![l].draft = None]
    /\ Answer(c, /\ Goto(c, "createRevision")
                 /\ rev' = [rev EXCEPT ![c] = None]
                 /\ UNCHANGED <<retried, link, won>>)
    /\ UNCHANGED revs

DeleteRevisionRefused(c) ==
    /\ pc[c] = "deleteRevision"
    /\ links[link[c].id].state # "active" \/ links[link[c].id].draft # rev[c]
    /\ End(c, "idle")
    /\ UNCHANGED <<links, revs, faults>>

CreateRevision(c) ==
    /\ pc[c] = "createRevision" /\ revs < MaxRevs
    /\ LET l == link[c].id
       IN  /\ links[l].state = "active" /\ links[l].draft = None
           /\ links' = [links EXCEPT ![l].draft = NextRev]
    /\ revs' = NextRev
    /\ Answer(c, /\ Goto(c, "commit")
                 /\ rev' = [rev EXCEPT ![c] = NextRev]
                 /\ UNCHANGED <<retried, link, won>>)

CreateRevisionRefused(c) ==
    /\ pc[c] = "createRevision"
    /\ links[link[c].id].state # "active" \/ links[link[c].id].draft # None
    /\ End(c, "idle")
    /\ UNCHANGED <<links, revs, faults>>

-----------------------------------------------------------------------------
(* The commit, after the blocks *)

Commit(c) ==
    /\ pc[c] = "commit"
    /\ LET l == link[c].id
       IN  /\ Readable(l) /\ rev[c] # None /\ links[l].draft = rev[c]
           /\ links' = [links EXCEPT ![l] = [@ EXCEPT !.state = "active", !.draft = None,
                                                      !.active = rev[c]]]
    /\ Answer(c, /\ Goto(c, "idle")
                 /\ won' = [won EXCEPT ![c] = TRUE]
                 /\ UNCHANGED <<retried, link, rev>>)
    /\ UNCHANGED revs

\* The draft is gone, or there never was one: getRevisionVerification or
\* CommitRevision reports an error.
CommitRefused(c) ==
    /\ pc[c] = "commit"
    /\ \/ ~Readable(link[c].id) \/ rev[c] = None \/ links[link[c].id].draft # rev[c]
    /\ End(c, "idle")
    /\ UNCHANGED <<links, revs, faults>>

\* The server drops the revision of a draft link but keeps the name reserved.
Reap ==
    /\ faults < MaxFaults /\ faults' = faults + 1
    /\ \E l \in LinkIDs :
         /\ links[l].state = "draft" /\ ~links[l].broken
         /\ links' = [links EXCEPT ![l].broken = TRUE]
    /\ UNCHANGED <<revs, clientVars>>

Upload(c) ==
    \/ CreateFile(c) \/ ServerFull(c) \/ NameExists(c) \/ CheckHash(c) \/ Search(c)
    \/ RevisionsUnreadable(c) \/ RevisionsListed(c)
    \/ DeleteLink(c) \/ DeleteLinkRefused(c)
    \/ DeleteRevision(c) \/ DeleteRevisionRefused(c)
    \/ CreateRevision(c) \/ CreateRevisionRefused(c)
    \/ Commit(c) \/ CommitRefused(c)

Next ==
    \/ \E c \in Clients : Begin(c) \/ Upload(c) \/ Fault(c)
    \/ Reap

Spec == Init /\ [][Next]_vars

\* A client that wants its file uploaded keeps trying, and every request is
\* answered.
FairSpec ==
    Spec /\ \A c \in Clients : WF_vars(Upload(c)) /\ WF_vars(~won[c] /\ Begin(c))

-----------------------------------------------------------------------------
(* Properties *)

\* A client that is not to replace drafts never destroys one that its owner
\* could still commit, however the requests of the two interleave.
ConservativeKeepsDrafts ==
    [][\A c \in Clients \ Replacers, l \in LinkIDs :
          Live(l) /\ pc'[c] # pc[c] => Live(l)' \/ links'[l].active = links[l].draft]_vars

\* No two clients upload their blocks into one revision.
NoSharedRevision ==
    \A c, d \in Clients :
        c # d /\ pc[c] = "commit" /\ pc[d] = "commit" /\ rev[c] # None => rev[c] # rev[d]

\* A client that replaces drafts and keeps trying gets its file uploaded: no
\* draft left by a crash or a lost answer keeps the name for ever.  Only other
\* clients that create revision after revision can keep it from that.
RetrySucceeds == \A c \in Replacers : <>(won[c] \/ revs = MaxRevs)

\* file_upload.go:374: "we need to delete the link and recreate one": when
\* createFileUploadDraft has succeeded there is a revision to upload into.
DraftHasRevision == \A c \in Clients : pc[c] = "commit" => rev[c] # None
=============================================================================
