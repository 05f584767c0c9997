------------------------- MODULE UploadDraftProofs -------------------------
(***************************************************************************)
(* Proofs about UploadDraft: any number of clients, conservative or not,   *)
(* any number of crashes, lost answers, drafts and revisions.              *)
(***************************************************************************)
EXTENDS UploadDraft, TLAPS

\* The states in which a client works with the link it has found or created
WithLink == {"revisions", "recover", "deleteLink", "deleteRevision", "createRevision", "commit"}

\* The link of a client is one that had the name; a conservative client is about
\* to delete one only if nobody can read or commit it any more.
ClientOK(c) ==
    /\ pc[c] \in WithLink => link[c] \in Found /\ links[link[c].id].state # "unused"
    /\ rev[c] # None => rev[c] <= revs
    /\ pc[c] = "recover" => ~Readable(link[c].id)
    /\ pc[c] \in {"deleteLink", "deleteRevision"} => c \in Replacers

\* The drafts on the server have been created.
DraftsOK == \A l \in LinkIDs : links[l].draft # None => links[l].draft <= revs

IInv == TypeOK /\ DraftsOK /\ (\A c \in Clients : ClientOK(c)) /\ NoSharedRevision

-----------------------------------------------------------------------------
(* The server *)

\* What a request may make of a link: it stays one that had the name, its draft
\* is the one it had or the newest, and what cannot be read stays so.
LinkBecomes(old, new) ==
    /\ new.state # "unused"
    /\ new.draft \in {None, old.draft, revs'}
    /\ old.broken => new.broken
    /\ old.state = "deleted" => new.state = "deleted"

\* Every link stays as it is or becomes what a request makes of it.
ServerChange ==
    /\ revs' \in 0..MaxRevs /\ revs <= revs'
    /\ links' \in [LinkIDs -> ServerLink]
    /\ \A l \in LinkIDs : links'[l] = links[l] \/ LinkBecomes(links[l], links'[l])

\* The parts of a link
LEMMA LinkParts ==
    ASSUME TypeOK, NEW l \in LinkIDs
    PROVE  /\ links[l].state \in {"unused", "draft", "active", "deleted"}
           /\ links[l].draft \in RevIDs \cup {None} /\ links[l].active \in RevIDs \cup {None}
           /\ links[l].broken \in BOOLEAN
BY DEF TypeOK, ServerLink

LEMMA NextRevision ==
    ASSUME TypeOK, revs < MaxRevs
    PROVE  NextRev \in RevIDs /\ NextRev \in 0..MaxRevs /\ revs <= NextRev /\ ~(NextRev <= revs)
BY ConstantsAssumption DEF TypeOK, RevIDs, NextRev

\* The server's part of every request
LEMMA CreateFileChanges ==
    ASSUME TypeOK, NEW c \in Clients, CreateFile(c) PROVE ServerChange
<1>1. PICK l \in LinkIDs :
         /\ links[l].state = "unused"
         /\ links' = [links EXCEPT ![l].state = "draft", ![l].draft = NextRev]
         /\ revs' = NextRev
  BY DEF CreateFile
<1>2. NextRev \in RevIDs /\ NextRev \in 0..MaxRevs /\ revs <= NextRev
  BY NextRevision DEF CreateFile
<1>3. /\ links' \in [LinkIDs -> ServerLink]
      /\ links'[l].state = "draft" /\ links'[l].draft = NextRev
      /\ links'[l].broken = links[l].broken
      /\ \A k \in LinkIDs \ {l} : links'[k] = links[k]
  BY <1>1, <1>2 DEF TypeOK, ServerLink
<1> QED BY <1>1, <1>2, <1>3 DEF ServerChange, LinkBecomes

LEMMA CreateRevisionChanges ==
    ASSUME TypeOK, NEW c \in Clients, CreateRevision(c), link[c] \in Found PROVE ServerChange
<1> DEFINE l == link[c].id
<1>1. /\ l \in LinkIDs /\ links[l].state = "active"
      /\ links' = [links EXCEPT ![l].draft = NextRev]
      /\ revs' = NextRev
  BY DEF CreateRevision, Found
<1>2. NextRev \in RevIDs /\ NextRev \in 0..MaxRevs /\ revs <= NextRev
  BY NextRevision DEF CreateRevision
<1> HIDE DEF l
<1>3. /\ links' \in [LinkIDs -> ServerLink]
      /\ links'[l].state = links[l].state /\ links'[l].draft = NextRev
      /\ links'[l].broken = links[l].broken
      /\ \A k \in LinkIDs \ {l} : links'[k] = links[k]
  BY <1>1, <1>2 DEF TypeOK, ServerLink
<1> QED BY <1>1, <1>2, <1>3 DEF ServerChange, LinkBecomes

LEMMA DeleteChanges ==
    ASSUME TypeOK, NEW c \in Clients, DeleteLink(c) \/ DeleteRevision(c), link[c] \in Found
    PROVE  ServerChange
<1> DEFINE l == link[c].id
<1>1. l \in LinkIDs /\ revs' = revs
  BY DEF DeleteLink, DeleteRevision, Found
<1>2. /\ links[l].state \in {"draft", "active"}
      /\ \/ links' = [links EXCEPT ![l].state = "deleted", ![l].draft = None]
         \/ links' = [links EXCEPT ![l].draft = None]
  BY DEF DeleteLink, DeleteRevision
<1> HIDE DEF l
<1>3. /\ links' \in [LinkIDs -> ServerLink]
      /\ links'[l].state \in {"deleted", links[l].state} /\ links'[l].draft = None
      /\ links'[l].broken = links[l].broken
      /\ \A k \in LinkIDs \ {l} : links'[k] = links[k]
  <2>1. CASE links' = [links EXCEPT ![l].state = "deleted", ![l].draft = None]
    BY <1>1, <2>1 DEF TypeOK, ServerLink
  <2>2. CASE links' = [links EXCEPT ![l].draft = None]
    BY <1>1, <2>2 DEF TypeOK, ServerLink
  <2> QED BY <1>2, <2>1, <2>2
<1>4. revs' \in 0..MaxRevs /\ revs <= revs'
  BY <1>1, ConstantsAssumption DEF TypeOK
<1> QED BY <1>1, <1>2, <1>3, <1>4 DEF ServerChange, LinkBecomes

LEMMA CommitChanges ==
    ASSUME TypeOK, NEW c \in Clients, Commit(c), link[c] \in Found PROVE ServerChange
<1> DEFINE l == link[c].id
<1>1. /\ l \in LinkIDs /\ revs' = revs /\ Readable(l) /\ rev[c] \in RevIDs
      /\ links' = [links EXCEPT ![l] = [@ EXCEPT !.state = "active", !.draft = None,
                                                 !.active = rev[c]]]
  BY DEF Commit, Found, TypeOK
<1> HIDE DEF l
<1>2. /\ links' \in [LinkIDs -> ServerLink]
      /\ links'[l].state = "active" /\ links'[l].draft = None
      /\ links'[l].broken = links[l].broken
      /\ \A k \in LinkIDs \ {l} : links'[k] = links[k]
  BY <1>1 DEF TypeOK, ServerLink
<1>3. revs' \in 0..MaxRevs /\ revs <= revs'
  BY <1>1, ConstantsAssumption DEF TypeOK
<1> QED BY <1>1, <1>2, <1>3 DEF ServerChange, LinkBecomes, Readable

LEMMA ReapChanges == ASSUME TypeOK, Reap PROVE ServerChange
<1>1. PICK l \in LinkIDs : links[l].state = "draft" /\ links' = [links EXCEPT ![l].broken = TRUE]
  BY DEF Reap
<1>2. /\ links' \in [LinkIDs -> ServerLink]
      /\ links'[l].state = "draft" /\ links'[l].draft = links[l].draft /\ links'[l].broken
      /\ \A k \in LinkIDs \ {l} : links'[k] = links[k]
  BY <1>1 DEF TypeOK, ServerLink
<1>3. revs' = revs /\ revs' \in 0..MaxRevs /\ revs <= revs'
  BY ConstantsAssumption DEF Reap, TypeOK
<1> QED BY <1>1, <1>2, <1>3 DEF ServerChange, LinkBecomes

\* What the clients know of the server stays true when it changes.
LEMMA ServerKeeps ==
    ASSUME TypeOK, DraftsOK, ServerChange
    PROVE  /\ links' \in [LinkIDs -> ServerLink] /\ revs' \in 0..MaxRevs /\ revs <= revs'
           /\ DraftsOK'
           /\ \A l \in LinkIDs : links[l].state # "unused" =>
                 links'[l].state # "unused" /\ (~Readable(l) => ~Readable(l)')
<1>1. /\ revs \in Nat /\ revs' \in Nat
      /\ \A l \in LinkIDs : links[l].draft # None => links[l].draft \in Nat
  <2>1. ASSUME NEW l \in LinkIDs, links[l].draft # None PROVE links[l].draft \in Nat
    BY <2>1, LinkParts, ConstantsAssumption DEF RevIDs
  <2> QED BY <2>1, ConstantsAssumption DEF ServerChange, TypeOK
<1>2. ASSUME NEW l \in LinkIDs, links'[l].draft # None PROVE links'[l].draft <= revs'
  <2>1. links'[l].draft = revs' \/ links'[l].draft = links[l].draft
    BY <1>2 DEF ServerChange, LinkBecomes
  <2>2. revs <= revs' /\ (links[l].draft # None => links[l].draft <= revs)
    BY DEF ServerChange, DraftsOK
  <2> QED BY <1>1, <1>2, <2>1, <2>2
<1>3. ASSUME NEW l \in LinkIDs, links[l].state # "unused"
      PROVE  links'[l].state # "unused" /\ (~Readable(l) => ~Readable(l)')
  <2>1. links[l].state \in {"draft", "active", "deleted"}
    BY <1>3, LinkParts
  <2> QED BY <1>3, <2>1 DEF ServerChange, LinkBecomes, Readable
<1> QED BY <1>2, <1>3 DEF DraftsOK, ServerChange

-----------------------------------------------------------------------------
(* The clients *)

ClientTypeOK ==
    /\ pc \in [Clients -> Requests \cup {"idle", "cantLocate", "draftExists"}]
    /\ retried \in [Clients -> BOOLEAN] /\ won \in [Clients -> BOOLEAN]
    /\ link \in [Clients -> Found \cup {None}]
    /\ rev \in [Clients -> RevIDs \cup {None}]

SameClient(d) == pc'[d] = pc[d] /\ link'[d] = link[d] /\ rev'[d] = rev[d]

\* What a step of a client does to it and to no other: a client that comes to
\* upload blocks does so into a new revision, or into none.
ClientStep(c) ==
    /\ ClientTypeOK'
    /\ \A d \in Clients \ {c} : SameClient(d)
    /\ ClientOK(c)'
    /\ pc'[c] = "commit" =>
         \/ pc[c] = "commit" /\ rev'[c] = rev[c]
         \/ rev'[c] = None
         \/ rev'[c] = revs' /\ ~(revs' <= revs)

\* A client that makes no step
LEMMA OtherClient ==
    ASSUME TypeOK, DraftsOK, ServerChange, NEW d \in Clients, ClientOK(d), SameClient(d)
    PROVE  ClientOK(d)'
<1>1. /\ revs <= revs' /\ revs \in Nat /\ revs' \in Nat
      /\ \A l \in LinkIDs : links[l].state # "unused" =>
            links'[l].state # "unused" /\ (~Readable(l) => ~Readable(l)')
  BY ServerKeeps, ConstantsAssumption DEF TypeOK
<1>2. pc'[d] = pc[d] /\ link'[d] = link[d] /\ rev'[d] = rev[d]
  BY DEF SameClient
<1>3. pc[d] \in WithLink => link[d].id \in LinkIDs /\ links'[link[d].id].state # "unused"
  BY <1>1 DEF ClientOK, Found
<1>4. rev[d] # None => rev[d] <= revs'
  <2>1. rev[d] # None => rev[d] \in Nat
    BY ConstantsAssumption DEF TypeOK, RevIDs
  <2> QED BY <1>1, <2>1 DEF ClientOK
<1>5. pc[d] = "recover" => ~Readable(link[d].id)'
  <2> SUFFICES ASSUME pc[d] = "recover" PROVE ~Readable(link[d].id)'
    OBVIOUS
  <2>1. /\ link[d].id \in LinkIDs /\ links[link[d].id].state # "unused"
        /\ ~Readable(link[d].id)
    BY DEF ClientOK, WithLink, Found
  <2> QED BY <1>1, <1>2, <2>1 DEF Readable
<1> QED BY <1>2, <1>3, <1>4, <1>5 DEF ClientOK

\* Whether a client ends or repeats its request, the server may have changed.
LEMMA NoStep ==
    ASSUME TypeOK, DraftsOK, ServerChange, NEW c \in Clients, ClientOK(c), UNCHANGED clientVars
    PROVE  ClientStep(c)
<1>1. ClientTypeOK' /\ \A d \in Clients : SameClient(d)
  BY DEF TypeOK, ClientTypeOK, SameClient, clientVars
<1> QED BY <1>1, OtherClient DEF ClientStep, SameClient

LEMMA EndStep ==
    ASSUME TypeOK, DraftsOK, ServerChange, NEW c \in Clients, ClientOK(c),
           NEW how \in Outcomes, End(c, how)
    PROVE  ClientStep(c)
<1>1. /\ pc' = [pc EXCEPT ![c] = how] /\ UNCHANGED <<retried, link, rev, won>>
  BY DEF End, Goto
<1>2. ClientTypeOK' /\ pc'[c] = how /\ \A d \in Clients \ {c} : SameClient(d)
  BY <1>1 DEF TypeOK, ClientTypeOK, SameClient, Outcomes
<1>3. ClientOK(c)'
  <2>1. rev[c] # None => rev[c] <= revs'
    BY ConstantsAssumption DEF TypeOK, RevIDs, ClientOK, ServerChange
  <2> QED BY <1>1, <1>2, <2>1 DEF ClientOK, WithLink, Outcomes
<1> QED BY <1>2, <1>3 DEF ClientStep, Outcomes

\* The steps that leave the server alone
LEMMA ClientMoves ==
    ASSUME IInv, NEW c \in Clients,
           \/ Begin(c) \/ Fault(c) \/ ServerFull(c) \/ NameExists(c) \/ CheckHash(c)
           \/ Search(c) \/ RevisionsUnreadable(c) \/ RevisionsListed(c) \/ DeleteLinkRefused(c)
           \/ DeleteRevisionRefused(c) \/ CreateRevisionRefused(c) \/ CommitRefused(c)
    PROVE  ServerChange /\ ClientStep(c) /\ faults' \in 0..MaxFaults
<1>1. TypeOK /\ DraftsOK /\ ClientOK(c)
  BY DEF IInv
<1>2. links' = links /\ revs' = revs
  BY DEF Begin, Fault, ServerFull, NameExists, CheckHash, Search, ListFolder,
         RevisionsUnreadable, RevisionsListed, DeleteLinkRefused, DeleteRevisionRefused,
         CreateRevisionRefused, CommitRefused
<1>3. ServerChange
  BY <1>1, <1>2, ConstantsAssumption DEF TypeOK, ServerChange
<1>4. faults' \in 0..MaxFaults
  <2>1. faults' = faults \/ (faults < MaxFaults /\ faults' = faults + 1)
    BY DEF Begin, Fault, ServerFull, NameExists, CheckHash, Search, ListFolder,
           RevisionsUnreadable, RevisionsListed, DeleteLinkRefused, DeleteRevisionRefused,
           CreateRevisionRefused, CommitRefused
  <2> QED BY <1>1, <2>1, ConstantsAssumption DEF TypeOK
<1>5. CASE \/ Fault(c) \/ ServerFull(c) \/ DeleteLinkRefused(c) \/ DeleteRevisionRefused(c)
           \/ CreateRevisionRefused(c) \/ CommitRefused(c)
  <2>1. End(c, "idle")
    BY <1>5 DEF Fault, ServerFull, DeleteLinkRefused, DeleteRevisionRefused,
                CreateRevisionRefused, CommitRefused
  <2> QED BY <1>1, <1>3, <1>4, <2>1, EndStep DEF Outcomes
<1>6. CASE Begin(c)
  <2>1. ClientTypeOK' /\ \A d \in Clients \ {c} : SameClient(d)
    BY <1>1, <1>6 DEF Begin, Goto, TypeOK, ClientTypeOK, SameClient, Requests
  <2>2. pc'[c] = "create" /\ rev'[c] = None
    BY <1>1, <1>6 DEF Begin, Goto, TypeOK
  <2> QED BY <1>3, <1>4, <2>1, <2>2 DEF ClientStep, ClientOK, WithLink
<1>7. CASE NameExists(c) \/ CheckHash(c)
  <2>1. PICK where \in {"checkActive", "checkDraft", "listActive", "cantLocate", "listDraft"} :
           pc' = [pc EXCEPT ![c] = where] /\ UNCHANGED <<retried, link, rev, won>>
    BY <1>7 DEF NameExists, CheckHash, Goto
  <2>2. ClientTypeOK' /\ (\A d \in Clients \ {c} : SameClient(d)) /\ pc'[c] = where
    BY <1>1, <2>1 DEF TypeOK, ClientTypeOK, SameClient, Requests
  <2> QED BY <1>1, <1>2, <1>3, <1>4, <2>1, <2>2 DEF ClientStep, ClientOK, WithLink
<1>8. CASE Search(c)
  <2>1. PICK state \in {"active", "draft"}, where \in {"checkDraft", "cantLocate"} :
           ListFolder(c, state, where)
    BY <1>8 DEF Search
  <2>2. UNCHANGED <<links, revs, faults, retried, rev, won>>
    BY <2>1 DEF ListFolder
  <2>3. CASE Goto(c, where) /\ UNCHANGED link
    <3>1. ClientTypeOK' /\ (\A d \in Clients \ {c} : SameClient(d)) /\ pc'[c] = where
      BY <1>1, <2>2, <2>3 DEF Goto, TypeOK, ClientTypeOK, SameClient, Requests
    <3> QED BY <1>1, <1>2, <1>3, <1>4, <2>2, <3>1 DEF ClientStep, ClientOK, WithLink
  <2>4. CASE /\ \E l \in Holders : link' = [link EXCEPT ![c] = [id |-> l, state |-> state]]
             /\ Goto(c, "revisions")
    <3>1. PICK l \in Holders : link' = [link EXCEPT ![c] = [id |-> l, state |-> state]]
      BY <2>4
    <3>2. l \in LinkIDs /\ links[l].state # "unused" /\ [id |-> l, state |-> state] \in Found
      BY <3>1 DEF Holders, Found
    <3>3. ClientTypeOK' /\ (\A d \in Clients \ {c} : SameClient(d)) /\ pc'[c] = "revisions"
      BY <1>1, <2>2, <2>4, <3>1, <3>2 DEF Goto, TypeOK, ClientTypeOK, SameClient, Requests
    <3>4. link'[c] = [id |-> l, state |-> state]
      BY <1>1, <3>1 DEF TypeOK
    <3> QED BY <1>1, <1>2, <1>3, <1>4, <2>2, <3>2, <3>3, <3>4 DEF ClientStep, ClientOK, WithLink
  <2> QED BY <2>1, <2>3, <2>4 DEF ListFolder
<1>9. CASE RevisionsUnreadable(c)
  <2>1. PICK where \in {"recover", "idle"} :
           pc' = [pc EXCEPT ![c] = where] /\ UNCHANGED <<retried, link, rev, won>>
    BY <1>9 DEF RevisionsUnreadable, Goto
  <2>2. ClientTypeOK' /\ (\A d \in Clients \ {c} : SameClient(d)) /\ pc'[c] = where
    BY <1>1, <2>1 DEF TypeOK, ClientTypeOK, SameClient, Requests
  <2>3. ~Readable(link[c].id) /\ pc[c] \in WithLink
    BY <1>9 DEF RevisionsUnreadable, WithLink
  <2>4. ~Readable(link[c].id)'
    BY <1>2, <2>1, <2>3 DEF Readable
  <2> QED BY <1>1, <1>2, <1>3, <1>4, <2>1, <2>2, <2>3, <2>4 DEF ClientStep, ClientOK
<1>10. CASE RevisionsListed(c)
  <2> DEFINE draft == links[link[c].id].draft
  <2>1. /\ pc[c] = "revisions" /\ link[c] \in Found /\ link[c].id \in LinkIDs
        /\ links[link[c].id].state # "unused"
    BY <1>1, <1>10 DEF RevisionsListed, ClientOK, WithLink, Found
  <2>2. draft \in RevIDs \cup {None} /\ (draft # None => draft <= revs)
    BY <1>1, <2>1, LinkParts DEF DraftsOK
  <2>3. PICK where \in {"createRevision", "draftExists", "deleteLink", "deleteRevision"} :
           /\ pc' = [pc EXCEPT ![c] = where] /\ rev' = [rev EXCEPT ![c] = draft]
           /\ UNCHANGED <<retried, link, won>>
           /\ where \in {"deleteLink", "deleteRevision"} => c \in Replacers
    BY <1>10 DEF RevisionsListed, Goto
  <2> HIDE DEF draft
  <2>4. ClientTypeOK' /\ (\A d \in Clients \ {c} : SameClient(d))
    BY <1>1, <2>2, <2>3 DEF TypeOK, ClientTypeOK, SameClient, Requests
  <2>5. pc'[c] = where /\ rev'[c] = draft
    BY <1>1, <2>3 DEF TypeOK
  <2> QED BY <1>2, <1>3, <1>4, <2>1, <2>2, <2>3, <2>4, <2>5 DEF ClientStep, ClientOK
<1> QED BY <1>5, <1>6, <1>7, <1>8, <1>9, <1>10

\* The steps that change the server
LEMMA ClientRequests ==
    ASSUME IInv, NEW c \in Clients,
           \/ CreateFile(c) \/ DeleteLink(c) \/ DeleteRevision(c) \/ CreateRevision(c) \/ Commit(c)
    PROVE  ServerChange /\ ClientStep(c) /\ faults' \in 0..MaxFaults
<1>1. TypeOK /\ DraftsOK /\ ClientOK(c)
  BY DEF IInv
<1>2. CreateFile(c) \/ (link[c] \in Found /\ link[c].id \in LinkIDs
                          /\ links[link[c].id].state # "unused")
  BY <1>1 DEF DeleteLink, DeleteRevision, CreateRevision, Commit, ClientOK, WithLink, Found
<1>3. ServerChange
  BY <1>1, <1>2, CreateFileChanges, DeleteChanges, CreateRevisionChanges, CommitChanges
<1>4. faults' \in 0..MaxFaults
  <2>1. faults' = faults \/ (faults < MaxFaults /\ faults' = faults + 1)
    BY DEF CreateFile, DeleteLink, DeleteRevision, CreateRevision, Commit, Answer
  <2> QED BY <1>1, <2>1, ConstantsAssumption DEF TypeOK
<1>5. ASSUME UNCHANGED clientVars \/ End(c, "idle") PROVE ClientStep(c)
  BY <1>1, <1>3, <1>5, NoStep, EndStep DEF Outcomes
<1>6. \A l \in LinkIDs : links[l].state # "unused" => links'[l].state # "unused"
  BY <1>1, <1>3, ServerKeeps
<1>7. ASSUME CreateFile(c) PROVE ClientStep(c)
  <2>1. PICK l \in LinkIDs :
          /\ links' = [links EXCEPT ![l].state = "draft", ![l].draft = NextRev]
          /\ revs' = NextRev
          /\ \/ /\ Goto(c, "commit")
                /\ link' = [link EXCEPT ![c] = [id |-> l, state |-> "draft"]]
                /\ rev' = [rev EXCEPT ![c] = NextRev]
                /\ UNCHANGED <<retried, won>>
             \/ UNCHANGED clientVars \/ End(c, "idle")
    BY <1>7 DEF CreateFile, Answer
  <2>2. CASE /\ Goto(c, "commit")
             /\ link' = [link EXCEPT ![c] = [id |-> l, state |-> "draft"]]
             /\ rev' = [rev EXCEPT ![c] = NextRev]
             /\ UNCHANGED <<retried, won>>
    <3>1. NextRev \in RevIDs /\ ~(NextRev <= revs) /\ [id |-> l, state |-> "draft"] \in Found
      BY <1>1, <1>7, NextRevision DEF CreateFile, Found
    <3>2. NextRev <= NextRev
      BY <1>1, ConstantsAssumption DEF TypeOK, NextRev
    <3> HIDE DEF NextRev
    <3>3. ClientTypeOK' /\ \A d \in Clients \ {c} : SameClient(d)
      BY <1>1, <2>2, <3>1 DEF Goto, TypeOK, ClientTypeOK, SameClient, Requests
    <3>4. /\ pc'[c] = "commit" /\ rev'[c] = NextRev
          /\ link'[c] = [id |-> l, state |-> "draft"]
      BY <1>1, <2>2 DEF Goto, TypeOK
    <3>5. links'[l].state = "draft"
      BY <1>1, <2>1 DEF TypeOK, ServerLink
    <3> QED BY <2>1, <3>1, <3>2, <3>3, <3>4, <3>5 DEF ClientStep, ClientOK, WithLink
  <2> QED BY <1>5, <2>1, <2>2
<1>8. ASSUME CreateRevision(c) PROVE ClientStep(c)
  <2>1. /\ revs' = NextRev
        /\ \/ /\ Goto(c, "commit") /\ rev' = [rev EXCEPT ![c] = NextRev]
              /\ UNCHANGED <<retried, link, won>>
           \/ UNCHANGED clientVars \/ End(c, "idle")
    BY <1>8 DEF CreateRevision, Answer
  <2>2. CASE /\ Goto(c, "commit") /\ rev' = [rev EXCEPT ![c] = NextRev]
             /\ UNCHANGED <<retried, link, won>>
    <3>1. NextRev \in RevIDs /\ ~(NextRev <= revs)
      BY <1>1, <1>8, NextRevision DEF CreateRevision
    <3>2. NextRev <= NextRev
      BY <1>1, ConstantsAssumption DEF TypeOK, NextRev
    <3> HIDE DEF NextRev
    <3>3. ClientTypeOK' /\ \A d \in Clients \ {c} : SameClient(d)
      BY <1>1, <2>2, <3>1 DEF Goto, TypeOK, ClientTypeOK, SameClient, Requests
    <3>4. pc'[c] = "commit" /\ rev'[c] = NextRev /\ link'[c] = link[c]
      BY <1>1, <2>2 DEF Goto, TypeOK
    <3>5. link[c] \in Found /\ link[c].id \in LinkIDs /\ links[link[c].id].state # "unused"
      BY <1>1, <1>8 DEF CreateRevision, ClientOK, WithLink, Found
    <3> QED BY <1>6, <2>1, <3>1, <3>2, <3>3, <3>4, <3>5 DEF ClientStep, ClientOK, WithLink
  <2> QED BY <1>5, <2>1, <2>2
<1>9. ASSUME DeleteLink(c) PROVE ClientStep(c)
  <2>1. SubmitAgain(c) \/ UNCHANGED clientVars \/ End(c, "idle")
    BY <1>9 DEF DeleteLink, Answer
  <2>2. CASE SubmitAgain(c)
    <3>1. PICK where \in {"commit", "create"} :
             /\ pc' = [pc EXCEPT ![c] = where] /\ retried' = [retried EXCEPT ![c] = TRUE]
             /\ rev' = [rev EXCEPT ![c] = None] /\ won' = won
             /\ where = "commit" => link' = link
             /\ link' = link \/ link' = [link EXCEPT ![c] = None]
      BY <2>2 DEF SubmitAgain, Goto
    <3>2. ClientTypeOK' /\ \A d \in Clients \ {c} : SameClient(d)
      BY <1>1, <3>1 DEF TypeOK, ClientTypeOK, SameClient, Requests
    <3>3. pc'[c] = where /\ rev'[c] = None
      BY <1>1, <3>1 DEF TypeOK
    <3>4. link[c] \in Found /\ link[c].id \in LinkIDs /\ links[link[c].id].state # "unused"
      BY <1>1, <1>9 DEF DeleteLink, ClientOK, WithLink, Found
    <3> QED BY <1>6, <3>1, <3>2, <3>3, <3>4 DEF ClientStep, ClientOK, WithLink
  <2> QED BY <1>5, <2>1, <2>2
<1>10. ASSUME DeleteRevision(c) PROVE ClientStep(c)
  <2>1. \/ /\ Goto(c, "createRevision") /\ rev' = [rev EXCEPT ![c] = None]
           /\ UNCHANGED <<retried, link, won>>
        \/ UNCHANGED clientVars \/ End(c, "idle")
    BY <1>10 DEF DeleteRevision, Answer
  <2>2. CASE /\ Goto(c, "createRevision") /\ rev' = [rev EXCEPT ![c] = None]
             /\ UNCHANGED <<retried, link, won>>
    <3>1. ClientTypeOK' /\ \A d \in Clients \ {c} : SameClient(d)
      BY <1>1, <2>2 DEF Goto, TypeOK, ClientTypeOK, SameClient, Requests
    <3>2. pc'[c] = "createRevision" /\ rev'[c] = None /\ link'[c] = link[c]
      BY <1>1, <2>2 DEF Goto, TypeOK
    <3>3. link[c] \in Found /\ link[c].id \in LinkIDs /\ links[link[c].id].state # "unused"
      BY <1>1, <1>10 DEF DeleteRevision, ClientOK, WithLink, Found
    <3> QED BY <1>6, <3>1, <3>2, <3>3 DEF ClientStep, ClientOK, WithLink
  <2> QED BY <1>5, <2>1, <2>2
<1>11. ASSUME Commit(c) PROVE ClientStep(c)
  <2>1. \/ /\ Goto(c, "idle") /\ won' = [won EXCEPT ![c] = TRUE]
           /\ UNCHANGED <<retried, link, rev>>
        \/ UNCHANGED clientVars \/ End(c, "idle")
    BY <1>11 DEF Commit, Answer
  <2>2. CASE /\ Goto(c, "idle") /\ won' = [won EXCEPT ![c] = TRUE]
             /\ UNCHANGED <<retried, link, rev>>
    <3>1. ClientTypeOK' /\ \A d \in Clients \ {c} : SameClient(d)
      BY <1>1, <2>2 DEF Goto, TypeOK, ClientTypeOK, SameClient, Requests
    <3>2. pc'[c] = "idle" /\ rev'[c] = rev[c] /\ revs' = revs
      BY <1>1, <1>11, <2>2 DEF Goto, TypeOK, Commit
    <3> QED BY <1>1, <3>1, <3>2 DEF ClientStep, ClientOK, WithLink
  <2> QED BY <1>5, <2>1, <2>2
<1> QED BY <1>3, <1>4, <1>7, <1>8, <1>9, <1>10, <1>11

-----------------------------------------------------------------------------
(* The theorems *)

LEMMA InitOK == Init => IInv
<1> SUFFICES ASSUME Init PROVE IInv
  OBVIOUS
<1>1. links \in [LinkIDs -> ServerLink]
  BY DEF Init, ServerLink
<1>2. revs \in 0..MaxRevs /\ faults \in 0..MaxFaults
  BY ConstantsAssumption DEF Init
<1>3. TypeOK
  BY <1>1, <1>2 DEF Init, TypeOK
<1> QED BY <1>3 DEF Init, IInv, DraftsOK, ClientOK, WithLink, NoSharedRevision

\* A client's step keeps the invariant: its new revision is nobody else's.
LEMMA ClientStepOK ==
    ASSUME IInv, NEW c \in Clients, ServerChange, ClientStep(c), faults' \in 0..MaxFaults
    PROVE  IInv'
<1>1. TypeOK /\ DraftsOK /\ (\A d \in Clients : ClientOK(d)) /\ NoSharedRevision
  BY DEF IInv
<1>2. TypeOK' /\ DraftsOK'
  BY <1>1, ServerKeeps DEF TypeOK, ClientStep, ClientTypeOK
<1>3. ASSUME NEW d \in Clients PROVE ClientOK(d)'
  BY <1>1, OtherClient DEF ClientStep
<1>4. \A d \in Clients \ {c} : pc'[d] = pc[d] /\ rev'[d] = rev[d]
  BY DEF ClientStep, SameClient
<1>5. ASSUME NEW d \in Clients \ {c}, pc'[c] = "commit", pc'[d] = "commit", rev'[c] # None
      PROVE  rev'[c] # rev'[d]
  <2>1. CASE pc[c] = "commit" /\ rev'[c] = rev[c]
    BY <1>1, <1>4, <1>5, <2>1 DEF NoSharedRevision
  <2>2. CASE rev'[c] = revs' /\ ~(revs' <= revs)
    BY <1>1, <1>4, <1>5, <2>2 DEF ClientOK
  <2> QED BY <1>5, <2>1, <2>2 DEF ClientStep
<1>6. NoSharedRevision'
  <2> SUFFICES ASSUME NEW d \in Clients, NEW e \in Clients, d # e,
                      pc'[d] = "commit", pc'[e] = "commit", rev'[d] # None
               PROVE  rev'[d] # rev'[e]
    BY DEF NoSharedRevision
  <2>1. CASE d = c
    BY <1>5, <2>1
  <2>2. CASE e = c
    BY <1>5, <2>2
  <2>3. CASE d # c /\ e # c
    BY <1>1, <1>4, <2>3 DEF NoSharedRevision
  <2> QED BY <2>1, <2>2, <2>3
<1> QED BY <1>2, <1>3, <1>6 DEF IInv

LEMMA NextOK == IInv /\ [Next]_vars => IInv'
<1> SUFFICES ASSUME IInv, [Next]_vars PROVE IInv'
  OBVIOUS
<1>1. TypeOK /\ DraftsOK /\ (\A d \in Clients : ClientOK(d)) /\ NoSharedRevision
  BY DEF IInv
<1>2. ASSUME NEW c \in Clients, Begin(c) \/ Upload(c) \/ Fault(c) PROVE IInv'
  BY <1>2, ClientMoves, ClientRequests, ClientStepOK DEF Upload
<1>3. ASSUME UNCHANGED clientVars, ServerChange, faults' \in 0..MaxFaults PROVE IInv'
  <2>1. \A d \in Clients : SameClient(d)
    BY <1>3 DEF SameClient, clientVars
  <2>2. TypeOK' /\ DraftsOK'
    BY <1>1, <1>3, ServerKeeps DEF TypeOK, clientVars
  <2>3. \A d \in Clients : ClientOK(d)'
    BY <1>1, <1>3, <2>1, OtherClient
  <2>4. NoSharedRevision'
    BY <1>1, <1>3 DEF NoSharedRevision, clientVars
  <2> QED BY <2>2, <2>3, <2>4 DEF IInv
<1>4. ASSUME Reap PROVE IInv'
  <2>1. faults' \in 0..MaxFaults
    BY <1>1, <1>4, ConstantsAssumption DEF Reap, TypeOK
  <2>2. UNCHANGED clientVars
    BY <1>4 DEF Reap
  <2> QED BY <1>1, <1>3, <1>4, <2>1, <2>2, ReapChanges
<1>5. ASSUME UNCHANGED vars PROVE IInv'
  <2>1. ServerChange /\ faults' \in 0..MaxFaults
    BY <1>1, <1>5, ConstantsAssumption DEF vars, ServerChange, TypeOK
  <2> QED BY <1>3, <1>5, <2>1 DEF vars
<1> QED BY <1>2, <1>4, <1>5 DEF Next

\* The invariant holds in every reachable state.
THEOREM Invariance == Spec => []IInv
BY InitOK, NextOK, PTL DEF Spec

\* The clients' and the server's variables keep their types.
THEOREM TypeCorrect == Spec => []TypeOK
<1>1. IInv => TypeOK
  BY DEF IInv
<1> QED BY <1>1, Invariance, PTL

\* However the requests of several clients interleave, fail, are repeated or are
\* lost, no two upload their blocks into one revision.
THEOREM Exclusive == Spec => []NoSharedRevision
<1>1. IInv => NoSharedRevision
  BY DEF IInv
<1> QED BY <1>1, Invariance, PTL

\* A client without ReplaceExistingDraft deletes a draft only when it cannot be
\* committed any more.
THEOREM Conservative == Spec => ConservativeKeepsDrafts
<1> DEFINE Keeps == \A c \in Clients \ Replacers, l \in LinkIDs :
               Live(l) /\ pc'[c] # pc[c] => Live(l)' \/ links'[l].active = links[l].draft
<1>1. IInv /\ [Next]_vars => [Keeps]_vars
  <2> SUFFICES ASSUME IInv, Next, NEW c \in Clients \ Replacers, NEW l \in LinkIDs,
                      Live(l), pc'[c] # pc[c]
               PROVE  Live(l)' \/ links'[l].active = links[l].draft
    OBVIOUS
  <2>1. TypeOK /\ ClientOK(c)
    BY DEF IInv
  <2>2. Begin(c) \/ Upload(c) \/ Fault(c)
    <3>1. ~Reap
      BY DEF Reap, clientVars
    <3>2. ASSUME NEW d \in Clients \ {c}, Begin(d) \/ Upload(d) \/ Fault(d) PROVE FALSE
      BY <3>2, ClientMoves, ClientRequests DEF Upload, ClientStep, SameClient
    <3> QED BY <3>1, <3>2 DEF Next
  <2>3. CASE links' = links
    BY <2>3 DEF Live
  <2>4. CASE DeleteLink(c)
    <3>1. pc[c] = "recover" /\ link[c].id \in LinkIDs
      BY <2>1, <2>4 DEF DeleteLink, ClientOK, WithLink, Found
    <3>2. links[link[c].id].broken
      BY <2>1, <2>4, <3>1 DEF DeleteLink, ClientOK, Readable
    <3>3. l # link[c].id
      BY <3>2 DEF Live
    <3>4. links'[l] = links[l]
      BY <2>1, <2>4, <3>1, <3>3 DEF DeleteLink, TypeOK
    <3> QED BY <3>4 DEF Live
  <2>5. CASE DeleteRevision(c)
    BY <2>1, <2>5 DEF DeleteRevision, ClientOK
  <2>6. CASE CreateFile(c) \/ CreateRevision(c)
    <3>1. PICK k \in LinkIDs :
             \/ links' = [links EXCEPT ![k].state = "draft", ![k].draft = NextRev]
             \/ links' = [links EXCEPT ![k].draft = NextRev]
      <4>1. CreateRevision(c) => link[c].id \in LinkIDs
        BY <2>1 DEF CreateRevision, ClientOK, WithLink, Found
      <4> QED BY <2>6, <4>1 DEF CreateFile, CreateRevision
    <3>2. NextRev \in RevIDs /\ NextRev # None
      <4>1. NextRev \in RevIDs
        BY <2>1, <2>6, NextRevision DEF CreateFile, CreateRevision
      <4>2. None \notin RevIDs
        BY ConstantsAssumption DEF RevIDs
      <4> HIDE DEF NextRev
      <4> QED BY <4>1, <4>2
    <3> HIDE DEF NextRev
    <3>3. /\ links'[l].broken = links[l].broken
          /\ links'[l].draft = links[l].draft \/ links'[l].draft = NextRev
      <4>1. CASE links' = [links EXCEPT ![k].state = "draft", ![k].draft = NextRev]
        BY <2>1, <4>1 DEF TypeOK, ServerLink
      <4>2. CASE links' = [links EXCEPT ![k].draft = NextRev]
        BY <2>1, <4>2 DEF TypeOK, ServerLink
      <4> QED BY <3>1, <4>1, <4>2
    <3> QED BY <3>2, <3>3 DEF Live
  <2>7. CASE Commit(c)
    <3> DEFINE k == link[c].id
    <3>1. /\ k \in LinkIDs /\ links[k].draft = rev[c]
          /\ links' = [links EXCEPT ![k] = [@ EXCEPT !.state = "active", !.draft = None,
                                                     !.active = rev[c]]]
      BY <2>1, <2>7 DEF Commit, ClientOK, WithLink, Found
    <3> HIDE DEF k
    <3>2. CASE l = k
      BY <2>1, <3>1, <3>2 DEF TypeOK, ServerLink
    <3>3. CASE l # k
      BY <2>1, <3>1, <3>3 DEF TypeOK, Live
    <3> QED BY <3>2, <3>3
  <2> QED BY <2>2, <2>3, <2>4, <2>5, <2>6, <2>7 DEF Upload, Begin, Fault, ServerFull, NameExists,
             CheckHash, Search, ListFolder, RevisionsUnreadable, RevisionsListed,
             DeleteLinkRefused, DeleteRevisionRefused, CreateRevisionRefused, CommitRefused
<1>2. Spec => [][Keeps]_vars
  BY <1>1, Invariance, PTL DEF Spec
<1> QED BY <1>2 DEF ConservativeKeepsDrafts
=============================================================================
