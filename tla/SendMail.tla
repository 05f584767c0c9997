------------------------------ MODULE SendMail ------------------------------
(***************************************************************************)
(* SendEmail: one goroutine per mail creates a draft, uploads the          *)
(* attachments and sends the draft, and reports on a channel the caller    *)
(* has made for all its mails.  After an error it reports it and goes on.  *)
(*                                                                         *)
(* Nothing in the repository calls SendEmail; the caller modelled starts   *)
(* the goroutines and receives until it has had one nil for each mail.     *)
(***************************************************************************)
EXTENDS Session, Sequences, Functions

CONSTANTS
    Mails,
    Attachments, \* [Mails -> Nat]: len(EmailAttachments)
    External,    \* the mails whose recipient is not an internal one
    ChanSize     \* the capacity of errChan

ASSUME MailAssumption ==
    /\ Attachments \in [Mails -> Nat] /\ External \subseteq Mails
    /\ ChanSize \in Nat \ {0}

VARIABLES
    mail,      \* per mail: where its goroutine is
    draft,     \* per mail: createDraftResp # nil
    uploaded,  \* per mail: len(attachments)
    sent,      \* per mail: attachments of the mail that was sent, or Nothing
    errChan,   \* the results on the channel, as <<mail, result>>
    results    \* history, per mail: the results its goroutine has put on errChan

mailVars == <<mail, draft, uploaded, sent, errChan, results>>

Reporting == {"draftFailed", "attachFailed", "sendFailed"}

MailTypeOK ==
    /\ mail \in [Mails -> {"idle", "draft", "attach", "send", "end", "done"} \cup Reporting]
    /\ draft \in [Mails -> BOOLEAN]
    /\ \A m \in Mails : /\ uploaded[m] \in 0..Attachments[m]
                        /\ sent[m] \in (0..Attachments[m]) \cup {Nothing}
    /\ errChan \in Seq(Mails \X {"err", "nil"}) /\ Len(errChan) <= ChanSize
    /\ results \in [Mails -> Seq({"err", "nil"})]

MailInit ==
    /\ mail = [m \in Mails |-> "idle"] /\ draft = [m \in Mails |-> FALSE]
    /\ uploaded = [m \in Mails |-> 0] /\ sent = [m \in Mails |-> Nothing]
    /\ errChan = <<>> /\ results = [m \in Mails |-> <<>>]

\* The process has ended, or the caller has dealt with all results.
Vanish ==
    /\ mail' = [m \in Mails |-> "idle"] /\ draft' = [m \in Mails |-> FALSE]
    /\ uploaded' = [m \in Mails |-> 0] /\ sent' = [m \in Mails |-> Nothing]
    /\ errChan' = <<>> /\ results' = [m \in Mails |-> <<>>]

Goto(m, where) == mail' = [mail EXCEPT ![m] = where]

\* go protonDrive.SendEmail(ctx, i, errChan, config)
Start(m) ==
    /\ mail[m] = "idle" /\ Online
    /\ Goto(m, "draft")
    /\ UNCHANGED <<draft, uploaded, sent, errChan, results>>

CreateDraft(m) ==
    /\ mail[m] = "draft" /\ Online
    /\ draft' = [draft EXCEPT ![m] = TRUE] /\ Goto(m, "attach")
    /\ UNCHANGED <<uploaded, sent, errChan, results>>

\* The template cannot be read, or the request fails: nil, err.
CreateDraftFails(m) ==
    /\ mail[m] = "draft"
    /\ Goto(m, "draftFailed")
    /\ UNCHANGED <<draft, uploaded, sent, errChan, results>>

\* (Variants named *_Mutant are the definition below them with a defect; the
\* specification does not use them.)
\* One more than there are.
MoreToAttach_Mutant(m) == mail[m] = "attach" /\ uploaded[m] <= Attachments[m]

\* for i := range config.EmailAttachments
MoreToAttach(m) == mail[m] = "attach" /\ uploaded[m] < Attachments[m]

UploadAttachment(m) ==
    /\ MoreToAttach(m) /\ draft[m] /\ Online
    /\ uploaded' = [uploaded EXCEPT ![m] = @ + 1]
    /\ UNCHANGED <<mail, draft, sent, errChan, results>>

\* The attachments so far are returned, and no error.
UploadAttachmentFails_Mutant(m) ==
    /\ MoreToAttach(m)
    /\ Goto(m, "send")
    /\ UNCHANGED <<draft, uploaded, sent, errChan, results>>

\* A file cannot be read, or its upload fails: nil, err.
UploadAttachmentFails(m) ==
    /\ MoreToAttach(m)
    /\ uploaded' = [uploaded EXCEPT ![m] = 0] /\ Goto(m, "attachFailed")
    /\ UNCHANGED <<draft, sent, errChan, results>>

AllAttached(m) ==
    /\ mail[m] = "attach" /\ uploaded[m] = Attachments[m]
    /\ Goto(m, "send")
    /\ UNCHANGED <<draft, uploaded, sent, errChan, results>>

\* The mail goes out with the session keys of the attachments uploaded.
SendDraft(m) ==
    /\ mail[m] = "send" /\ draft[m] /\ Online /\ m \notin External
    /\ sent' = [sent EXCEPT ![m] = uploaded[m]] /\ Goto(m, "end")
    /\ UNCHANGED <<draft, uploaded, errChan, results>>

\* The keys of the recipient, the template or a session key cannot be had, or the
\* request fails, whether or not the server has sent the mail.
SendDraftFails(m) ==
    /\ mail[m] = "send" /\ draft[m]
    /\ \/ UNCHANGED sent
       \/ Online /\ m \notin External /\ sent' = [sent EXCEPT ![m] = uploaded[m]]
    /\ Goto(m, "sendFailed")
    /\ UNCHANGED <<draft, uploaded, errChan, results>>

\* createDraftResp.ID of a draft that is nil, or log.Fatalln: an external recipient.
Dies(m) ==
    \/ (MoreToAttach(m) \/ mail[m] = "send") /\ ~draft[m]
    \/ mail[m] = "send" /\ draft[m] /\ Online /\ m \in External

\* A sender waits for room.
Put(m, result) ==
    /\ Len(errChan) < ChanSize
    /\ errChan' = Append(errChan, <<m, result>>)
    /\ results' = [results EXCEPT ![m] = Append(@, result)]

\* Returns after the error.
Report_Mutant(m) ==
    /\ mail[m] \in Reporting
    /\ Put(m, "err")
    /\ Goto(m, "done")
    /\ UNCHANGED <<draft, uploaded, sent>>

\* errChan <- err, and SendEmail goes on.
Report(m) ==
    /\ mail[m] \in Reporting
    /\ Put(m, "err")
    /\ Goto(m, CASE mail[m] = "draftFailed" -> "attach"
                 [] mail[m] = "attachFailed" -> "send"
                 [] mail[m] = "sendFailed" -> "end")
    /\ UNCHANGED <<draft, uploaded, sent>>

\* errChan <- nil
ReportEnd(m) ==
    /\ mail[m] = "end"
    /\ Put(m, "nil") /\ Goto(m, "done")
    /\ UNCHANGED <<draft, uploaded, sent>>

Receive == errChan # <<>> /\ errChan' = Tail(errChan)
                /\ UNCHANGED <<mail, draft, uploaded, sent, results>>

SendEmail(m) ==
    \/ CreateDraft(m) \/ CreateDraftFails(m) \/ UploadAttachment(m) \/ UploadAttachmentFails(m)
    \/ AllAttached(m) \/ SendDraft(m) \/ SendDraftFails(m) \/ Report(m) \/ ReportEnd(m)

\* The caller has received the nil of the mail.
Collected(m) ==
    /\ mail[m] = "done" /\ "nil" \in Range(results[m])
    /\ <<m, "nil">> \notin Range(errChan)

AllCollected == errChan = <<>> /\ \A m \in Mails : mail[m] = "idle" \/ Collected(m)

-----------------------------------------------------------------------------
(* Properties *)

\* A caller that looks at the first result for a mail knows: if it is nil the mail
\* has been sent with all its attachments, whatever failed on the way.
FirstNilMeansSent ==
    \A m \in Mails : results[m] # <<>> /\ Head(results[m]) = "nil" => sent[m] = Attachments[m]

\* Waiting for one nil per mail ends, however many errors come before it, unless
\* the process does.
MailsEnd == \A m \in Mails : mail[m] = "draft" ~> Collected(m) \/ mail[m] = "idle"
=============================================================================
