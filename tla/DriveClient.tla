---------------------------- MODULE DriveClient ----------------------------
(***************************************************************************)
(* A program that embeds the library: it logs in, opens the drive, sends   *)
(* mails on goroutines of their own, makes calls that choose their API     *)
(* method by reflection, and logs out when its calls have returned.        *)
(* Requests are accepted as long as the session lasts; the end of the      *)
(* process ends everything but what is on the server and in the file.      *)
(***************************************************************************)
EXTENDS SendMail, CompatRoute

vars == <<sessionVars, mailVars, compatVars>>

TypeOK == SessionTypeOK /\ MailTypeOK /\ CompatTypeOK

Init == SessionInit /\ MailInit /\ CompatInit

MailsIdle == \A m \in Mails : mail[m] = "idle"

\* Login and NewProtonDrive; while the drive is open, a refresh of the tokens
SessionStep == SessionNext /\ UNCHANGED <<mailVars, compatVars>>

LogoutStep ==
    /\ MailsIdle /\ route = "idle"
    /\ Logout /\ UNCHANGED <<mailVars, compatVars>>

ProcessEnds == Crash /\ Vanish /\ Forget

StartMail(m) == route = "idle" /\ Start(m) /\ UNCHANGED <<sessionVars, compatVars>>

Mailer(m) ==
    \/ SendEmail(m) /\ UNCHANGED <<sessionVars, compatVars>>
    \/ Dies(m) /\ ProcessEnds

CallerReceives == Receive /\ UNCHANGED <<sessionVars, compatVars>>

\* The caller has received a nil from each mail it started.
MailsDone ==
    /\ AllCollected /\ ~MailsIdle
    /\ Vanish /\ UNCHANGED <<sessionVars, compatVars>>

\* moveLinkCompat or getRevisionVerificationCompat
CompatStep == MailsIdle /\ Compat /\ UNCHANGED <<sessionVars, mailVars>>

CompatDone == route = "done" /\ Forget /\ UNCHANGED <<sessionVars, mailVars>>

\* No credential is left, and the bound on logins is met.
NoMoreLogins == pc = "idle" /\ logins = MaxLogins /\ Available = {} /\ UNCHANGED vars

Next ==
    \/ SessionStep \/ LogoutStep \/ ProcessEnds \/ CallerReceives \/ MailsDone
    \/ CompatStep \/ CompatDone \/ NoMoreLogins
    \/ \E m \in Mails : StartMail(m) \/ Mailer(m)

Spec == Init /\ [][Next]_vars

\* Goroutines run and their requests are answered or fail; the caller receives.
FairSpec ==
    Spec /\ WF_vars(CallerReceives) /\ \A m \in Mails : WF_vars(Mailer(m))
=============================================================================
