------------------------- MODULE DriveClientProofs -------------------------
(***************************************************************************)
(* Proofs about DriveClient: any bound on logins and refreshes, any number *)
(* of mails with any number of attachments on a channel of any capacity.   *)
(***************************************************************************)
EXTENDS DriveClient, FiniteSetTheorems, SequenceTheorems, TLAPS

\* Everything of a credential that is kept anywhere
Kept == told \cup ({config, file} \cap Credential)

\* Nobody knows a session that does not exist yet, and no credential is ahead of
\* its session.
KeptOK ==
    /\ client \in Tokens => client.uid <= logins
    /\ \A c \in Kept : /\ c.uid <= logins
                       /\ session[c.uid] # Nothing => c.refresh <= session[c.uid]

\* What came out of a refresh whose answer arrived has been told.
RefreshesTold ==
    \A u \in UIDs : session[u] # Nothing /\ session[u] # 0 /\ u \notin lost =>
        Heard([uid |-> u, refresh |-> session[u]]) \in told

\* The login has made up, or was given, the credential of its session.
HasCredential == reuse \/ pc \in {"truncate", "write", "setup", "open"}

\* With whatever it was given, a login whose keys are unlocked has the key pass.
ConfigOK ==
    /\ HasCredential => client \in Tokens /\ config \in Credential /\ config.uid = client.uid
    /\ pc \in {"setup", "open"} \/ (HasCredential /\ ~reuse) => config.salted
    /\ pc \in {"idle", "second"} => ~reuse

\* Beyond its keys a login has the credential in the file, if there is one.
FileOK ==
    IF withFile
    THEN pc \in {"setup", "open"} \/ (reuse /\ pc = "keys") => file = config
    ELSE file = Nothing /\ pc \notin {"truncate", "write"}

\* Without a file, the credential of a session that is reused came from what the
\* caller had been told, and that of an open first login has been.
SourceOK ==
    /\ reuse /\ ~withFile =>
         /\ \E t \in told : t.uid = config.uid /\ t.refresh = config.refresh
         /\ config.salted => \E k \in told : k.salted
    /\ pc = "open" /\ ~reuse => config \in told

SessionOK == KeptOK /\ RefreshesTold /\ ConfigOK /\ FileOK /\ SourceOK

\* As long as a mail has reported nothing, nothing has failed; the nil that was
\* its first result was its last.
MailOK(m) ==
    /\ results[m] = <<>> =>
         /\ mail[m] = "send" => uploaded[m] = Attachments[m]
         /\ mail[m] = "end"  => sent[m] = Attachments[m]
    /\ results[m] # <<>> /\ Head(results[m]) = "nil" =>
         mail[m] = "done" /\ sent[m] = Attachments[m]

MailsOK ==
    /\ uploaded \in [Mails -> Nat] /\ sent \in [Mails -> Nat \cup {Nothing}]
    /\ \A m \in Mails : MailOK(m)

\* Before a route is done nothing has been called.
RouteOK ==
    \/ invoked = {} /\ effects = 0 /\ outcome # "ok" /\ (route # "done" => outcome = "none")
    \/ /\ route = "done" /\ \E r \in Routes : invoked = {r}
       /\ effects <= 1 /\ (outcome = "ok" => effects = 1)

IInv == TypeOK /\ SessionOK /\ MailsOK /\ RouteOK

-----------------------------------------------------------------------------
(* The session *)

\* Tokens with or without a key pass are a credential.
LEMMA CredentialIs ==
    ASSUME NEW u \in UIDs, NEW r \in 0..MaxRefreshes, NEW b \in BOOLEAN
    PROVE  /\ [uid |-> u, refresh |-> r] \in Tokens
           /\ [uid |-> u, refresh |-> r, salted |-> b] \in Credential
           /\ Heard([uid |-> u, refresh |-> r]) = [uid |-> u, refresh |-> r, salted |-> FALSE]
BY DEF Tokens, Credential, Heard

\* What a credential is made of
LEMMA CredentialHas ==
    ASSUME NEW c \in Credential
    PROVE  /\ c.uid \in UIDs /\ c.uid \in Nat
           /\ c.refresh \in 0..MaxRefreshes /\ c.refresh \in Nat /\ c.salted \in BOOLEAN
           /\ c = [uid |-> c.uid, refresh |-> c.refresh, salted |-> c.salted]
BY SessionAssumption DEF Credential, UIDs

LEMMA TokensHave ==
    ASSUME NEW t \in Tokens
    PROVE  /\ t.uid \in UIDs /\ t.uid \in Nat
           /\ t.refresh \in 0..MaxRefreshes /\ t.refresh \in Nat
           /\ \A r \in 0..MaxRefreshes :
                [t EXCEPT !.refresh = r] = [uid |-> t.uid, refresh |-> r]
BY SessionAssumption DEF Tokens, UIDs

\* Nothing is no credential, nor is the content of an empty file.
LEMMA NoCredential == Nothing \notin Credential /\ Empty \notin Credential /\ Nothing \notin Tokens
<1>1. /\ Credential \subseteq [uid : Nat, refresh : Nat, salted : BOOLEAN]
      /\ Tokens \subseteq [uid : Nat, refresh : Nat]
  BY SessionAssumption DEF Credential, Tokens, UIDs
<1> QED BY <1>1, SessionAssumption

\* The refresh a session accepts is a number.
LEMMA SessionHas ==
    ASSUME SessionTypeOK, NEW u \in UIDs, session[u] # Nothing
    PROVE  session[u] \in 0..MaxRefreshes /\ session[u] \in Nat
BY SessionAssumption DEF SessionTypeOK

\* A client whose tokens are accepted has those of a session.
LEMMA AcceptedClient ==
    ASSUME SessionTypeOK, Accepted
    PROVE  /\ client \in Tokens /\ client # Nothing
           /\ client.uid \in UIDs /\ session[client.uid] = client.refresh
           /\ client.refresh \in Nat /\ session[client.uid] # Nothing
<1>1. client \in Tokens /\ client # Nothing /\ session[client.uid] = client.refresh
  BY DEF SessionTypeOK, Accepted
<1> QED BY <1>1, TokensHave, SessionAssumption

LEMMA SessionStart == SessionInit => SessionTypeOK /\ SessionOK
<1> SUFFICES ASSUME SessionInit PROVE SessionTypeOK /\ SessionOK
  OBVIOUS
<1>1. SessionTypeOK
  <2>1. 0 \in 0..MaxLogins
    BY SessionAssumption
  <2> QED BY <2>1 DEF SessionInit, SessionTypeOK
<1>2. Kept = {}
  BY NoCredential DEF SessionInit, Kept
<1> QED BY <1>1, <1>2, NoCredential DEF SessionInit, SessionOK, KeptOK, RefreshesTold,
                                  ConfigOK, HasCredential, FileOK, SourceOK

\* A new session is at refresh 0 and nobody knows it yet.
LEMMA LoginStep ==
    ASSUME SessionTypeOK, SessionOK, NewClientWithLogin PROVE SessionTypeOK' /\ SessionOK'
<1> DEFINE n == logins + 1
<1>1. /\ n \in UIDs /\ logins \in Nat /\ n \in 0..MaxLogins /\ 0 \in 0..MaxRefreshes
      /\ [uid |-> n, refresh |-> 0] \in Tokens
  BY SessionAssumption DEF NewClientWithLogin, SessionTypeOK, UIDs, Tokens
<1>2. /\ logins' = n /\ session' = [session EXCEPT ![n] = 0]
      /\ client' = [uid |-> n, refresh |-> 0] /\ pc = "idle" /\ pc' = "second"
      /\ UNCHANGED <<config, reuse, file, told, lost, withFile>>
  BY DEF NewClientWithLogin
<1>3. /\ session' \in [UIDs -> (0..MaxRefreshes) \cup {Nothing}]
      /\ session'[n] = 0 /\ \A u \in UIDs \ {n} : session'[u] = session[u]
  BY <1>1, <1>2 DEF SessionTypeOK
<1>4. SessionTypeOK'
  BY <1>1, <1>2, <1>3 DEF SessionTypeOK
<1>5. Kept' = Kept /\ Kept \subseteq Credential
  BY <1>2 DEF Kept, SessionTypeOK
<1>6. KeptOK'
  <2>1. client'.uid <= n
    BY <1>1, <1>2
  <2>2. ASSUME NEW c \in Kept
        PROVE  c.uid <= n /\ (session'[c.uid] # Nothing => c.refresh <= session'[c.uid])
    <3>1. c.uid \in UIDs /\ c.uid \in Nat /\ c.uid <= logins
      BY <1>5, CredentialHas DEF SessionOK, KeptOK
    <3>2. c.uid # n /\ c.uid <= n
      BY <1>1, <3>1
    <3>3. session'[c.uid] = session[c.uid]
      BY <1>3, <3>1, <3>2
    <3> QED BY <3>2, <3>3 DEF SessionOK, KeptOK
  <2> QED BY <1>2, <1>5, <2>1, <2>2 DEF KeptOK
<1>7. RefreshesTold'
  BY <1>2, <1>3 DEF SessionOK, RefreshesTold
<1>8. ConfigOK' /\ FileOK' /\ SourceOK'
  BY <1>2 DEF SessionOK, ConfigOK, HasCredential, FileOK, SourceOK
<1> QED BY <1>4, <1>6, <1>7, <1>8 DEF SessionOK

\* A step that leaves the server and what the caller was told alone, and keeps no
\* credential that was not kept before, keeps what is said of credentials.
LEMMA KeptSame ==
    ASSUME SessionOK, UNCHANGED <<logins, session, told, lost>>, Kept' \subseteq Kept,
           client' \in Tokens => client'.uid <= logins
    PROVE  KeptOK' /\ RefreshesTold'
BY DEF SessionOK, KeptOK, RefreshesTold

\* The caller starts again with a credential it can put together.
LEMMA ResumeStep ==
    ASSUME SessionTypeOK, SessionOK, NEW c \in Available, NewClient(c)
    PROVE  SessionTypeOK' /\ SessionOK'
<1>1. /\ client' = [uid |-> c.uid, refresh |-> c.refresh] /\ config' = c /\ reuse' = TRUE
      /\ pc = "idle" /\ pc' = IF withFile THEN "truncate" ELSE "keys"
      /\ UNCHANGED <<logins, session, file, told, lost, withFile>>
  BY DEF NewClient
<1>2. /\ c \in Credential
      /\ \E t \in Known : t.uid = c.uid /\ t.refresh = c.refresh
      /\ c.salted => \E k \in Known : k.salted
  BY DEF Available
<1>3. client' \in Tokens /\ client'.uid = c.uid
  BY <1>1, <1>2, CredentialHas, CredentialIs
<1>4. c.uid <= logins /\ (session[c.uid] # Nothing => c.refresh <= session[c.uid])
  BY <1>2 DEF Known, Kept, SessionOK, KeptOK
<1>5. SessionTypeOK'
  BY <1>1, <1>2, <1>3 DEF SessionTypeOK
<1>6. KeptOK' /\ RefreshesTold'
  <2>1. Kept' \subseteq Kept \cup {c}
    BY <1>1 DEF Kept
  <2> QED BY <1>1, <1>3, <1>4, <2>1 DEF SessionOK, KeptOK, RefreshesTold
<1>7. ConfigOK'
  BY <1>1, <1>2, <1>3 DEF ConfigOK, HasCredential
<1>8. FileOK' /\ SourceOK'
  <2>1. CASE withFile
    BY <1>1, <2>1 DEF FileOK, SourceOK
  <2>2. CASE ~withFile
    <3>1. file = Nothing
      BY <2>2 DEF SessionOK, FileOK
    <3>2. Known = told
      BY <3>1, NoCredential DEF Known
    <3> QED BY <1>1, <1>2, <2>2, <3>1, <3>2 DEF FileOK, SourceOK
  <2> QED BY <2>1, <2>2
<1> QED BY <1>5, <1>6, <1>7, <1>8 DEF SessionOK

\* Once the keys are unlocked, a first login makes up its credential.
LEMMA KeysStep ==
    ASSUME SessionTypeOK, SessionOK, GetAccountKRs PROVE SessionTypeOK' /\ SessionOK'
<1>1. /\ config' = ReusableCredential /\ pc = "keys" /\ (reuse => config.salted)
      /\ pc' = IF withFile /\ ~reuse THEN "truncate" ELSE "setup"
      /\ UNCHANGED <<logins, session, client, reuse, file, told, lost, withFile>>
  BY DEF GetAccountKRs
<1>2. /\ client \in Tokens /\ client.uid \in UIDs
  BY AcceptedClient DEF GetAccountKRs
<1>3. client.uid <= logins
  BY <1>2 DEF SessionOK, KeptOK
<1>4. CASE reuse
  <2>1. config' = config /\ pc' = "setup" /\ config.salted
    BY <1>1, <1>4 DEF ReusableCredential
  <2>2. SessionTypeOK' /\ Kept' = Kept
    BY <1>1, <2>1 DEF SessionTypeOK, Kept
  <2>3. KeptOK' /\ RefreshesTold'
    BY <1>1, <1>3, <2>2, KeptSame
  <2>4. ConfigOK' /\ FileOK' /\ SourceOK'
    BY <1>1, <1>4, <2>1 DEF SessionOK, ConfigOK, HasCredential, FileOK, SourceOK
  <2> QED BY <2>2, <2>3, <2>4 DEF SessionOK
<1>5. CASE ~reuse
  <2> DEFINE c == [uid |-> client.uid, refresh |-> 0, salted |-> TRUE]
  <2>1. 0 \in 0..MaxRefreshes
    BY SessionAssumption
  <2>2. c \in Credential /\ c.uid = client.uid /\ c.refresh = 0 /\ c.salted = TRUE
    BY <1>2, <2>1, CredentialIs
  <2>3. config' = c
    BY <1>1, <1>5 DEF ReusableCredential
  <2> HIDE DEF c
  <2>4. SessionTypeOK' /\ Kept' \subseteq Kept \cup {c}
    BY <1>1, <2>2, <2>3 DEF SessionTypeOK, Kept
  <2>5. KeptOK' /\ RefreshesTold'
    <3>1. session[client.uid] # Nothing => 0 <= session[client.uid]
      BY <1>2, SessionHas
    <3> QED BY <1>1, <1>2, <1>3, <2>2, <2>4, <3>1 DEF SessionOK, KeptOK, RefreshesTold
  <2>6. ConfigOK' /\ FileOK' /\ SourceOK'
    BY <1>1, <1>2, <1>5, <2>2, <2>3 DEF SessionOK, ConfigOK, HasCredential, FileOK, SourceOK
  <2> QED BY <2>4, <2>5, <2>6 DEF SessionOK
<1> QED BY <1>4, <1>5

\* The other steps of a login that leave the tokens alone
LEMMA LoginProceeds ==
    ASSUME SessionTypeOK, SessionOK, SecondFactor \/ CreateFile \/ WriteFile
    PROVE  SessionTypeOK' /\ SessionOK'
<1>1. client \in Tokens => client.uid <= logins
  BY DEF SessionOK, KeptOK
<1>2. UNCHANGED <<logins, session, client, config, reuse, told, lost, withFile>>
  BY DEF SecondFactor, CreateFile, WriteFile
<1>3. SessionTypeOK' /\ Kept' \subseteq Kept
  <2>1. pc = "write" => config \in Credential
    BY DEF SessionOK, ConfigOK, HasCredential
  <2> QED BY <2>1, NoCredential DEF SecondFactor, CreateFile, WriteFile, SessionTypeOK, Kept
<1>4. KeptOK' /\ RefreshesTold'
  BY <1>1, <1>2, <1>3, KeptSame
<1>5. ConfigOK' /\ FileOK' /\ SourceOK'
  BY DEF SecondFactor, CreateFile, WriteFile, SessionOK, ConfigOK, HasCredential, FileOK, SourceOK
<1> QED BY <1>3, <1>4, <1>5 DEF SessionOK

\* An end of the process, or of a login, leaves no more than the file.
LEMMA Ends ==
    ASSUME SessionTypeOK, SessionOK, LoginFails \/ Crash PROVE SessionTypeOK' /\ SessionOK'
<1>1. Abandon /\ UNCHANGED <<logins, session, file, told, lost, withFile>>
  BY DEF LoginFails, Crash
<1>2. SessionTypeOK' /\ Kept' \subseteq Kept /\ client' \notin Tokens
  BY <1>1, NoCredential DEF Abandon, SessionTypeOK, Kept
<1>3. KeptOK' /\ RefreshesTold'
  BY <1>1, <1>2, KeptSame
<1>4. ConfigOK' /\ FileOK' /\ SourceOK'
  BY <1>1 DEF Abandon, SessionOK, ConfigOK, HasCredential, FileOK, SourceOK
<1> QED BY <1>2, <1>3, <1>4 DEF SessionOK

\* A first login hands out the credential it began with, which is behind its
\* session if the tokens have been refreshed meanwhile.
LEMMA DriveOpens ==
    ASSUME SessionTypeOK, SessionOK, NewProtonDrive PROVE SessionTypeOK' /\ SessionOK'
<1>1. /\ pc' = "open" /\ pc = "setup" /\ told' = IF reuse THEN told ELSE told \cup {config}
      /\ UNCHANGED <<logins, session, client, config, reuse, file, lost, withFile>>
  BY DEF NewProtonDrive
<1>2. config \in Credential
  BY <1>1 DEF SessionOK, ConfigOK, HasCredential
<1>3. SessionTypeOK' /\ Kept' = Kept /\ told \subseteq told'
  BY <1>1, <1>2 DEF SessionTypeOK, Kept
<1>4. KeptOK' /\ RefreshesTold'
  BY <1>1, <1>3 DEF SessionOK, KeptOK, RefreshesTold
<1>5. ConfigOK' /\ FileOK' /\ SourceOK'
  BY <1>1 DEF SessionOK, ConfigOK, HasCredential, FileOK, SourceOK
<1> QED BY <1>3, <1>4, <1>5 DEF SessionOK

\* A refresh puts the session one ahead, and tells unless its answer is lost.
LEMMA RefreshStep ==
    ASSUME SessionTypeOK, SessionOK, Refresh \/ RefreshLost PROVE SessionTypeOK' /\ SessionOK'
<1> DEFINE v == client.uid
           r == client.refresh + 1
           h == [uid |-> v, refresh |-> r, salted |-> FALSE]
<1>1. /\ client \in Tokens /\ client # Nothing /\ v \in UIDs /\ client.refresh \in Nat
      /\ session[v] = client.refresh /\ session[v] # Nothing /\ client.refresh < MaxRefreshes
  BY AcceptedClient DEF Refresh, RefreshLost, CanRefresh
<1>2. r \in 0..MaxRefreshes /\ r \in Nat /\ r # 0 /\ r = session[v] + 1 /\ session[v] \in Nat
  BY <1>1, SessionAssumption
<1>3. [client EXCEPT !.refresh = r] = [uid |-> v, refresh |-> r]
  BY <1>1, <1>2, TokensHave
<1>4. /\ [uid |-> v, refresh |-> r] \in Tokens /\ h \in Credential
      /\ Heard([uid |-> v, refresh |-> r]) = h
  BY <1>1, <1>2, CredentialIs
<1>5. /\ session' = [session EXCEPT ![v] = r]
      /\ UNCHANGED <<logins, pc, config, reuse, file, withFile>>
      /\ \/ client' = [uid |-> v, refresh |-> r] /\ told' = told \cup {h} /\ lost' = lost
         \/ client' = client /\ told' = told /\ lost' = lost \cup {v}
  <2>1. CASE Refresh
    BY <1>3, <1>4, <2>1 DEF Refresh
  <2>2. CASE RefreshLost
    BY <1>1, <2>2 DEF RefreshLost, SessionTypeOK
  <2> QED BY <2>1, <2>2
<1>6. h.uid = v /\ h.refresh = r
  OBVIOUS
<1>7. /\ session \in [UIDs -> (0..MaxRefreshes) \cup {Nothing}]
      /\ session' \in [UIDs -> (0..MaxRefreshes) \cup {Nothing}]
      /\ session'[v] = r /\ \A u \in UIDs \ {v} : session'[u] = session[u]
  <2> HIDE DEF v, r
  <2> QED BY <1>1, <1>2, <1>5 DEF SessionTypeOK
<1>8. client'.uid = v /\ client' \in Tokens
  BY <1>1, <1>4, <1>5
<1>9. v <= logins
  BY <1>1 DEF SessionOK, KeptOK
<1> HIDE DEF r, h, v
<1>10. SessionTypeOK'
  BY <1>1, <1>4, <1>5, <1>7, <1>8 DEF SessionTypeOK
<1>11. /\ Kept' \subseteq Kept \cup {h} /\ told \subseteq told' /\ lost \subseteq lost'
       /\ Kept \subseteq Credential
  BY <1>5 DEF Kept, SessionTypeOK
<1>12. KeptOK'
  <2>1. ASSUME NEW c \in Kept
        PROVE  c.uid <= logins /\ (session'[c.uid] # Nothing => c.refresh <= session'[c.uid])
    <3>1. c.uid \in UIDs /\ c.refresh \in Nat
      BY <1>11, CredentialHas
    <3>2. c.uid <= logins /\ (session[c.uid] # Nothing => c.refresh <= session[c.uid])
      BY DEF SessionOK, KeptOK
    <3>3. CASE c.uid = v
      BY <1>1, <1>2, <1>7, <3>1, <3>2, <3>3
    <3>4. CASE c.uid # v
      BY <1>7, <3>1, <3>2, <3>4
    <3> QED BY <3>3, <3>4
  <2>2. h.refresh <= session'[h.uid]
    BY <1>2, <1>6, <1>7
  <2> QED BY <1>5, <1>6, <1>8, <1>9, <1>11, <2>1, <2>2 DEF KeptOK
<1>13. RefreshesTold'
  <2> SUFFICES ASSUME NEW u \in UIDs, session'[u] # Nothing, session'[u] # 0, u \notin lost'
               PROVE  Heard([uid |-> u, refresh |-> session'[u]]) \in told'
    BY DEF RefreshesTold
  <2>1. CASE u = v
    BY <1>4, <1>5, <1>7, <2>1
  <2>2. CASE u # v
    BY <1>7, <1>11, <2>2 DEF SessionOK, RefreshesTold
  <2> QED BY <2>1, <2>2
<1>14. ConfigOK' /\ FileOK' /\ SourceOK'
  <2>1. ConfigOK'
    BY <1>5, <1>8 DEF SessionOK, ConfigOK, HasCredential, v
  <2> QED BY <1>5, <1>11, <2>1 DEF SessionOK, FileOK, SourceOK
<1> QED BY <1>10, <1>12, <1>13, <1>14 DEF SessionOK

\* A session that is revoked takes no credential any more.
LEMMA LogoutOK ==
    ASSUME SessionTypeOK, SessionOK, Logout PROVE SessionTypeOK' /\ SessionOK'
<1>1. /\ Abandon /\ UNCHANGED <<logins, file, told, lost, withFile>>
      /\ session' = session \/ (Accepted /\ session' = [session EXCEPT ![client.uid] = Nothing])
  BY DEF Logout
<1>2. \A u \in UIDs : session'[u] = session[u] \/ session'[u] = Nothing
  BY <1>1, AcceptedClient DEF SessionTypeOK
<1>3. session' \in [UIDs -> (0..MaxRefreshes) \cup {Nothing}]
  BY <1>1, AcceptedClient DEF SessionTypeOK
<1>4. SessionTypeOK'
  BY <1>1, <1>3 DEF Abandon, SessionTypeOK
<1>5. Kept' \subseteq Kept /\ Kept \subseteq Credential /\ client' \notin Tokens
  BY <1>1, NoCredential DEF Abandon, SessionTypeOK, Kept
<1>6. KeptOK'
  <2>1. \A c \in Kept : c.uid \in UIDs
    BY <1>5, CredentialHas
  <2> QED BY <1>1, <1>2, <1>5, <2>1 DEF SessionOK, KeptOK
<1>7. RefreshesTold'
  BY <1>1, <1>2 DEF SessionOK, RefreshesTold
<1>8. ConfigOK' /\ FileOK' /\ SourceOK'
  BY <1>1 DEF Abandon, SessionOK, ConfigOK, HasCredential, FileOK, SourceOK
<1> QED BY <1>4, <1>6, <1>7, <1>8 DEF SessionOK

LEMMA SessionSteps ==
    ASSUME SessionTypeOK, SessionOK,
           SessionNext \/ Logout \/ Crash \/ UNCHANGED sessionVars
    PROVE  SessionTypeOK' /\ SessionOK'
<1>1. CASE SessionNext
  BY <1>1, LoginStep, ResumeStep, KeysStep, LoginProceeds, Ends, DriveOpens, RefreshStep
  DEF SessionNext
<1>2. CASE UNCHANGED sessionVars
  BY <1>2 DEF sessionVars, SessionTypeOK, SessionOK, Kept, KeptOK, RefreshesTold, ConfigOK,
              HasCredential, FileOK, SourceOK
<1> QED BY <1>1, <1>2, LogoutOK, Ends

-----------------------------------------------------------------------------
(* The mails *)

\* Before anything is sent, and after the process or the round of mails has ended
LEMMA NoMails ==
    /\ MailInit => MailTypeOK /\ MailsOK
    /\ Vanish => MailTypeOK' /\ MailsOK'
<1>1. /\ \A m \in Mails : Attachments[m] \in Nat /\ 0 \in 0..Attachments[m]
      /\ ChanSize \in Nat
  BY MailAssumption
<1>2. <<>> \in Seq({"err", "nil"}) /\ <<>> \in Seq(Mails \X {"err", "nil"}) /\ Len(<<>>) = 0
  BY EmptySeq
<1>3. ASSUME NEW e \in Seq({"err", "nil"})
      PROVE  [m \in Mails |-> e] \in [Mails -> Seq({"err", "nil"})]
  OBVIOUS
<1>4. [m \in Mails |-> <<>>] \in [Mails -> Seq({"err", "nil"})]
  BY <1>2, <1>3
<1>5. ASSUME MailInit PROVE MailTypeOK /\ MailsOK
  <2>1. MailTypeOK
    BY <1>1, <1>2, <1>4, <1>5 DEF MailInit, MailTypeOK
  <2>2. MailsOK
    BY <1>1, <1>5 DEF MailInit, MailsOK, MailOK
  <2> QED BY <2>1, <2>2
<1>6. ASSUME Vanish PROVE MailTypeOK' /\ MailsOK'
  <2>1. MailTypeOK'
    BY <1>1, <1>2, <1>4, <1>6 DEF Vanish, MailTypeOK
  <2>2. MailsOK'
    BY <1>1, <1>6 DEF Vanish, MailsOK, MailOK
  <2> QED BY <2>1, <2>2
<1> QED BY <1>5, <1>6

\* A mail whose goroutine makes no step
LEMMA MailSame ==
    ASSUME NEW m \in Mails, MailOK(m),
           mail'[m] = mail[m], uploaded'[m] = uploaded[m], sent'[m] = sent[m],
           results'[m] = results[m]
    PROVE  MailOK(m)'
BY DEF MailOK

\* A result is put on a channel with room for it; the first of a mail stays first.
LEMMA PutOK ==
    ASSUME MailTypeOK, NEW m \in Mails, NEW r \in {"err", "nil"}, Put(m, r)
    PROVE  /\ errChan' \in Seq(Mails \X {"err", "nil"}) /\ Len(errChan') <= ChanSize
           /\ results' \in [Mails -> Seq({"err", "nil"})]
           /\ \A n \in Mails \ {m} : results'[n] = results[n]
           /\ results'[m] # <<>>
           /\ Head(results'[m]) = IF results[m] = <<>> THEN r ELSE Head(results[m])
<1>1. /\ errChan \in Seq(Mails \X {"err", "nil"}) /\ results \in [Mails -> Seq({"err", "nil"})]
      /\ results[m] \in Seq({"err", "nil"})
  BY DEF MailTypeOK
<1>2. /\ Len(errChan) < ChanSize /\ errChan' = Append(errChan, <<m, r>>)
      /\ results' = [results EXCEPT ![m] = Append(@, r)]
  BY DEF Put
<1>3. <<m, r>> \in Mails \X {"err", "nil"}
  OBVIOUS
<1>4. errChan' \in Seq(Mails \X {"err", "nil"}) /\ Len(errChan') = Len(errChan) + 1
  BY <1>1, <1>2, <1>3, AppendProperties
<1>5. Len(errChan) \in Nat
  BY <1>1, LenProperties
<1>6. Len(errChan') <= ChanSize
  BY <1>2, <1>4, <1>5, MailAssumption
<1>7. Append(results[m], r) \in Seq({"err", "nil"}) /\ Append(results[m], r) # <<>>
  BY <1>1, AppendProperties
<1>8. results'[m] = Append(results[m], r) /\ \A n \in Mails \ {m} : results'[n] = results[n]
  BY <1>1, <1>2
<1>9. results' \in [Mails -> Seq({"err", "nil"})]
  BY <1>1, <1>2, <1>7
<1>10. Head(Append(results[m], r)) = IF results[m] = <<>> THEN r ELSE Head(results[m])
  <2>1. Len(results[m]) \in Nat /\ Head(Append(results[m], r)) = Append(results[m], r)[1]
    BY <1>1, <1>7, LenProperties
  <2>2. /\ \A b \in 1..Len(results[m]) : Append(results[m], r)[b] = results[m][b]
        /\ Append(results[m], r)[Len(results[m]) + 1] = r
    BY <1>1, AppendProperties
  <2>3. CASE results[m] = <<>>
    BY <2>1, <2>2, <2>3
  <2>4. CASE results[m] # <<>>
    <3>1. Len(results[m]) > 0 /\ Head(results[m]) = results[m][1]
      BY <1>1, <2>4, LenProperties
    <3>2. 1 \in 1..Len(results[m])
      BY <2>1, <3>1
    <3> QED BY <2>1, <2>2, <2>4, <3>1, <3>2
  <2> QED BY <2>3, <2>4
<1> QED BY <1>4, <1>6, <1>7, <1>8, <1>9, <1>10

\* The steps of a goroutine that report nothing
LEMMA MailProceeds ==
    ASSUME MailTypeOK, MailsOK, NEW m \in Mails,
           \/ Start(m) \/ CreateDraft(m) \/ CreateDraftFails(m)
           \/ UploadAttachment(m) \/ UploadAttachmentFails(m)
           \/ AllAttached(m) \/ SendDraft(m) \/ SendDraftFails(m)
    PROVE  MailTypeOK' /\ MailsOK'
<1>1. /\ Attachments[m] \in Nat /\ uploaded[m] \in 0..Attachments[m] /\ MailOK(m)
      /\ \A n \in Mails : Attachments[n] \in Nat
  BY MailAssumption DEF MailTypeOK, MailsOK
<1>2. UNCHANGED <<errChan, results>>
  BY DEF Start, CreateDraft, CreateDraftFails, UploadAttachment, UploadAttachmentFails,
         AllAttached, SendDraft, SendDraftFails
<1>3. /\ draft' \in [Mails -> BOOLEAN]
      /\ mail' \in [Mails -> {"idle", "draft", "attach", "send", "end", "done"} \cup Reporting]
      /\ \A n \in Mails \ {m} : mail'[n] = mail[n]
  BY DEF MailTypeOK, Reporting, Goto, Start, CreateDraft, CreateDraftFails, UploadAttachment,
         UploadAttachmentFails, AllAttached, SendDraft, SendDraftFails
<1>4. /\ uploaded' \in [Mails -> Nat] /\ uploaded'[m] \in 0..Attachments[m]
      /\ \A n \in Mails \ {m} : uploaded'[n] = uploaded[n]
  <2>1. CASE UploadAttachment(m)
    BY <1>1, <2>1 DEF UploadAttachment, MoreToAttach, MailsOK
  <2>2. CASE UploadAttachmentFails(m)
    BY <1>1, <2>2 DEF UploadAttachmentFails, MailsOK
  <2>3. CASE uploaded' = uploaded
    BY <1>1, <2>3 DEF MailsOK
  <2> QED BY <2>1, <2>2, <2>3 DEF Start, CreateDraft, CreateDraftFails, AllAttached, SendDraft,
                                   SendDraftFails
<1>5. /\ sent' = sent \/ (mail[m] = "send" /\ sent' = [sent EXCEPT ![m] = uploaded[m]])
      /\ uploaded' = uploaded \/ mail[m] = "attach"
  BY DEF Start, CreateDraft, CreateDraftFails, UploadAttachment, UploadAttachmentFails,
         MoreToAttach, AllAttached, SendDraft, SendDraftFails
<1>6. /\ sent' \in [Mails -> Nat \cup {Nothing}]
      /\ sent'[m] = sent[m] \/ sent'[m] = uploaded[m]
      /\ \A n \in Mails \ {m} : sent'[n] = sent[n]
  BY <1>1, <1>5 DEF MailsOK
<1>7. MailTypeOK'
  <2>1. \A n \in Mails : /\ uploaded'[n] \in 0..Attachments[n]
                         /\ sent'[n] \in (0..Attachments[n]) \cup {Nothing}
    BY <1>1, <1>4, <1>6 DEF MailTypeOK
  <2> QED BY <1>2, <1>3, <2>1 DEF MailTypeOK
<1>8. MailOK(m)'
  <2>1. mail[m] \notin {"done", "end"} \cup Reporting
    BY DEF Start, CreateDraft, CreateDraftFails, UploadAttachment, UploadAttachmentFails,
           MoreToAttach, AllAttached, SendDraft, SendDraftFails, Reporting
  <2>2. /\ mail'[m] = "send" => uploaded' = uploaded /\ uploaded[m] = Attachments[m]
        /\ mail'[m] = "end"  => mail[m] = "send" /\ sent'[m] = uploaded[m]
    BY DEF Start, CreateDraft, CreateDraftFails, UploadAttachment, UploadAttachmentFails,
           MoreToAttach, AllAttached, SendDraft, SendDraftFails, Goto, MailTypeOK, MailsOK,
           Reporting
  <2> QED BY <1>1, <1>2, <2>1, <2>2 DEF MailOK
<1>9. ASSUME NEW n \in Mails \ {m} PROVE MailOK(n)'
  BY <1>2, <1>3, <1>4, <1>6, MailSame DEF MailsOK
<1> QED BY <1>4, <1>6, <1>7, <1>8, <1>9 DEF MailsOK

\* The steps that report
LEMMA MailReports ==
    ASSUME MailTypeOK, MailsOK, NEW m \in Mails, Report(m) \/ ReportEnd(m)
    PROVE  MailTypeOK' /\ MailsOK'
<1>1. PICK r \in {"err", "nil"} :
         /\ Put(m, r)
         /\ r = "nil" => mail[m] = "end" /\ mail'[m] = "done"
         /\ r = "err" => mail[m] \in Reporting
  BY DEF Report, ReportEnd, Goto, MailTypeOK
<1>2. /\ mail' \in [Mails -> {"idle", "draft", "attach", "send", "end", "done"} \cup Reporting]
      /\ \A n \in Mails \ {m} : mail'[n] = mail[n]
      /\ UNCHANGED <<draft, uploaded, sent>>
  BY DEF Report, ReportEnd, Goto, MailTypeOK, Reporting
<1>3. /\ errChan' \in Seq(Mails \X {"err", "nil"}) /\ Len(errChan') <= ChanSize
      /\ results' \in [Mails -> Seq({"err", "nil"})]
      /\ \A n \in Mails \ {m} : results'[n] = results[n]
      /\ results'[m] # <<>>
      /\ Head(results'[m]) = IF results[m] = <<>> THEN r ELSE Head(results[m])
  BY <1>1, PutOK
<1>4. MailTypeOK'
  BY <1>2, <1>3 DEF MailTypeOK
<1>5. MailOK(m)'
  BY <1>1, <1>2, <1>3 DEF MailsOK, MailOK, Reporting
<1>6. ASSUME NEW n \in Mails \ {m} PROVE MailOK(n)'
  BY <1>2, <1>3, MailSame DEF MailsOK
<1> QED BY <1>2, <1>4, <1>5, <1>6 DEF MailsOK

\* What the caller receives is gone from the channel only.
LEMMA ReceiveOK ==
    ASSUME MailTypeOK, MailsOK, Receive PROVE MailTypeOK' /\ MailsOK'
<1>1. /\ errChan # <<>> /\ errChan' = Tail(errChan) /\ errChan \in Seq(Mails \X {"err", "nil"})
      /\ Len(errChan) <= ChanSize
      /\ UNCHANGED <<mail, draft, uploaded, sent, results>>
  BY DEF Receive, MailTypeOK
<1>2. /\ errChan' \in Seq(Mails \X {"err", "nil"})
      /\ Len(errChan') = Len(errChan) - 1 /\ Len(errChan) \in Nat
  BY <1>1, HeadTailProperties, LenProperties
<1>3. Len(errChan') <= ChanSize
  BY <1>1, <1>2, MailAssumption
<1>4. MailTypeOK'
  BY <1>1, <1>2, <1>3 DEF MailTypeOK
<1> QED BY <1>1, <1>4 DEF MailsOK, MailOK

LEMMA MailsUnchanged ==
    ASSUME MailTypeOK, MailsOK, UNCHANGED mailVars PROVE MailTypeOK' /\ MailsOK'
BY DEF mailVars, MailTypeOK, MailsOK, MailOK

-----------------------------------------------------------------------------
(* The routes *)

\* Forget, and every step of a compat function
LEMMA RouteSteps ==
    ASSUME CompatTypeOK, RouteOK, Compat \/ Forget \/ UNCHANGED compatVars
    PROVE  CompatTypeOK' /\ RouteOK'
<1>1. CASE Forget
  BY <1>1 DEF Forget, CompatTypeOK, RouteOK, Kinds
<1>2. CASE UNCHANGED compatVars
  BY <1>2 DEF compatVars, CompatTypeOK, RouteOK
<1>3. CASE Call
  BY <1>3 DEF Call, CompatTypeOK, RouteOK, Routes
<1>4. CASE NotFound
  BY <1>4 DEF NotFound, TryNext, Finish, CompatTypeOK, RouteOK, Routes
<1>5. CASE Incompatible
  BY <1>5 DEF Incompatible, Finish, CompatTypeOK, RouteOK, Routes
<1>6. CASE Invoke
  <2>1. /\ route \in Routes /\ route' = "done" /\ method' = method
        /\ invoked' = invoked \cup {route}
        /\ \/ effects' = effects + 1 /\ outcome' \in {"ok", "error"}
           \/ effects' = effects /\ outcome' = "error"
    BY <1>6 DEF Invoke, CarriedOut, Finish
  <2>2. invoked = {} /\ effects = 0
    BY <2>1 DEF RouteOK, Routes
  <2> QED BY <2>1, <2>2 DEF CompatTypeOK, RouteOK
<1> QED BY <1>1, <1>2, <1>3, <1>4, <1>5, <1>6 DEF Compat

-----------------------------------------------------------------------------
(* The theorems *)

LEMMA InitOK == Init => IInv
<1>1. CompatInit => CompatTypeOK /\ RouteOK
  BY DEF CompatInit, CompatTypeOK, RouteOK, Kinds
<1> QED BY <1>1, SessionStart, NoMails DEF Init, IInv, TypeOK

LEMMA NextOK == IInv /\ [Next]_vars => IInv'
<1> SUFFICES ASSUME IInv, [Next]_vars PROVE IInv'
  OBVIOUS
<1>1. SessionTypeOK /\ SessionOK /\ MailTypeOK /\ MailsOK /\ CompatTypeOK /\ RouteOK
  BY DEF IInv, TypeOK
<1>2. SessionNext \/ Logout \/ Crash \/ UNCHANGED sessionVars
  BY DEF Next, SessionStep, LogoutStep, ProcessEnds, CallerReceives, MailsDone, CompatStep,
         CompatDone, NoMoreLogins, StartMail, Mailer, vars
<1>3. /\ \/ Vanish \/ Receive \/ UNCHANGED mailVars
         \/ \E m \in Mails : Start(m) \/ SendEmail(m)
      /\ Compat \/ Forget \/ UNCHANGED compatVars
  BY DEF Next, SessionStep, LogoutStep, ProcessEnds, CallerReceives, MailsDone, CompatStep,
         CompatDone, NoMoreLogins, StartMail, Mailer, vars
<1>4. SessionTypeOK' /\ SessionOK'
  BY <1>1, <1>2, SessionSteps
<1>5. MailTypeOK' /\ MailsOK'
  BY <1>1, <1>3, NoMails, ReceiveOK, MailsUnchanged, MailProceeds, MailReports DEF SendEmail
<1>6. CompatTypeOK' /\ RouteOK'
  BY <1>1, <1>3, RouteSteps
<1> QED BY <1>4, <1>5, <1>6 DEF IInv, TypeOK

\* The invariant holds in every reachable state.
THEOREM Invariance == Spec => []IInv
BY InitOK, NextOK, PTL DEF Spec

\* The variables of the session, the mails and the compat functions keep their
\* types; the channel of the mails never holds more than it was made for.
THEOREM TypeCorrect == Spec => []TypeOK
<1>1. IInv => TypeOK
  BY DEF IInv
<1> QED BY <1>1, Invariance, PTL

\* Whatever crashes and whichever tokens are refreshed, during a login or after
\* it: a caller whose drive is open, or that was returned a credential, has the
\* tokens that the server accepts and the key pass, from NewProtonDrive, from the
\* handler that Login registers and from the file, unless the answer to a refresh
\* was lost.
THEOREM Resumable == Spec => []CallerCanResume
<1>1. ASSUME IInv, NEW u \in UIDs, session[u] # Nothing, u \notin lost,
             (\E c \in told : c.uid = u /\ c.salted) \/ (pc = "open" /\ client.uid = u)
      PROVE  [uid |-> u, refresh |-> session[u], salted |-> TRUE] \in Available
  <2>1. SessionTypeOK /\ SessionOK
    BY <1>1 DEF IInv, TypeOK
  <2>2. session[u] \in 0..MaxRefreshes /\ session[u] \in Nat /\ told \subseteq Credential
    BY <1>1, <2>1, SessionHas DEF SessionTypeOK
  <2>3. PICK t \in Known, k \in Known : t.uid = u /\ k.salted
    <3>1. CASE \E c \in told : c.uid = u /\ c.salted
      BY <3>1 DEF Known
    <3>2. CASE pc = "open" /\ client.uid = u
      <4>1. config \in Credential /\ config.uid = u /\ config.salted
        BY <2>1, <3>2 DEF SessionOK, ConfigOK, HasCredential
      <4>2. CASE withFile
        <5>1. file = config
          BY <2>1, <3>2, <4>2 DEF SessionOK, FileOK
        <5> QED BY <4>1, <5>1 DEF Known
      <4>3. CASE ~withFile
        BY <2>1, <3>2, <4>1, <4>3 DEF SessionOK, SourceOK, Known
      <4> QED BY <4>2, <4>3
    <3> QED BY <1>1, <3>1, <3>2
  <2>4. \E n \in Known : n.uid = u /\ n.refresh = session[u]
    <3>1. CASE session[u] # 0
      <4>1. Heard([uid |-> u, refresh |-> session[u]]) \in told
        BY <1>1, <2>1, <3>1 DEF SessionOK, RefreshesTold
      <4> QED BY <4>1 DEF Heard, Known
    <3>2. CASE session[u] = 0
      <4>1. t \in Credential /\ t \in Kept
        BY <2>2 DEF Known, Kept
      <4>2. t.refresh \in Nat /\ t.refresh <= session[u]
        BY <1>1, <2>1, <2>3, <4>1, CredentialHas DEF SessionOK, KeptOK
      <4>3. t.refresh = 0
        BY <3>2, <4>2
      <4> QED BY <2>3, <3>2, <4>3
    <3> QED BY <3>1, <3>2
  <2>5. [uid |-> u, refresh |-> session[u], salted |-> TRUE] \in Credential
    BY <2>2, CredentialIs
  <2> QED BY <2>3, <2>4, <2>5 DEF Available
<1>2. IInv => CallerCanResume
  BY <1>1 DEF CallerCanResume
<1> QED BY <1>2, Invariance, PTL

\* From the moment a login has its keys, the credential file and what the handler
\* was given are enough to take the session up again, unless the answer to a
\* refresh was lost: nothing depends on what NewProtonDrive returns.
THEOREM FileResumable == Spec => []FileCanResume
<1>1. ASSUME IInv, withFile, pc \in {"setup", "open"}, client.uid \notin lost,
             session[client.uid] # Nothing
      PROVE  /\ file \in Credential /\ file.uid = client.uid /\ file.salted
             /\ \/ file.refresh = session[client.uid]
                \/ Heard([uid |-> client.uid, refresh |-> session[client.uid]]) \in told
  <2>1. SessionTypeOK /\ SessionOK
    BY <1>1 DEF IInv, TypeOK
  <2>2. /\ file = config /\ config \in Credential /\ config.salted
        /\ config.uid = client.uid /\ client \in Tokens
    BY <1>1, <2>1 DEF SessionOK, FileOK, ConfigOK, HasCredential
  <2>3. client.uid \in UIDs /\ session[client.uid] \in Nat
    BY <1>1, <2>1, <2>2, TokensHave, SessionHas
  <2>4. CASE session[client.uid] # 0
    BY <1>1, <2>1, <2>2, <2>3, <2>4 DEF SessionOK, RefreshesTold
  <2>5. CASE session[client.uid] = 0
    <3>1. config.refresh \in Nat /\ config \in Kept
      BY <2>2, CredentialHas DEF Kept
    <3>2. config.refresh <= session[client.uid]
      BY <1>1, <2>1, <2>2, <3>1 DEF SessionOK, KeptOK
    <3> QED BY <2>2, <2>5, <3>1, <3>2
  <2> QED BY <2>4, <2>5
<1>2. IInv => FileCanResume
  BY <1>1 DEF FileCanResume
<1> QED BY <1>2, Invariance, PTL

\* SendEmail puts a nil first only when the mail went out with every attachment.
THEOREM FirstNil == Spec => []FirstNilMeansSent
<1>1. IInv => FirstNilMeansSent
  BY DEF IInv, MailsOK, MailOK, FirstNilMeansSent
<1> QED BY <1>1, Invariance, PTL

\* moveLinkCompat and getRevisionVerificationCompat call one method at most and
\* report a success only of a request that was carried out, once.
THEOREM OneRoute == Spec => []AtMostOneRoute
<1>1. IInv => AtMostOneRoute
  BY FS_EmptySet, FS_Singleton DEF IInv, RouteOK, AtMostOneRoute
<1> QED BY <1>1, Invariance, PTL
=============================================================================
