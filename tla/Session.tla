------------------------------ MODULE Session ------------------------------
(***************************************************************************)
(* Login, NewProtonDrive and Logout, as far as the credential goes: the    *)
(* session on the server, the copy of its tokens in the API client, what   *)
(* the caller is told of them, and the credential file.  The process may   *)
(* crash and start again with what the caller has kept or the file holds.  *)
(*                                                                         *)
(* The tokens of a session are its UID and how many times they had been    *)
(* refreshed.  The API client is external: when its access token has       *)
(* expired it refreshes both tokens, which ends the life of the old ones,  *)
(* and hands the new ones to the handler the library has registered.       *)
(*                                                                         *)
(* A credential is tokens with or without SaltedKeyPass, which unlocks the *)
(* keys of the account.  The handler is given tokens only.  The account's  *)
(* password does not change, so that all its sessions have one key pass.   *)
(***************************************************************************)
EXTENDS Naturals

CONSTANTS
    Nothing,      \* no credential, no tokens, no session, not sent
    Empty,        \* a file without content
    MaxLogins,    \* bound: sessions opened with the password
    MaxRefreshes  \* bound: refreshes of the tokens of one session

ASSUME SessionAssumption ==
    /\ MaxLogins \in Nat /\ MaxRefreshes \in Nat
    /\ Nothing \notin Nat \cup [uid : Nat, refresh : Nat]
    /\ {Nothing, Empty} \cap [uid : Nat, refresh : Nat, salted : BOOLEAN] = {}

VARIABLES
    logins,   \* server: sessions opened so far
    session,  \* server: per session, the refresh it accepts, or Nothing
    pc,       \* where Login, NewProtonDrive or Logout is
    client,   \* the tokens in the API client
    config,   \* Config.ReusableCredential
    reuse,    \* Config.UseReusableLogin
    withFile, \* Config.CredentialCacheFile is not ""
    file,     \* the credential file: Nothing, Empty or a credential
    told,     \* history: what NewProtonDrive has returned and authHandler was given
    lost      \* history: sessions whose last refresh was never answered

sessionVars == <<logins, session, pc, client, config, reuse, withFile, file, told, lost>>

UIDs == 1..MaxLogins

Tokens == [uid : UIDs, refresh : 0..MaxRefreshes]

\* salted: SaltedKeyPass is there
Credential == [uid : UIDs, refresh : 0..MaxRefreshes, salted : BOOLEAN]

SessionTypeOK ==
    /\ logins \in 0..MaxLogins
    /\ session \in [UIDs -> (0..MaxRefreshes) \cup {Nothing}]
    /\ pc \in {"idle", "second", "truncate", "write", "keys", "setup", "open"}
    /\ client \in Tokens \cup {Nothing} /\ config \in Credential \cup {Nothing}
    /\ reuse \in BOOLEAN /\ withFile \in BOOLEAN
    /\ file \in Credential \cup {Nothing, Empty}
    /\ told \subseteq Credential /\ lost \subseteq UIDs

SessionInit ==
    /\ logins = 0 /\ session = [u \in UIDs |-> Nothing]
    /\ pc = "idle" /\ client = Nothing /\ config = Nothing /\ reuse = FALSE
    /\ withFile \in BOOLEAN /\ file = Nothing /\ told = {} /\ lost = {}

\* What a caller has that keeps what it is told and can read the file
Known == told \cup ({file} \cap Credential)

\* The credentials it can put together: the newest tokens may have come from the
\* handler, and the key pass from the first login or the file.
Available ==
    {c \in Credential :
        /\ \E t \in Known : t.uid = c.uid /\ t.refresh = c.refresh
        /\ c.salted => \E k \in Known : k.salted}

\* The server takes the client's tokens.
Accepted == client # Nothing /\ session[client.uid] = client.refresh

\* The drive is open and its requests are accepted.
Online == pc = "open" /\ Accepted

\* The process, or the call in progress, is over; the session stays.  (A login
\* that fails leaves its credential in the caller's Config; no caller is assumed
\* to look for it there.)
Abandon == pc' = "idle" /\ client' = Nothing /\ config' = Nothing /\ reuse' = FALSE

-----------------------------------------------------------------------------
(* Login *)

\* NewClientWithLogin, and the handlers are registered.
NewClientWithLogin ==
    /\ pc = "idle" /\ logins < MaxLogins
    /\ logins' = logins + 1
    /\ session' = [session EXCEPT ![logins + 1] = 0]
    /\ client' = [uid |-> logins + 1, refresh |-> 0]
    /\ pc' = "second"
    /\ UNCHANGED <<config, reuse, file, told, lost, withFile>>

\* Auth2FA and the mailbox password, if the account has them
SecondFactor ==
    /\ pc = "second" /\ Accepted
    /\ pc' = "keys"
    /\ UNCHANGED <<logins, session, client, config, reuse, file, told, lost, withFile>>

\* UseReusableLogin
NewClient(credential) ==
    /\ pc = "idle" /\ credential \in Available
    /\ client' = [uid |-> credential.uid, refresh |-> credential.refresh]
    /\ config' = credential /\ reuse' = TRUE
    /\ pc' = IF withFile THEN "truncate" ELSE "keys"
    /\ UNCHANGED <<logins, session, file, told, lost, withFile>>

\* (Variants named *_Mutant are the definition below them with a defect; the
\* specification does not use them.)
\* The credential is made up before the key pass is known.
ReusableCredential_Mutant ==
    IF reuse THEN config ELSE [uid |-> client.uid, refresh |-> 0, salted |-> FALSE]

\* After a first login the tokens it began with, whatever was refreshed meanwhile.
ReusableCredential ==
    IF reuse THEN config ELSE [uid |-> client.uid, refresh |-> 0, salted |-> TRUE]

\* getAccountKRs.  A first login derives the key pass from the password; a reused
\* credential without one is not salted again, and nothing is unlocked.
GetAccountKRs ==
    /\ pc = "keys" /\ Accepted /\ (reuse => config.salted)
    /\ config' = ReusableCredential
    /\ pc' = IF withFile /\ ~reuse THEN "truncate" ELSE "setup"
    /\ UNCHANGED <<logins, session, client, reuse, file, told, lost, withFile>>

\* cacheCredentialToFile: os.Create empties the file, WriteString fills it.
CreateFile ==
    /\ pc = "truncate"
    /\ file' = Empty /\ pc' = "write"
    /\ UNCHANGED <<logins, session, client, config, reuse, told, lost, withFile>>

WriteFile ==
    /\ pc = "write"
    /\ file' = config
    /\ pc' = IF reuse THEN "keys" ELSE "setup"
    /\ UNCHANGED <<logins, session, client, config, reuse, told, lost, withFile>>

\* The volume, its share, the root link and the keyring of the share; the caller
\* gets the drive, and after a first login the credential.
NewProtonDrive ==
    /\ pc = "setup" /\ Accepted
    /\ pc' = "open"
    /\ told' = IF reuse THEN told ELSE told \cup {config}
    /\ UNCHANGED <<logins, session, client, config, reuse, file, lost, withFile>>

\* Any of these returns an error; the session it may have opened stays.
LoginFails ==
    /\ pc \in {"second", "truncate", "write", "keys", "setup"}
    /\ Abandon
    /\ UNCHANGED <<logins, session, file, told, lost, withFile>>

-----------------------------------------------------------------------------
(* Refresh, logout, crash *)

CanRefresh == pc \in {"second", "keys", "setup", "open"} /\ Accepted
                  /\ client.refresh < MaxRefreshes

\* proton.Auth has no key pass.
Heard(tokens) == [uid |-> tokens.uid, refresh |-> tokens.refresh, salted |-> FALSE]

\* The handler is registered when the login is complete.
Refresh_Mutant ==
    /\ CanRefresh
    /\ LET fresh == [client EXCEPT !.refresh = @ + 1]
       IN  /\ client' = fresh /\ session' = [session EXCEPT ![client.uid] = fresh.refresh]
           /\ told' = IF pc = "open" THEN told \cup {Heard(fresh)} ELSE told
    /\ UNCHANGED <<logins, pc, config, reuse, file, lost, withFile>>

\* authHandler is called with the new tokens.
Refresh ==
    /\ CanRefresh
    /\ LET fresh == [client EXCEPT !.refresh = @ + 1]
       IN  /\ client' = fresh /\ session' = [session EXCEPT ![client.uid] = fresh.refresh]
           /\ told' = told \cup {Heard(fresh)}
    /\ UNCHANGED <<logins, pc, config, reuse, file, lost, withFile>>

\* The answer is lost: from now on no request of the client is accepted.
RefreshLost ==
    /\ CanRefresh
    /\ session' = [session EXCEPT ![client.uid] = @ + 1]
    /\ lost' = lost \cup {client.uid}
    /\ UNCHANGED <<logins, pc, client, config, reuse, file, told, withFile>>

\* AuthDelete only if there is no credential file; the clients are closed.
Logout ==
    /\ pc = "open"
    /\ IF withFile \/ ~Accepted THEN UNCHANGED session
       ELSE session' \in {session, [session EXCEPT ![client.uid] = Nothing]}
    /\ Abandon
    /\ UNCHANGED <<logins, file, told, lost, withFile>>

Crash ==
    /\ pc # "idle"
    /\ Abandon
    /\ UNCHANGED <<logins, session, file, told, lost, withFile>>

SessionNext ==
    \/ NewClientWithLogin \/ SecondFactor \/ (\E c \in Available : NewClient(c)) \/ GetAccountKRs
    \/ CreateFile \/ WriteFile \/ NewProtonDrive \/ LoginFails \/ Refresh \/ RefreshLost

-----------------------------------------------------------------------------
(* Properties *)

\* A caller whose drive is open, or that has been returned a credential, can take
\* the session up again after a crash: with the key pass it has, one of the tokens
\* it knows are those the server accepts, unless the answer to a refresh was lost.
CallerCanResume ==
    \A u \in UIDs :
        /\ session[u] # Nothing /\ u \notin lost
        /\ \/ \E c \in told : c.uid = u /\ c.salted
           \/ pc = "open" /\ client.uid = u
        => [uid |-> u, refresh |-> session[u], salted |-> TRUE] \in Available

\* From the moment a login has its keys the credential file holds the key pass of
\* its session, with the tokens that the server accepts, or the handler was given
\* those: a crash or an error in NewProtonDrive, which then returns no credential,
\* does not cost the session.
FileCanResume ==
    withFile /\ pc \in {"setup", "open"} /\ client.uid \notin lost =>
        LET u == client.uid
        IN  session[u] # Nothing =>
              /\ file \in Credential /\ file.uid = u /\ file.salted
              /\ file.refresh = session[u] \/ Heard([uid |-> u, refresh |-> session[u]]) \in told
=============================================================================
