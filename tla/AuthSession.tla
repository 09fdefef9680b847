----------------------------- MODULE AuthSession -----------------------------
(***************************************************************************)
(* auth-service and the browsers of one account: sign-in, the rotation of  *)
(* the refresh token, sign-out, the lock after failed sign-ins, passwords  *)
(* and the links sent by mail.                                             *)
(*                                                                         *)
(* A request is cut at its database statements; none of its handlers opens *)
(* a transaction, and any of them may end between two.  A password is the  *)
(* number of the change that set it, and 0 is any wrong one.  A refresh    *)
(* token is the number of the sign-in or refresh it was signed for: two    *)
(* signed within a second are the same, since a token holds the user and   *)
(* the second.  What is left out: the profile, the audit log, the events   *)
(* for the shadow tables (see ShadowSync) and the column refreshToken of   *)
(* User, which nothing reads.                                              *)
(***************************************************************************)
EXTENDS Naturals, FiniteSets

CONSTANTS
  AuthRequest,    \* requests that auth-service serves at the same time
  Client,         \* the browsers of the account's owner
  LockThreshold,  \* failed sign-ins that lock the account (5)
  MaxSessions,    \* bound: sign-ins and refreshes that create a session
  MaxPasswords,   \* bound: passwords
  MaxLinks,       \* bound: mails with a link
  MaxFailures,    \* bound: failures counted
  Scope,          \* bound: the scopes explored, see Scopes
  NoOne

(* A behaviour keeps to the bounds of one scope, so that a run may explore *)
(* what a few sessions, a few links and a few failures do one by one; an   *)
(* administrator is at work in some of them.                               *)
Scopes == [sessions : 0..MaxSessions, passwords : 0..MaxPasswords, links : 0..MaxLinks,
           failures : 0..MaxFailures, admin : BOOLEAN]

ASSUME AuthAssumption ==
  /\ LockThreshold \in Nat \ {0}
  /\ {MaxSessions, MaxPasswords, MaxLinks, MaxFailures} \subseteq Nat
  /\ MaxPasswords > 0
  /\ Scope \subseteq Scopes
  /\ NoOne \notin Client

VARIABLES
  scope,        \* bound: the scope of this behaviour
  account,      \* the row of User
  sessions,     \* the rows of Session
  issued,       \* the number of sessions created so far
  links,        \* the number of links sent so far
  serving,      \* [AuthRequest -> the request being served, or NotServing]
  cookie,       \* [Client -> the refresh token in its cookie, 0 if none]
  settled,      \* history: the client whose session nothing has disturbed
  chosen        \* history: the password in force when a change or reset last succeeded

authVars == <<scope, account, sessions, issued, links, serving, cookie, settled, chosen>>

Status == {"none", "ACTIVE", "INACTIVE"}      \* "none": not registered yet
SignInOps == {"register", "login", "refresh"}
PasswordOps == {"change", "reset"}
Ops == SignInOps \cup PasswordOps \cup {"logout", "forgot", "resend", "verify"}
(* What a request does to the sessions. *)
ClassOf(op) == IF op \in SignInOps \cup {"logout"} THEN {"session"}
               ELSE IF op \in PasswordOps THEN {"session", "password"}
               ELSE {}

Account == [status : Status, password : 0..MaxPasswords, failed : 0..MaxFailures,
            locked : BOOLEAN, verified : BOOLEAN, reset : 0..MaxLinks, verification : 0..MaxLinks]
Session == [id : 1..MaxSessions, token : 1..MaxSessions, since : 0..MaxPasswords, crossed : BOOLEAN]

NotServing == [op |-> "none"]
(* arg: the password, token or link presented; read: failedLoginAttempts   *)
(* as read; since: the password in force when the request began; met: what *)
(* it overlapped.                                                          *)
Serving == [op : Ops, step : {"read", "again", "write", "rewrite", "revoke", "rotate", "create", "respond"},
            client : Client, arg : 0..(MaxPasswords + MaxSessions + MaxLinks),
            read : 0..MaxFailures, since : 0..MaxPasswords, met : SUBSET {"session", "password", "lock"}]

AuthInit ==
  /\ scope \in Scope
  /\ account = [status |-> "none", password |-> 0, failed |-> 0, locked |-> FALSE,
                verified |-> FALSE, reset |-> 0, verification |-> 0]
  /\ sessions = {}
  /\ issued = 0
  /\ links = 0
  /\ serving = [r \in AuthRequest |-> NotServing]
  /\ cookie = [c \in Client |-> 0]
  /\ settled = NoOne
  /\ chosen = 0

-----------------------------------------------------------------------------
InService == {r \in AuthRequest : serving[r] # NotServing}
At(r, op, step) == serving[r] # NotServing /\ serving[r].op \in op /\ serving[r].step = step

(* A request arrives: those in service and it have met. *)
Arrive(r, op, step, c, arg) ==
  /\ serving[r] = NotServing
  /\ serving' = [q \in AuthRequest |->
       IF q = r
       THEN [op |-> op, step |-> step, client |-> c, arg |-> arg, read |-> 0,
             since |-> account.password, met |-> UNION {ClassOf(serving[p].op) : p \in InService}]
       ELSE IF q \in InService THEN [serving[q] EXCEPT !.met = @ \cup ClassOf(op)]
       ELSE NotServing]
  /\ UNCHANGED <<account, sessions, issued, links, cookie, settled, chosen>>

GoTo(r, step) == serving' = [serving EXCEPT ![r].step = step]
End(r) == serving' = [serving EXCEPT ![r] = NotServing]

(* The handler throws: the client keeps its cookies. *)
Refuse(r) ==
  /\ End(r)
  /\ UNCHANGED <<account, sessions, issued, links, cookie, settled, chosen>>

-----------------------------------------------------------------------------
(* Signing in.  The guard of the route checks the credentials, and login   *)
(* checks them again: "read" and "write", then "again" and "rewrite".      *)

SignIn(r, c, password) == Arrive(r, "login", "read", c, password)

(* Mutant: the lock is not looked at. *)
ActiveOnly == account.status = "ACTIVE"
MayTry == account.status = "ACTIVE" /\ ~account.locked

ReadCredentials(r) ==
  /\ At(r, {"login"}, "read") \/ At(r, {"login"}, "again")
  /\ IF MayTry
     THEN /\ serving' = [serving EXCEPT
               ![r].step = IF @ = "read" THEN "write" ELSE "rewrite",
               ![r].read = account.failed,
               ![r].arg = IF @ = account.password THEN @ ELSE 0]
          /\ UNCHANGED <<account, sessions, issued, links, cookie, settled, chosen>>
     ELSE Refuse(r)

(* The update of a checked sign-in writes what was read, whatever happened *)
(* since.                                                                  *)
RightPassword(r) ==
  /\ serving[r].arg # 0
  /\ account' = [account EXCEPT !.failed = 0, !.locked = FALSE]
  /\ serving' = [serving EXCEPT ![r].step = IF @ = "write" THEN "again" ELSE "rotate", ![r].read = 0]

WrongPassword(r) ==
  /\ serving[r].arg = 0
  /\ LET failed == serving[r].read + 1
     IN /\ failed <= scope.failures
        /\ account' = [account EXCEPT !.failed = failed, !.locked = failed >= LockThreshold]
  /\ serving' = [q \in AuthRequest |->
       IF q = r THEN NotServing
       ELSE IF (At(q, {"login"}, "write") \/ At(q, {"login"}, "rewrite")) /\ account'.locked
       THEN [serving[q] EXCEPT !.met = @ \cup {"lock"}]
       ELSE serving[q]]

WriteAttempt(r) ==
  /\ At(r, {"login"}, "write") \/ At(r, {"login"}, "rewrite")
  /\ RightPassword(r) \/ WrongPassword(r)
  /\ UNCHANGED <<sessions, issued, links, cookie, settled, chosen>>

(* lockedUntil passes. *)
LockPasses ==
  /\ account.locked
  /\ account' = [account EXCEPT !.locked = FALSE]
  /\ UNCHANGED <<sessions, issued, links, serving, cookie, settled, chosen>>

(* register: the account's insert fails if the address is taken. *)
Register(r, c) == Arrive(r, "register", "write", c, 1)

CreateAccount(r) ==
  /\ At(r, {"register"}, "write")
  /\ IF account.status = "none"
     THEN /\ account' = [account EXCEPT !.status = "ACTIVE", !.password = 1]
          /\ GoTo(r, "rotate")
          /\ UNCHANGED <<sessions, issued, links, cookie, settled, chosen>>
     ELSE Refuse(r)

-----------------------------------------------------------------------------
(* The refresh token.  A response 401 to an API call makes the browser ask *)
(* for new tokens; every such call asks for itself, and the access token   *)
(* may have expired at any time.                                           *)

Refresh(r, c) ==
  /\ cookie[c] # 0
  /\ Arrive(r, "refresh", "read", c, cookie[c])

FindSession(r) ==
  /\ At(r, {"refresh"}, "read")
  /\ IF /\ \E s \in sessions : s.token = serving[r].arg
        /\ account.status = "ACTIVE"
     THEN /\ GoTo(r, "rotate")
          /\ UNCHANGED <<account, sessions, issued, links, cookie, settled, chosen>>
     ELSE Refuse(r)

(* Mutant: the sessions of the account stay. *)
KeepSessions(rows) == rows

(* session.deleteMany of a user. *)
Revoked(rows) == {}

(* generateTokens, then the first statement of storeRefreshSession. *)
Rotate(r) ==
  /\ At(r, SignInOps, "rotate")
  /\ sessions' = Revoked(sessions)
  /\ settled' = NoOne
  /\ GoTo(r, "create")
  /\ UNCHANGED <<account, issued, links, cookie, chosen>>

(* session.create.  The token is new, or that of the same second. *)
CreateSession(r, token) ==
  /\ At(r, SignInOps, "create")
  /\ issued < scope.sessions
  /\ token \in {issued, issued + 1} \ {0}
  /\ issued' = issued + 1
  /\ sessions' = sessions \cup
       {[id |-> issued', token |-> token, since |-> serving[r].since,
         crossed |-> "password" \in serving[r].met]}
  /\ serving' = [serving EXCEPT ![r].step = "respond", ![r].arg = token]
  /\ settled' = IF "session" \notin serving[r].met THEN serving[r].client ELSE NoOne
  /\ UNCHANGED <<account, links, cookie, chosen>>

(* The response arrives, in any order, and with it the new cookies. *)
ReceiveTokens(r) ==
  /\ At(r, SignInOps, "respond")
  /\ cookie' = [cookie EXCEPT ![serving[r].client] = serving[r].arg]
  /\ End(r)
  /\ UNCHANGED <<account, sessions, issued, links, settled, chosen>>

(* The response is lost, after the session was replaced. *)
LoseTokens(r) ==
  /\ At(r, SignInOps, "respond")
  /\ settled' = NoOne
  /\ End(r)
  /\ UNCHANGED <<account, sessions, issued, links, cookie, chosen>>

(* expiresAt of a session passes: no refresh finds it any more. *)
SessionExpires(s) ==
  /\ sessions' = sessions \ {s}
  /\ settled' = NoOne
  /\ UNCHANGED <<account, issued, links, serving, cookie, chosen>>

-----------------------------------------------------------------------------
(* Signing out, and changing the password.  Both need an access token,     *)
(* which comes with the refresh token but expires before it, of an active  *)
(* account.  A sign-out that lacks it fails, and the session lives on.     *)

Authenticated(c) == cookie[c] # 0 /\ account.status = "ACTIVE"

SignOut(r, c) ==
  /\ Authenticated(c)
  /\ Arrive(r, "logout", "revoke", c, cookie[c])

(* Only the session of the cookie's token ends. *)
RevokeOne(r) ==
  /\ At(r, {"logout"}, "revoke")
  /\ sessions' = {s \in sessions : s.token # serving[r].arg}
  /\ settled' = NoOne
  /\ GoTo(r, "respond")
  /\ UNCHANGED <<account, issued, links, cookie, chosen>>

ReceiveSignOut(r) ==
  /\ At(r, {"logout"}, "respond")
  /\ cookie' = [cookie EXCEPT ![serving[r].client] = 0]
  /\ settled' = IF settled = serving[r].client THEN NoOne ELSE settled
  /\ End(r)
  /\ UNCHANGED <<account, sessions, issued, links, chosen>>

ChangePassword(r, c, password) ==
  /\ Authenticated(c)
  /\ Arrive(r, "change", "read", c, password)

CheckOldPassword(r) ==
  /\ At(r, {"change"}, "read")
  /\ IF serving[r].arg = account.password
     THEN /\ GoTo(r, "write")
          /\ UNCHANGED <<account, sessions, issued, links, cookie, settled, chosen>>
     ELSE Refuse(r)

(* resetPassword finds the account by the link, which may expire. *)
ResetPassword(r, c) ==
  /\ account.reset # 0
  /\ Arrive(r, "reset", "read", c, account.reset)

FindResetLink(r) ==
  /\ At(r, {"reset"}, "read")
  /\ IF serving[r].arg = account.reset
     THEN /\ GoTo(r, "write")
          /\ UNCHANGED <<account, sessions, issued, links, cookie, settled, chosen>>
     ELSE Refuse(r)

ResetLinkExpires ==
  /\ account.reset # 0
  /\ account' = [account EXCEPT !.reset = 0]
  /\ UNCHANGED <<sessions, issued, links, serving, cookie, settled, chosen>>

(* The update by id; a reset clears whatever link the row now has. *)
WritePassword(r) ==
  /\ At(r, PasswordOps, "write")
  /\ account.password < scope.passwords
  /\ account' = [account EXCEPT
       !.password = @ + 1,
       !.reset = IF serving[r].op = "reset" THEN 0 ELSE @]
  /\ GoTo(r, "revoke")
  /\ UNCHANGED <<sessions, issued, links, cookie, settled, chosen>>

(* Mutant: the sessions outlive the password. *)
SucceedWithoutRevoking(r) ==
  /\ At(r, PasswordOps, "revoke")
  /\ chosen' = account.password
  /\ End(r)
  /\ UNCHANGED <<account, sessions, issued, links, cookie, settled>>

(* session.deleteMany ends every session, and the request succeeds; the    *)
(* cookies stay.                                                           *)
RevokeAll(r) ==
  /\ At(r, PasswordOps, "revoke")
  /\ sessions' = Revoked(sessions)
  /\ chosen' = account.password
  /\ settled' = NoOne
  /\ End(r)
  /\ UNCHANGED <<account, issued, links, cookie>>

-----------------------------------------------------------------------------
(* Links.  forgotPassword, and resendVerificationEmail of an address that  *)
(* is not verified, write a new link and mail it.                          *)

AskLink(r, op, c) ==
  /\ account.status # "none"
  /\ op = "resend" => ~account.verified
  /\ Arrive(r, op, "write", c, 0)

WriteLink(r) ==
  /\ At(r, {"forgot", "resend"}, "write")
  /\ links < scope.links
  /\ links' = links + 1
  /\ account' = IF serving[r].op = "forgot" THEN [account EXCEPT !.reset = links']
                ELSE [account EXCEPT !.verification = links']
  /\ End(r)
  /\ UNCHANGED <<sessions, issued, cookie, settled, chosen>>

VerifyEmail(r, c) ==
  /\ account.verification # 0
  /\ Arrive(r, "verify", "read", c, account.verification)

FindVerification(r) ==
  /\ At(r, {"verify"}, "read")
  /\ IF serving[r].arg = account.verification
     THEN /\ GoTo(r, "write")
          /\ UNCHANGED <<account, sessions, issued, links, cookie, settled, chosen>>
     ELSE Refuse(r)

(* The update by id activates the account, whatever its status was. *)
WriteVerified(r) ==
  /\ At(r, {"verify"}, "write")
  /\ account' = [account EXCEPT !.verified = TRUE, !.verification = 0, !.status = "ACTIVE"]
  /\ End(r)
  /\ UNCHANGED <<sessions, issued, links, cookie, settled, chosen>>

(* A statement of the request, or the publication that resetPassword makes *)
(* between two, throws, or its process dies: what it wrote so far stays.   *)
(* After a sign-in's last statement that is LoseTokens.                    *)
HandlerFails(r) ==
  /\ r \in InService
  /\ ~At(r, SignInOps, "respond")
  /\ Refuse(r)

(* users.service: an administrator sets the status or the password, and    *)
(* no session ends.                                                        *)
UpdateUser(status, password) ==
  /\ scope.admin
  /\ account.status # "none"
  /\ password \in {account.password, account.password + 1} \cap 0..scope.passwords
  /\ account' = [account EXCEPT !.status = status, !.password = password]
  /\ account' # account
  /\ UNCHANGED <<sessions, issued, links, serving, cookie, settled, chosen>>

-----------------------------------------------------------------------------
AuthStep ==
  \/ \E r \in AuthRequest, c \in Client :
       \/ Register(r, c) \/ Refresh(r, c) \/ SignOut(r, c)
       \/ \E password \in {0, account.password} : SignIn(r, c, password) \/ ChangePassword(r, c, password)
       \/ ResetPassword(r, c) \/ VerifyEmail(r, c)
       \/ \E op \in {"forgot", "resend"} : AskLink(r, op, c)
  \/ \E r \in AuthRequest :
       \/ ReadCredentials(r) \/ WriteAttempt(r) \/ CreateAccount(r)
       \/ FindSession(r) \/ Rotate(r) \/ ReceiveTokens(r) \/ LoseTokens(r)
       \/ \E token \in 1..MaxSessions : CreateSession(r, token)
       \/ RevokeOne(r) \/ ReceiveSignOut(r)
       \/ CheckOldPassword(r) \/ FindResetLink(r) \/ WritePassword(r) \/ RevokeAll(r)
       \/ WriteLink(r) \/ FindVerification(r) \/ WriteVerified(r)
       \/ HandlerFails(r)
  \/ \E s \in sessions : SessionExpires(s)
  \/ \E status \in {"ACTIVE", "INACTIVE"}, password \in 1..MaxPasswords : UpdateUser(status, password)
  \/ LockPasses \/ ResetLinkExpires

AuthNext == AuthStep /\ UNCHANGED scope

AuthSpec == AuthInit /\ [][AuthNext]_authVars

(***************************************************************************)
(* Properties.                                                             *)
(***************************************************************************)
(* Every variable keeps its shape. *)
AuthTypeOK ==
  /\ scope \in Scopes
  /\ account \in Account
  /\ sessions \subseteq Session
  /\ issued \in 0..MaxSessions
  /\ links \in 0..MaxLinks
  /\ \A r \in AuthRequest : serving[r] = NotServing \/ serving[r] \in Serving
  /\ cookie \in [Client -> 0..MaxSessions]
  /\ settled \in Client \cup {NoOne}
  /\ chosen \in 0..MaxPasswords

(* When the owner's change or reset of the password has succeeded, no      *)
(* session is left from before it, except of a sign-in or refresh that     *)
(* overlapped a change: storeRefreshSession may run between the update and *)
(* the deletion, or after both.  One that throws or dies between the two   *)
(* leaves the sessions of the old password, until the next that succeeds,  *)
(* whatever it, failed attempts and administrators set in between.         *)
SessionsEndWithPassword == \A s \in sessions : s.crossed \/ s.since >= chosen

(* A sign-in or a refresh that overlapped no other leaves exactly one      *)
(* session, and the browser holds its token or is about to, until          *)
(* something else touches the sessions or the response is lost: whatever   *)
(* overlapped or was lost before does no harm.                             *)
SoleSession ==
  settled # NoOne => \E s \in sessions :
    /\ sessions = {s}
    /\ \/ cookie[settled] = s.token
       \/ \E r \in AuthRequest :
            /\ At(r, SignInOps, "respond")
            /\ serving[r].client = settled /\ serving[r].arg = s.token

(* Only time lifts the lock, or a sign-in whose row was read before the    *)
(* account was locked: its blind update, of a success or of a failure.     *)
LockHolds ==
  [][account.locked /\ ~account'.locked =>
       \/ LockPasses
       \/ \E r \in AuthRequest : serving[r] # NotServing /\ "lock" \in serving[r].met
            /\ serving'[r] # serving[r]]_authVars
=============================================================================
