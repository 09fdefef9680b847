------------------------------ MODULE AuthProofs ------------------------------
(***************************************************************************)
(* The lock, the sessions and the passwords of an account, for any number  *)
(* of requests at the same time, browsers, sessions, passwords and links.  *)
(***************************************************************************)
EXTENDS AuthSession, TLAPS

ServingIsMap == serving \in [AuthRequest -> Serving \cup {NotServing}]

(* Two requests in service have met. *)
MetEachOther == \A r, q \in InService : r # q => ClassOf(serving[q].op) \subseteq serving[r].met

(* Before the account exists nobody can change its password. *)
NoAccountYet ==
  account.status = "none" =>
    /\ chosen = 0 /\ account.reset = 0
    /\ \A r \in InService : serving[r].op \notin PasswordOps \cup {"forgot"}

(* A sign-in knows the password chosen last, or has met the change. *)
ChosenIsKnown ==
  /\ chosen <= account.password
  /\ \A r \in InService : serving[r].op \in SignInOps =>
       "password" \in serving[r].met \/ serving[r].since >= chosen

(* A sign-in that has met no other finds no session when it creates one,   *)
(* and answers with a token.                                               *)
CreatesAlone ==
  \A r \in AuthRequest :
    /\ At(r, SignInOps, "create") => "session" \in serving[r].met \/ sessions = {}
    /\ At(r, SignInOps, "respond") => serving[r].arg \in 1..MaxSessions

(* Tokens under way are those of the only session. *)
SettledIsSole ==
  settled # NoOne => \E s \in sessions :
    /\ sessions = {s}
    /\ \/ cookie[settled] = s.token
       \/ \E r \in AuthRequest : At(r, SignInOps, "respond")
    /\ \A r \in AuthRequest : At(r, SignInOps, "respond") =>
         serving[r].client = settled /\ serving[r].arg = s.token

Writing(r) == At(r, {"login"}, "write") \/ At(r, {"login"}, "rewrite")

(* Who is about to write over a lock has met it. *)
LockIsMet == account.locked => \A r \in AuthRequest : Writing(r) => "lock" \in serving[r].met

AuthInv ==
  /\ AuthTypeOK /\ ServingIsMap /\ MetEachOther /\ NoAccountYet /\ ChosenIsKnown
  /\ SessionsEndWithPassword /\ CreatesAlone /\ SettledIsSole /\ LockIsMet

LEMMA AuthInvGives == AuthInv => SessionsEndWithPassword /\ SoleSession
BY DEF AuthInv, SettledIsSole, SoleSession

LEMMA InitAuthInv == AuthInit => AuthInv
<1> SUFFICES ASSUME AuthInit PROVE AuthInv
  OBVIOUS
<1> USE AuthAssumption DEF AuthInit
<1>1. InService = {} /\ \A r \in AuthRequest : serving[r] = NotServing
  BY DEF InService
<1>2. account \in Account
  BY DEF Account, Status
<1>3. AuthTypeOK
  BY <1>1, <1>2 DEF AuthTypeOK
<1>4. ServingIsMap
  BY DEF ServingIsMap
<1>5. MetEachOther /\ NoAccountYet /\ ChosenIsKnown
  BY <1>1 DEF MetEachOther, NoAccountYet, ChosenIsKnown
<1>6. SessionsEndWithPassword /\ CreatesAlone /\ SettledIsSole /\ LockIsMet
  BY <1>1 DEF SessionsEndWithPassword, CreatesAlone, SettledIsSole, LockIsMet, At
<1> QED BY <1>3, <1>4, <1>5, <1>6 DEF AuthInv

-----------------------------------------------------------------------------
LEMMA NotServingApart == \A x \in Serving : x # NotServing
BY DEF Serving, NotServing, Ops, SignInOps, PasswordOps

(* A request moves on, keeping what it is. *)
LEMMA MoveServing ==
  ASSUME AuthInv, NEW r \in AuthRequest, serving[r] # NotServing, NEW x \in Serving,
         serving' = [serving EXCEPT ![r] = x],
         x.op = serving[r].op, x.client = serving[r].client, x.since = serving[r].since,
         x.met = serving[r].met
  PROVE  /\ ServingIsMap' /\ MetEachOther' /\ InService' = InService
         /\ \A q \in AuthRequest : serving'[q] = IF q = r THEN x ELSE serving[q]
         /\ \A q \in AuthRequest : serving'[q] = NotServing \/ serving'[q] \in Serving
<1>1. \A q \in AuthRequest : serving'[q] = IF q = r THEN x ELSE serving[q]
  BY DEF AuthInv, ServingIsMap
<1>2. ServingIsMap'
  BY DEF AuthInv, ServingIsMap
<1>3. InService' = InService
  BY <1>1, NotServingApart DEF InService
<1>4. MetEachOther'
  BY <1>1, <1>3 DEF AuthInv, MetEachOther, InService
<1> QED BY <1>1, <1>2, <1>3, <1>4 DEF ServingIsMap

(* A request ends. *)
LEMMA EndServing ==
  ASSUME AuthInv, NEW r \in AuthRequest, End(r)
  PROVE  /\ ServingIsMap' /\ MetEachOther' /\ InService' = InService \ {r}
         /\ \A q \in AuthRequest : serving'[q] = IF q = r THEN NotServing ELSE serving[q]
         /\ \A q \in AuthRequest : serving'[q] = NotServing \/ serving'[q] \in Serving
<1>1. \A q \in AuthRequest : serving'[q] = IF q = r THEN NotServing ELSE serving[q]
  BY DEF AuthInv, ServingIsMap, End
<1>2. ServingIsMap'
  BY DEF AuthInv, ServingIsMap, End
<1>3. InService' = InService \ {r}
  BY <1>1 DEF InService
<1>4. MetEachOther'
  <2> SUFFICES ASSUME NEW a \in InService', NEW b \in InService', a # b
               PROVE  ClassOf(serving'[b].op) \subseteq serving'[a].met
    BY DEF MetEachOther
  <2>1. a \in InService /\ b \in InService /\ serving'[a] = serving[a] /\ serving'[b] = serving[b]
    BY <1>1, <1>3 DEF InService
  <2> QED BY <2>1 DEF AuthInv, MetEachOther
<1> QED BY <1>1, <1>2, <1>3, <1>4 DEF ServingIsMap

(* A request arrives. *)
LEMMA ArriveKeeps ==
  ASSUME AuthInv, UNCHANGED scope, NEW r \in AuthRequest, NEW op \in Ops, NEW step \in {"read", "write", "revoke"},
         NEW c \in Client, NEW arg \in 0..(MaxPasswords + MaxSessions + MaxLinks),
         op \in PasswordOps \cup {"forgot"} => account.status # "none",
         op = "login" => step = "read", op \in PasswordOps => step = "read",
         Arrive(r, op, step, c, arg)
  PROVE  AuthInv'
<1> DEFINE x == [op |-> op, step |-> step, client |-> c, arg |-> arg, read |-> 0,
                 since |-> account.password, met |-> UNION {ClassOf(serving[p].op) : p \in InService}]
           y(q) == [serving[q] EXCEPT !.met = @ \cup ClassOf(op)]
<1>1. /\ serving[r] = NotServing
      /\ serving' = [q \in AuthRequest |-> IF q = r THEN x ELSE IF q \in InService THEN y(q) ELSE NotServing]
      /\ UNCHANGED <<account, sessions, issued, links, cookie, settled, chosen>>
  BY DEF Arrive
<1>2. ASSUME NEW o PROVE ClassOf(o) \in SUBSET {"session", "password", "lock"}
  BY DEF ClassOf
<1>3. /\ x \in Serving /\ x.op = op /\ x.step = step /\ x.since = account.password
      /\ x.met = UNION {ClassOf(serving[p].op) : p \in InService}
  <2>1. UNION {ClassOf(serving[p].op) : p \in InService} \in SUBSET {"session", "password", "lock"}
    BY <1>2
  <2>2. account.password \in 0..MaxPasswords /\ 0 \in 0..MaxFailures
    BY AuthAssumption DEF AuthInv, AuthTypeOK, Account
  <2> QED BY <2>1, <2>2 DEF Serving
<1>4. ASSUME NEW q \in InService
      PROVE  /\ y(q) \in Serving /\ y(q).op = serving[q].op /\ y(q).step = serving[q].step
             /\ y(q).client = serving[q].client /\ y(q).arg = serving[q].arg
             /\ y(q).since = serving[q].since /\ y(q).met = serving[q].met \cup ClassOf(op)
  <2>1. serving[q] \in Serving
    BY DEF InService, AuthInv, AuthTypeOK
  <2>2. serving[q].met \cup ClassOf(op) \in SUBSET {"session", "password", "lock"}
    BY <1>2, <2>1 DEF Serving
  <2> QED BY <2>1, <2>2 DEF Serving
<1> HIDE DEF x, y
<1>5. \A q \in AuthRequest : serving'[q] = IF q = r THEN x ELSE IF q \in InService THEN y(q) ELSE NotServing
  BY <1>1
<1>6. InService' = InService \cup {r} /\ r \notin InService
  BY <1>1, <1>3, <1>4, <1>5, NotServingApart DEF InService
<1>7. ServingIsMap' /\ AuthTypeOK'
  BY <1>1, <1>3, <1>4, <1>5 DEF ServingIsMap, AuthInv, AuthTypeOK
<1>8. MetEachOther'
  <2> SUFFICES ASSUME NEW a \in InService', NEW b \in InService', a # b
               PROVE  ClassOf(serving'[b].op) \subseteq serving'[a].met
    BY DEF MetEachOther
  <2>1. CASE a = r
    BY <1>3, <1>4, <1>5, <1>6, <2>1 DEF InService
  <2>2. CASE b = r
    BY <1>3, <1>4, <1>5, <1>6, <2>2 DEF InService
  <2>3. CASE a # r /\ b # r
    BY <1>4, <1>5, <1>6, <2>3 DEF InService, AuthInv, MetEachOther
  <2> QED BY <2>1, <2>2, <2>3
<1>9. NoAccountYet' /\ ChosenIsKnown'
  BY <1>1, <1>3, <1>4, <1>5, <1>6, AuthAssumption DEF AuthInv, AuthTypeOK, Account, NoAccountYet, ChosenIsKnown, InService
<1>10. \A q \in AuthRequest :
         /\ At(q, SignInOps, "create")' = At(q, SignInOps, "create")
         /\ At(q, SignInOps, "respond")' = At(q, SignInOps, "respond")
         /\ Writing(q)' => Writing(q)
  <2> SUFFICES ASSUME NEW q \in AuthRequest
               PROVE  /\ At(q, SignInOps, "create")' = At(q, SignInOps, "create")
                      /\ At(q, SignInOps, "respond")' = At(q, SignInOps, "respond")
                      /\ Writing(q)' => Writing(q)
    OBVIOUS
  <2>1. CASE q = r
    BY <1>1, <1>3, <1>5, <2>1 DEF At, Writing
  <2>2. CASE q # r /\ q \in InService
    BY <1>4, <1>5, <2>2, NotServingApart DEF At, Writing, InService
  <2>3. CASE q # r /\ q \notin InService
    BY <1>5, <2>3 DEF At, Writing, InService
  <2> QED BY <2>1, <2>2, <2>3
<1>11. \A q \in InService : serving'[q].client = serving[q].client /\ serving'[q].arg = serving[q].arg
                            /\ serving[q].met \subseteq serving'[q].met
  BY <1>1, <1>4, <1>5 DEF InService
<1>12. \A q \in AuthRequest : \A o, t : At(q, o, t) => q \in InService
  BY DEF At, InService
<1>13. SessionsEndWithPassword'
  BY <1>1, <1>10 DEF AuthInv, SessionsEndWithPassword
<1>14. CreatesAlone' /\ LockIsMet'
  BY <1>1, <1>10, <1>11, <1>12 DEF AuthInv, CreatesAlone, LockIsMet, Writing
<1>15. SettledIsSole'
  BY <1>1, <1>10, <1>11, <1>12 DEF AuthInv, SettledIsSole
<1> QED BY <1>7, <1>8, <1>9, <1>13, <1>14, <1>15 DEF AuthInv

(* A request has read, and goes on to a write. *)
LEMMA ReadKeeps ==
  ASSUME AuthInv, UNCHANGED <<scope, account, sessions, issued, links, cookie, settled, chosen>>,
         NEW r \in AuthRequest, serving[r] # NotServing, serving[r].step \in {"read", "again"},
         NEW x \in Serving, serving' = [serving EXCEPT ![r] = x],
         x.op = serving[r].op, x.client = serving[r].client, x.since = serving[r].since,
         x.met = serving[r].met, x.step \in {"write", "rewrite", "rotate"},
         x.op = "login" => ~account.locked
  PROVE  AuthInv'
<1>1. /\ ServingIsMap' /\ MetEachOther' /\ InService' = InService
      /\ \A q \in AuthRequest : serving'[q] = IF q = r THEN x ELSE serving[q]
      /\ \A q \in AuthRequest : serving'[q] = NotServing \/ serving'[q] \in Serving
  BY MoveServing
<1>2. AuthTypeOK'
  BY <1>1 DEF AuthInv, AuthTypeOK
<1>3. NoAccountYet' /\ ChosenIsKnown'
  BY <1>1 DEF AuthInv, NoAccountYet, ChosenIsKnown
<1>4. \A q \in AuthRequest :
        /\ At(q, SignInOps, "create")' = At(q, SignInOps, "create")
        /\ At(q, SignInOps, "respond")' = At(q, SignInOps, "respond")
  BY <1>1 DEF At
<1>5. SessionsEndWithPassword'
  BY <1>4 DEF AuthInv, SessionsEndWithPassword
<1>6. CreatesAlone'
  BY <1>1, <1>4 DEF AuthInv, CreatesAlone, At
<1>7. SettledIsSole'
  BY <1>1, <1>4 DEF AuthInv, SettledIsSole, At
<1>8. LockIsMet'
  BY <1>1 DEF AuthInv, LockIsMet, Writing, At
<1> QED BY <1>1, <1>2, <1>3, <1>5, <1>6, <1>7, <1>8 DEF AuthInv

(* A request ends without a word to the sessions. *)
LEMMA EndKeeps ==
  ASSUME AuthInv, UNCHANGED <<scope, sessions, issued, cookie, settled, chosen>>,
         NEW r \in AuthRequest, serving[r] # NotServing, serving[r].op \in SignInOps => serving[r].step # "respond",
         End(r), account' \in Account, links' \in 0..MaxLinks,
         account'.password = account.password, account'.locked = account.locked,
         account'.status = "none" => account.status = "none" /\ (account'.reset = account.reset \/ serving[r].op = "forgot")
  PROVE  AuthInv'
<1>1. /\ ServingIsMap' /\ MetEachOther' /\ InService' = InService \ {r}
      /\ \A q \in AuthRequest : serving'[q] = IF q = r THEN NotServing ELSE serving[q]
      /\ \A q \in AuthRequest : serving'[q] = NotServing \/ serving'[q] \in Serving
  BY EndServing
<1>2. AuthTypeOK'
  BY <1>1 DEF AuthInv, AuthTypeOK
<1>3. ChosenIsKnown'
  <2>1. \A q \in InService' : q \in InService /\ serving'[q] = serving[q]
    BY <1>1 DEF InService
  <2>2. \A q \in InService' : serving'[q].op \in SignInOps =>
         "password" \in serving'[q].met \/ serving'[q].since >= chosen'
    BY <2>1 DEF AuthInv, ChosenIsKnown
  <2>3. chosen' <= account'.password
    BY DEF AuthInv, ChosenIsKnown
  <2> QED BY <2>2, <2>3 DEF ChosenIsKnown
<1>4. NoAccountYet'
  BY <1>1 DEF AuthInv, NoAccountYet, InService
<1>5. \A q \in AuthRequest :
        /\ At(q, SignInOps, "create")' => At(q, SignInOps, "create") /\ q # r
        /\ At(q, SignInOps, "respond")' = At(q, SignInOps, "respond")
        /\ At(q, SignInOps, "respond") => q # r
        /\ Writing(q)' => Writing(q) /\ q # r
  BY <1>1 DEF At, Writing
<1>6. SessionsEndWithPassword'
  BY <1>5 DEF AuthInv, SessionsEndWithPassword
<1>7. CreatesAlone' /\ LockIsMet'
  BY <1>1, <1>5 DEF AuthInv, CreatesAlone, LockIsMet
<1>8. SettledIsSole'
  BY <1>1, <1>5 DEF AuthInv, SettledIsSole
<1> QED BY <1>1, <1>2, <1>3, <1>4, <1>6, <1>7, <1>8 DEF AuthInv

LEMMA RefuseKeeps ==
  ASSUME AuthInv, UNCHANGED scope, NEW r \in AuthRequest, serving[r] # NotServing,
         serving[r].op \in SignInOps => serving[r].step # "respond", Refuse(r)
  PROVE  AuthInv'
BY EndKeeps DEF Refuse, AuthInv, AuthTypeOK

-----------------------------------------------------------------------------
(* The account's row changes, and no request with it. *)
LEMMA RowKeeps ==
  ASSUME AuthInv, UNCHANGED <<scope, sessions, issued, links, serving, cookie, settled, chosen>>,
         account' \in Account, account'.password >= account.password,
         account'.locked => account.locked,
         account'.status = "none" => account.status = "none" /\ account'.reset \in {0, account.reset}
  PROVE  AuthInv'
<1>1. AuthTypeOK' /\ ServingIsMap' /\ MetEachOther'
  BY DEF AuthInv, AuthTypeOK, ServingIsMap, MetEachOther, InService
<1>2. NoAccountYet'
  BY DEF AuthInv, NoAccountYet, InService
<1>3. ChosenIsKnown'
  <2>1. /\ chosen \in Nat /\ account.password \in Nat /\ account'.password \in Nat
        /\ chosen <= account.password
    BY AuthAssumption DEF AuthInv, AuthTypeOK, Account, ChosenIsKnown
  <2>2. \A r \in InService' : serving'[r].op \in SignInOps =>
         "password" \in serving'[r].met \/ serving'[r].since >= chosen'
    BY DEF AuthInv, ChosenIsKnown, InService
  <2> QED BY <2>1, <2>2 DEF ChosenIsKnown
<1>4. SessionsEndWithPassword' /\ CreatesAlone' /\ SettledIsSole' /\ LockIsMet'
  BY DEF AuthInv, SessionsEndWithPassword, CreatesAlone, SettledIsSole, LockIsMet, Writing, At
<1> QED BY <1>1, <1>2, <1>3, <1>4 DEF AuthInv

LEMMA TimeAndAdminKeep ==
  ASSUME AuthInv, UNCHANGED scope,
         \/ LockPasses \/ ResetLinkExpires
         \/ \E status \in {"ACTIVE", "INACTIVE"}, password \in 1..MaxPasswords : UpdateUser(status, password)
  PROVE  AuthInv'
<1>1. account \in Account
  BY DEF AuthInv, AuthTypeOK
<1>2. CASE LockPasses
  <2>1. account' \in Account /\ account'.password = account.password /\ account'.locked = FALSE
        /\ account'.status = account.status /\ account'.reset = account.reset
    BY <1>1, <1>2 DEF LockPasses, Account
  <2>2. UNCHANGED <<scope, sessions, issued, links, serving, cookie, settled, chosen>>
    BY <1>2 DEF LockPasses
  <2> QED BY <1>1, <2>1, <2>2, RowKeeps DEF Account
<1>3. CASE ResetLinkExpires
  <2>1. account' \in Account /\ account'.password = account.password /\ account'.locked = account.locked
        /\ account'.status = account.status /\ account'.reset = 0
    BY <1>1, <1>3, AuthAssumption DEF ResetLinkExpires, Account
  <2>2. UNCHANGED <<scope, sessions, issued, links, serving, cookie, settled, chosen>>
    BY <1>3 DEF ResetLinkExpires
  <2> QED BY <1>1, <2>1, <2>2, RowKeeps DEF Account
<1>4. ASSUME NEW status \in {"ACTIVE", "INACTIVE"}, NEW password \in 1..MaxPasswords, UpdateUser(status, password)
      PROVE  AuthInv'
  <2>3. account' = [account EXCEPT !.status = status, !.password = password]
    BY <1>4 DEF UpdateUser
  <2>6. password \in {account.password, account.password + 1}
    BY <1>4 DEF UpdateUser
  <2>7. account.password \in 0..MaxPasswords
    BY <1>1 DEF Account
  <2>4. password \in {account.password, account.password + 1} /\ account.password \in Nat
    BY <2>6, <2>7, AuthAssumption
  <2>5. password \in 0..MaxPasswords /\ password >= account.password /\ status \in Status
    BY <2>4, AuthAssumption DEF Status
  <2>1. /\ account' \in Account /\ account'.password = password /\ account'.locked = account.locked
        /\ account'.status = status /\ password >= account.password
    BY <1>1, <2>3, <2>5 DEF Account
  <2>2. UNCHANGED <<scope, sessions, issued, links, serving, cookie, settled, chosen>>
    BY <1>4 DEF UpdateUser
  <2> QED BY <1>1, <2>1, <2>2, RowKeeps
<1> QED BY <1>2, <1>3, <1>4

(* A sign-in writes its outcome.  It may lift a lock that it has met. *)
LEMMA RightPasswordKeeps ==
  ASSUME AuthInv, UNCHANGED scope, NEW r \in AuthRequest, WriteAttempt(r), RightPassword(r)
  PROVE  AuthInv'
<1> DEFINE x == [serving[r] EXCEPT !.step = IF @ = "write" THEN "again" ELSE "rotate", !.read = 0]
<1>1. /\ serving[r] \in Serving /\ serving[r].op = "login" /\ serving[r].step \in {"write", "rewrite"}
      /\ UNCHANGED <<scope, sessions, issued, links, cookie, settled, chosen>>
      /\ account \in Account
  BY DEF WriteAttempt, At, AuthInv, AuthTypeOK
<1>2. /\ x \in Serving /\ x.op = "login" /\ x.client = serving[r].client /\ x.since = serving[r].since
      /\ x.met = serving[r].met /\ x.step \in {"again", "rotate"}
  <2>1. 0 \in 0..MaxFailures
    BY AuthAssumption
  <2>2. \A t \in {"again", "rotate"} : [serving[r] EXCEPT !.step = t, !.read = 0] \in Serving
    BY <1>1, <2>1 DEF Serving
  <2>3. (IF serving[r].step = "write" THEN "again" ELSE "rotate") \in {"again", "rotate"}
    OBVIOUS
  <2>4. x \in Serving
    BY <2>2, <2>3
  <2> QED BY <1>1, <2>4 DEF Serving
<1>3. account' = [account EXCEPT !.failed = 0, !.locked = FALSE] /\ serving' = [serving EXCEPT ![r] = x]
  BY <1>1 DEF RightPassword, AuthInv, ServingIsMap
<1> HIDE DEF x
<1>4. /\ account' \in Account /\ account'.password = account.password /\ account'.status = account.status
      /\ account'.reset = account.reset /\ account'.locked = FALSE
  <2>1. 0 \in 0..MaxFailures
    BY AuthAssumption
  <2>2. account' \in Account
    BY <1>1, <1>3, <2>1 DEF Account
  <2> QED BY <1>1, <1>3, <2>2 DEF Account
<1>5. /\ ServingIsMap' /\ MetEachOther' /\ InService' = InService
      /\ \A q \in AuthRequest : serving'[q] = IF q = r THEN x ELSE serving[q]
      /\ \A q \in AuthRequest : serving'[q] = NotServing \/ serving'[q] \in Serving
  BY <1>1, <1>2, <1>3, MoveServing, NotServingApart
<1>6. AuthTypeOK'
  BY <1>1, <1>4, <1>5 DEF AuthInv, AuthTypeOK
<1>7. NoAccountYet' /\ ChosenIsKnown'
  <2>1. \A q \in InService' : serving'[q].op = serving[q].op /\ serving'[q].met = serving[q].met
                              /\ serving'[q].since = serving[q].since
    BY <1>1, <1>2, <1>5 DEF InService
  <2> QED BY <1>1, <1>4, <1>5, <2>1 DEF AuthInv, NoAccountYet, ChosenIsKnown
<1>8. \A q \in AuthRequest :
        /\ At(q, SignInOps, "create")' = At(q, SignInOps, "create")
        /\ At(q, SignInOps, "respond")' = At(q, SignInOps, "respond")
  BY <1>1, <1>2, <1>5 DEF At
<1>9. SessionsEndWithPassword' /\ LockIsMet'
  BY <1>1, <1>4, <1>8 DEF AuthInv, SessionsEndWithPassword, LockIsMet
<1>10. CreatesAlone'
  BY <1>1, <1>2, <1>5, <1>8 DEF AuthInv, CreatesAlone, At
<1>11. SettledIsSole'
  BY <1>1, <1>2, <1>5, <1>8 DEF AuthInv, SettledIsSole, At
<1> QED BY <1>5, <1>6, <1>7, <1>9, <1>10, <1>11 DEF AuthInv

LEMMA WrongPasswordKeeps ==
  ASSUME AuthInv, UNCHANGED scope, NEW r \in AuthRequest, WriteAttempt(r), WrongPassword(r)
  PROVE  AuthInv'
<1> DEFINE failed == serving[r].read + 1
           y(q) == [serving[q] EXCEPT !.met = @ \cup {"lock"}]
           meets(q) == Writing(q) /\ account'.locked
<1>1. /\ serving[r] \in Serving /\ Writing(r)
      /\ UNCHANGED <<scope, sessions, issued, links, cookie, settled, chosen>>
      /\ account \in Account /\ scope \in Scopes
      /\ failed <= scope.failures
      /\ account' = [account EXCEPT !.failed = failed, !.locked = failed >= LockThreshold]
      /\ serving' = [q \in AuthRequest |-> IF q = r THEN NotServing ELSE IF meets(q) THEN y(q) ELSE serving[q]]
  BY DEF WriteAttempt, WrongPassword, Writing, At, AuthInv, AuthTypeOK
<1>2. failed \in 0..MaxFailures
  BY <1>1, AuthAssumption DEF Serving, Scopes
<1>3. /\ account' \in Account /\ account'.password = account.password /\ account'.status = account.status
      /\ account'.reset = account.reset
  <2>1. \A b \in BOOLEAN : [account EXCEPT !.failed = failed, !.locked = b] \in Account
    BY <1>1, <1>2 DEF Account
  <2>2. (failed >= LockThreshold) \in BOOLEAN
    OBVIOUS
  <2> QED BY <1>1, <2>1, <2>2 DEF Account
<1>4. ASSUME NEW q \in InService
      PROVE  /\ y(q) \in Serving /\ y(q).op = serving[q].op /\ y(q).step = serving[q].step
             /\ y(q).client = serving[q].client /\ y(q).arg = serving[q].arg
             /\ y(q).since = serving[q].since /\ y(q).met = serving[q].met \cup {"lock"}
  <2>1. serving[q] \in Serving
    BY DEF InService, AuthInv, AuthTypeOK
  <2> QED BY <2>1 DEF Serving
<1> HIDE DEF y, meets, failed
<1>5. \A q \in AuthRequest : serving'[q] = IF q = r THEN NotServing ELSE IF meets(q) THEN y(q) ELSE serving[q]
  BY <1>1
<1>6. \A q \in AuthRequest : meets(q) => q \in InService
  BY DEF meets, Writing, At, InService
<1>7. InService' = InService \ {r}
  BY <1>4, <1>5, <1>6, NotServingApart DEF InService
<1>8. \A q \in InService' :
        /\ serving'[q] \in Serving
        /\ serving'[q].op = serving[q].op /\ serving'[q].step = serving[q].step
        /\ serving'[q].client = serving[q].client /\ serving'[q].arg = serving[q].arg
        /\ serving'[q].since = serving[q].since /\ serving[q].met \subseteq serving'[q].met
        /\ meets(q) => "lock" \in serving'[q].met
  BY <1>4, <1>5, <1>6, <1>7 DEF InService, AuthInv, AuthTypeOK
<1>9. ServingIsMap' /\ AuthTypeOK'
  <2>1. \A q \in AuthRequest : serving'[q] = NotServing \/ serving'[q] \in Serving
    BY <1>8 DEF InService
  <2> QED BY <1>1, <1>3, <2>1 DEF ServingIsMap, AuthInv, AuthTypeOK
<1>10. MetEachOther'
  BY <1>7, <1>8 DEF AuthInv, MetEachOther
<1>11. NoAccountYet' /\ ChosenIsKnown'
  BY <1>1, <1>3, <1>7, <1>8 DEF AuthInv, NoAccountYet, ChosenIsKnown
<1>12. \A q \in AuthRequest :
        /\ At(q, SignInOps, "create")' = At(q, SignInOps, "create")
        /\ At(q, SignInOps, "respond")' = At(q, SignInOps, "respond")
        /\ Writing(q)' => Writing(q)
  <2> SUFFICES ASSUME NEW q \in AuthRequest
               PROVE  /\ At(q, SignInOps, "create")' = At(q, SignInOps, "create")
                      /\ At(q, SignInOps, "respond")' = At(q, SignInOps, "respond")
                      /\ Writing(q)' => Writing(q)
    OBVIOUS
  <2>1. CASE q = r
    BY <1>1, <1>5, <2>1 DEF At, Writing
  <2>2. CASE q \in InService'
    BY <1>7, <1>8, <2>2 DEF At, Writing, InService
  <2>3. CASE q # r /\ q \notin InService'
    BY <1>7, <2>3 DEF At, Writing, InService
  <2> QED BY <2>1, <2>2, <2>3
<1>13. \A q \in AuthRequest : \A o, t : At(q, o, t)' => q \in InService'
  BY DEF At, InService
<1>14. SessionsEndWithPassword'
  BY <1>1, <1>12 DEF AuthInv, SessionsEndWithPassword
<1>15. CreatesAlone'
  BY <1>1, <1>8, <1>12, <1>13 DEF AuthInv, CreatesAlone
<1>16. SettledIsSole'
  BY <1>1, <1>8, <1>12, <1>13 DEF AuthInv, SettledIsSole
<1>17. LockIsMet'
  BY <1>8, <1>12, <1>13 DEF LockIsMet, Writing, meets
<1> QED BY <1>9, <1>10, <1>11, <1>14, <1>15, <1>16, <1>17 DEF AuthInv

-----------------------------------------------------------------------------
(* What GoTo makes of a request. *)
LEMMA GoToServing ==
  ASSUME AuthInv, NEW r \in AuthRequest, serving[r] # NotServing,
         NEW t \in {"write", "revoke", "rotate", "create", "respond"}, GoTo(r, t)
  PROVE  /\ ServingIsMap' /\ MetEachOther' /\ InService' = InService /\ r \in InService
         /\ \A q \in AuthRequest : q # r => serving'[q] = serving[q]
         /\ serving'[r] \in Serving /\ serving'[r].step = t
         /\ serving'[r].op = serving[r].op /\ serving'[r].client = serving[r].client
         /\ serving'[r].since = serving[r].since /\ serving'[r].met = serving[r].met
         /\ serving'[r].arg = serving[r].arg
         /\ \A q \in AuthRequest : serving'[q] = NotServing \/ serving'[q] \in Serving
<1> DEFINE x == [serving[r] EXCEPT !.step = t]
<1>1. serving[r] \in Serving
  BY DEF AuthInv, AuthTypeOK
<1>2. x \in Serving /\ x.op = serving[r].op /\ x.client = serving[r].client /\ x.since = serving[r].since
      /\ x.met = serving[r].met /\ x.arg = serving[r].arg /\ x.step = t
  BY <1>1 DEF Serving
<1>3. serving' = [serving EXCEPT ![r] = x]
  BY DEF GoTo, AuthInv, ServingIsMap
<1> HIDE DEF x
<1>4. /\ ServingIsMap' /\ MetEachOther' /\ InService' = InService
      /\ \A q \in AuthRequest : serving'[q] = IF q = r THEN x ELSE serving[q]
      /\ \A q \in AuthRequest : serving'[q] = NotServing \/ serving'[q] \in Serving
  BY <1>2, <1>3, MoveServing
<1>5. r \in InService
  BY DEF InService
<1> QED BY <1>2, <1>4, <1>5

LEMMA CreateAccountKeeps ==
  ASSUME AuthInv, UNCHANGED scope, NEW r \in AuthRequest, CreateAccount(r)
  PROVE  AuthInv'
<1>1. serving[r] # NotServing /\ serving[r].op = "register" /\ serving[r].step = "write"
  BY DEF CreateAccount, At
<1>2. CASE account.status # "none"
  BY <1>1, <1>2, RefuseKeeps DEF CreateAccount
<1>3. CASE account.status = "none"
  <2>1. /\ account' = [account EXCEPT !.status = "ACTIVE", !.password = 1] /\ GoTo(r, "rotate")
        /\ UNCHANGED <<scope, sessions, issued, links, cookie, settled, chosen>>
    BY <1>3 DEF CreateAccount
  <2>2. 1 \in 0..MaxPasswords /\ account \in Account
    BY AuthAssumption DEF AuthInv, AuthTypeOK
  <2>3. account' \in Account
    BY <2>1, <2>2 DEF Account, Status
  <2>4. account'.status = "ACTIVE" /\ account'.password = 1 /\ account'.locked = account.locked
    BY <2>1, <2>2 DEF Account
  <2>5. /\ ServingIsMap' /\ MetEachOther' /\ InService' = InService
        /\ \A q \in AuthRequest : q # r => serving'[q] = serving[q]
        /\ serving'[r].step = "rotate" /\ serving'[r].op = "register"
        /\ serving'[r].since = serving[r].since /\ serving'[r].met = serving[r].met
        /\ \A q \in AuthRequest : serving'[q] = NotServing \/ serving'[q] \in Serving
    <3>1. "rotate" \in {"write", "revoke", "rotate", "create", "respond"} /\ GoTo(r, "rotate")
      BY <2>1
    <3>2. /\ ServingIsMap' /\ MetEachOther' /\ InService' = InService
          /\ serving'[r].op = serving[r].op /\ serving'[r].step = "rotate"
          /\ serving'[r].since = serving[r].since /\ serving'[r].met = serving[r].met
      BY <1>1, <3>1, GoToServing
    <3>3. /\ \A q \in AuthRequest : q # r => serving'[q] = serving[q]
          /\ \A q \in AuthRequest : serving'[q] = NotServing \/ serving'[q] \in Serving
      BY <1>1, <3>1, GoToServing
    <3> QED BY <1>1, <3>2, <3>3
  <2>6. AuthTypeOK'
    BY <2>1, <2>3, <2>5 DEF AuthInv, AuthTypeOK
  <2>7. NoAccountYet'
    BY <2>4 DEF NoAccountYet
  <2>8. ChosenIsKnown'
    <3>1. chosen' <= account'.password
      BY <1>3, <2>1, <2>4 DEF AuthInv, NoAccountYet
    <3>2. \A q \in InService' : serving'[q].op = serving[q].op /\ serving'[q].met = serving[q].met
                                /\ serving'[q].since = serving[q].since
      BY <1>1, <2>5 DEF InService
    <3> QED BY <2>1, <2>5, <3>1, <3>2 DEF AuthInv, ChosenIsKnown
  <2>9. \A q \in AuthRequest :
          /\ At(q, SignInOps, "create")' => q # r /\ At(q, SignInOps, "create")
          /\ At(q, SignInOps, "respond")' = At(q, SignInOps, "respond")
          /\ At(q, SignInOps, "respond") => q # r
          /\ Writing(q)' => q # r /\ Writing(q)
    BY <1>1, <2>5 DEF At, Writing
  <2>10. SessionsEndWithPassword'
    BY <2>1, <2>9 DEF AuthInv, SessionsEndWithPassword
  <2>11. CreatesAlone' /\ LockIsMet'
    BY <2>1, <2>4, <2>5, <2>9 DEF AuthInv, CreatesAlone, LockIsMet
  <2>12. SettledIsSole'
    BY <2>1, <2>5, <2>9 DEF AuthInv, SettledIsSole
  <2> QED BY <2>5, <2>6, <2>7, <2>8, <2>10, <2>11, <2>12 DEF AuthInv
<1> QED BY <1>2, <1>3

(* The password is written; who signs in meanwhile has met it. *)
LEMMA WritePasswordKeeps ==
  ASSUME AuthInv, UNCHANGED scope, NEW r \in AuthRequest, WritePassword(r)
  PROVE  AuthInv'
<1>1. /\ serving[r] # NotServing /\ serving[r].op \in PasswordOps /\ serving[r].step = "write"
      /\ account.password < scope.passwords
      /\ GoTo(r, "revoke")
      /\ UNCHANGED <<scope, sessions, issued, links, cookie, settled, chosen>>
  BY DEF WritePassword, At
<1>2. account \in Account /\ scope \in Scopes
  BY DEF AuthInv, AuthTypeOK
<1>3. account.password + 1 \in 0..MaxPasswords /\ 0 \in 0..MaxLinks
  BY <1>1, <1>2, AuthAssumption DEF Account, Scopes
<1>4. PICK link \in 0..MaxLinks : account' = [account EXCEPT !.password = account.password + 1, !.reset = link]
  <2>1. account.reset \in 0..MaxLinks
    BY <1>2 DEF Account
  <2> QED BY <1>2, <1>3, <2>1 DEF WritePassword, Account
<1>5. account' \in Account
  BY <1>2, <1>3, <1>4 DEF Account
<1>6. account'.password = account.password + 1 /\ account'.locked = account.locked
      /\ account'.status = account.status
  BY <1>2, <1>4 DEF Account
<1>7. /\ ServingIsMap' /\ MetEachOther' /\ InService' = InService /\ r \in InService
      /\ \A q \in AuthRequest : q # r => serving'[q] = serving[q]
      /\ serving'[r].step = "revoke" /\ serving'[r].op = serving[r].op
      /\ serving'[r].since = serving[r].since /\ serving'[r].met = serving[r].met
      /\ serving'[r] # NotServing
      /\ \A q \in AuthRequest : serving'[q] = NotServing \/ serving'[q] \in Serving
  BY <1>1, GoToServing, NotServingApart
<1>8. AuthTypeOK'
  BY <1>1, <1>3, <1>5, <1>6, <1>7 DEF AuthInv, AuthTypeOK
<1>9. account.status # "none"
  BY <1>1, <1>7 DEF AuthInv, NoAccountYet
<1>10. ChosenIsKnown'
  <2>1. chosen' <= account'.password
    <3>1. account.password \in Nat /\ chosen \in Nat /\ chosen <= account.password
      BY <1>2, AuthAssumption DEF Account, AuthInv, AuthTypeOK, ChosenIsKnown
    <3> QED BY <1>1, <1>6, <3>1
  <2>2. \A q \in InService' : /\ serving'[q].op = serving[q].op /\ serving'[q].met = serving[q].met
                              /\ serving'[q].since = serving[q].since
    BY <1>7 DEF InService
  <2> QED BY <1>1, <1>7, <2>1, <2>2 DEF AuthInv, ChosenIsKnown
<1>11. SessionsEndWithPassword'
  BY <1>1 DEF AuthInv, SessionsEndWithPassword
<1>12. \A q \in AuthRequest :
        /\ At(q, SignInOps, "create")' => q # r /\ At(q, SignInOps, "create")
        /\ At(q, SignInOps, "respond")' = At(q, SignInOps, "respond")
        /\ At(q, SignInOps, "respond") => q # r
        /\ Writing(q)' => q # r /\ Writing(q)
  BY <1>1, <1>7 DEF At, Writing
<1>13. NoAccountYet'
  BY <1>6, <1>9 DEF NoAccountYet
<1>14. CreatesAlone' /\ LockIsMet'
  BY <1>1, <1>6, <1>7, <1>12 DEF AuthInv, CreatesAlone, LockIsMet
<1>15. SettledIsSole'
  BY <1>1, <1>7, <1>12 DEF AuthInv, SettledIsSole
<1> QED BY <1>7, <1>8, <1>10, <1>11, <1>13, <1>14, <1>15 DEF AuthInv

(* A request throws or dies, between two statements too. *)
LEMMA HandlerFailureKeeps ==
  ASSUME AuthInv, UNCHANGED scope, NEW r \in AuthRequest, HandlerFails(r)
  PROVE  AuthInv'
BY RefuseKeeps DEF HandlerFails, InService, At

LEMMA LinksKeep ==
  ASSUME AuthInv, UNCHANGED scope, NEW r \in AuthRequest, WriteLink(r) \/ WriteVerified(r)
  PROVE  AuthInv'
<1>1. account \in Account /\ scope \in Scopes /\ links \in 0..MaxLinks
  BY DEF AuthInv, AuthTypeOK
<1>2. CASE WriteLink(r)
  <2>1. /\ serving[r] # NotServing /\ serving[r].op \in {"forgot", "resend"} /\ serving[r].step = "write"
        /\ links < scope.links /\ links' = links + 1 /\ End(r)
        /\ UNCHANGED <<scope, sessions, issued, cookie, settled, chosen>>
        /\ account' \in {[account EXCEPT !.reset = links'], [account EXCEPT !.verification = links']}
        /\ serving[r].op # "forgot" => account' = [account EXCEPT !.verification = links']
    BY <1>2 DEF WriteLink, At
  <2>2. links' \in 0..MaxLinks
    BY <1>1, <2>1, AuthAssumption DEF Scopes
  <2>3. account' \in Account
    BY <1>1, <2>1, <2>2 DEF Account
  <2>4. /\ account'.password = account.password /\ account'.locked = account.locked
        /\ account'.status = account.status
        /\ serving[r].op # "forgot" => account'.reset = account.reset
    BY <1>1, <2>1 DEF Account
  <2>5. account.status = "none" => serving[r].op # "forgot"
    BY <2>1 DEF AuthInv, NoAccountYet, InService
  <2> QED BY <2>1, <2>2, <2>3, <2>4, <2>5, EndKeeps
<1>3. CASE WriteVerified(r)
  <2>1. /\ serving[r] # NotServing /\ serving[r].step = "write" /\ End(r)
        /\ UNCHANGED <<scope, sessions, issued, links, cookie, settled, chosen>>
        /\ account' = [account EXCEPT !.verified = TRUE, !.verification = 0, !.status = "ACTIVE"]
    BY <1>3 DEF WriteVerified, At
  <2>2. 0 \in 0..MaxLinks
    BY AuthAssumption
  <2>3. account' \in Account
    BY <1>1, <2>1, <2>2 DEF Account, Status
  <2>4. /\ account'.password = account.password /\ account'.locked = account.locked
        /\ account'.status = "ACTIVE"
    BY <1>1, <2>1 DEF Account
  <2> QED BY <1>1, <2>1, <2>3, <2>4, EndKeeps
<1> QED BY <1>2, <1>3

-----------------------------------------------------------------------------
(* The sessions are replaced: deleted, created, and answered. *)
LEMMA RotateKeeps ==
  ASSUME AuthInv, UNCHANGED scope, NEW r \in AuthRequest, Rotate(r)
  PROVE  AuthInv'
<1>1. /\ serving[r] # NotServing /\ serving[r].op \in SignInOps /\ serving[r].step = "rotate"
      /\ sessions' = {} /\ settled' = NoOne /\ GoTo(r, "create")
      /\ UNCHANGED <<scope, account, issued, links, cookie, chosen>>
  BY DEF Rotate, Revoked, At
<1>2. /\ ServingIsMap' /\ MetEachOther' /\ InService' = InService /\ r \in InService
      /\ \A q \in AuthRequest : q # r => serving'[q] = serving[q]
      /\ serving'[r].step = "create" /\ serving'[r].op = serving[r].op
      /\ serving'[r].since = serving[r].since /\ serving'[r].met = serving[r].met
      /\ \A q \in AuthRequest : serving'[q] = NotServing \/ serving'[q] \in Serving
  BY <1>1, GoToServing
<1>3. AuthTypeOK'
  BY <1>1, <1>2 DEF AuthInv, AuthTypeOK
<1>4. NoAccountYet' /\ ChosenIsKnown'
  BY <1>1, <1>2 DEF AuthInv, NoAccountYet, ChosenIsKnown, InService
<1>5. SessionsEndWithPassword' /\ SettledIsSole'
  BY <1>1 DEF SessionsEndWithPassword, SettledIsSole
<1>7. CreatesAlone'
  BY <1>1, <1>2 DEF AuthInv, CreatesAlone, At
<1>6. LockIsMet'
  BY <1>1, <1>2 DEF AuthInv, LockIsMet, Writing, At
<1> QED BY <1>2, <1>3, <1>4, <1>5, <1>6, <1>7 DEF AuthInv

LEMMA CreateKeeps ==
  ASSUME AuthInv, UNCHANGED scope, NEW r \in AuthRequest, NEW token \in 1..MaxSessions, CreateSession(r, token)
  PROVE  AuthInv'
<1> DEFINE x == [serving[r] EXCEPT !.step = "respond", !.arg = token]
           crossed == "password" \in serving[r].met
           s == [id |-> issued + 1, token |-> token, since |-> serving[r].since, crossed |-> crossed]
<1>1. /\ serving[r] \in Serving /\ serving[r].op \in SignInOps /\ serving[r].step = "create"
      /\ serving[r] # NotServing /\ r \in InService
      /\ issued < scope.sessions /\ issued' = issued + 1 /\ sessions' = sessions \cup {s}
      /\ settled' = IF "session" \notin serving[r].met THEN serving[r].client ELSE NoOne
      /\ UNCHANGED <<scope, account, links, cookie, chosen>>
      /\ scope \in Scopes /\ issued \in 0..MaxSessions
  BY DEF CreateSession, At, AuthInv, AuthTypeOK, InService
<1>2. serving' = [serving EXCEPT ![r] = x]
  BY DEF CreateSession, AuthInv, ServingIsMap
<1>3. /\ token \in 0..(MaxPasswords + MaxSessions + MaxLinks) /\ issued + 1 \in 1..MaxSessions
  BY <1>1, AuthAssumption DEF Scopes
<1>4. /\ x \in Serving /\ x.op = serving[r].op /\ x.client = serving[r].client /\ x.since = serving[r].since
      /\ x.met = serving[r].met /\ x.step = "respond" /\ x.arg = token
  BY <1>1, <1>3 DEF Serving
<1>5. s \in Session
  <2>1. \A b \in BOOLEAN : [id |-> issued + 1, token |-> token, since |-> serving[r].since, crossed |-> b] \in Session
    BY <1>1, <1>3 DEF Session, Serving
  <2>2. crossed \in BOOLEAN
    OBVIOUS
  <2> QED BY <2>1, <2>2
<1>6. s.token = token /\ s.since = serving[r].since /\ (s.crossed <=> "password" \in serving[r].met)
  OBVIOUS
<1> HIDE DEF x, s, crossed
<1>7. /\ ServingIsMap' /\ MetEachOther' /\ InService' = InService
      /\ \A q \in AuthRequest : serving'[q] = IF q = r THEN x ELSE serving[q]
      /\ \A q \in AuthRequest : serving'[q] = NotServing \/ serving'[q] \in Serving
  BY <1>1, <1>2, <1>4, MoveServing
<1>8. AuthTypeOK'
  <2>1. settled' \in Client \cup {NoOne}
    BY <1>1 DEF Serving
  <2>2. sessions' \subseteq Session /\ issued' \in 0..MaxSessions
    BY <1>1, <1>3, <1>5 DEF AuthInv, AuthTypeOK
  <2> QED BY <1>1, <1>7, <2>1, <2>2 DEF AuthInv, AuthTypeOK
<1>9. NoAccountYet' /\ ChosenIsKnown'
  BY <1>1, <1>4, <1>7 DEF AuthInv, NoAccountYet, ChosenIsKnown, InService
<1>10. "password" \in serving[r].met \/ serving[r].since >= chosen
  BY <1>1 DEF AuthInv, ChosenIsKnown
<1>11. SessionsEndWithPassword'
  BY <1>1, <1>6, <1>10 DEF AuthInv, SessionsEndWithPassword
<1>12. \A q \in InService : q # r /\ serving[q].op \in SignInOps => "session" \in serving[r].met /\ "session" \in serving[q].met
  <2>1. \A q \in InService : serving[q].op \in SignInOps => "session" \in ClassOf(serving[q].op)
    BY DEF ClassOf
  <2> QED BY <1>1, <2>1 DEF AuthInv, MetEachOther
<1>13. CreatesAlone'
  <2>1. ASSUME NEW q \in AuthRequest, At(q, SignInOps, "create")' PROVE "session" \in serving'[q].met
    <3>1. q # r /\ q \in InService /\ serving'[q] = serving[q] /\ serving[q].op \in SignInOps
      BY <1>4, <1>7, <2>1 DEF At, InService
    <3> QED BY <1>12, <3>1
  <2>2. ASSUME NEW q \in AuthRequest, At(q, SignInOps, "respond")' PROVE serving'[q].arg \in 1..MaxSessions
    <3>1. CASE q = r
      BY <1>4, <1>7, <3>1
    <3>2. CASE q # r
      BY <1>7, <2>2, <3>2 DEF AuthInv, CreatesAlone, At
    <3> QED BY <3>1, <3>2
  <2> QED BY <2>1, <2>2 DEF CreatesAlone
<1>14. SettledIsSole'
  <2> SUFFICES ASSUME settled' # NoOne
               PROVE  /\ sessions' = {s} /\ settled' = serving[r].client
                      /\ At(r, SignInOps, "respond")'
                      /\ \A q \in AuthRequest : At(q, SignInOps, "respond")' =>
                           serving'[q].client = serving[r].client /\ serving'[q].arg = s.token
    BY DEF SettledIsSole
  <2>1. "session" \notin serving[r].met /\ settled' = serving[r].client
    BY <1>1
  <2>2. sessions' = {s}
    BY <1>1, <2>1 DEF AuthInv, CreatesAlone, At
  <2>3. \A q \in AuthRequest : At(q, SignInOps, "respond")' => q = r
    BY <1>7, <1>12, <2>1 DEF At, InService
  <2>4. At(r, SignInOps, "respond")' /\ serving'[r].client = serving[r].client /\ serving'[r].arg = s.token
    BY <1>1, <1>4, <1>6, <1>7, NotServingApart DEF At
  <2> QED BY <2>1, <2>2, <2>3, <2>4
<1>15. LockIsMet'
  BY <1>1, <1>4, <1>7 DEF AuthInv, LockIsMet, Writing, At
<1> QED BY <1>7, <1>8, <1>9, <1>11, <1>13, <1>14, <1>15 DEF AuthInv

(* What touches the sessions unsettles, and leaves no new one.  A password *)
(* that is chosen has been met by every sign-in in service.                *)
LEMMA UnsettleKeeps ==
  ASSUME AuthInv, UNCHANGED <<scope, account, issued, links>>,
         ServingIsMap', MetEachOther', InService' \subseteq InService,
         \A q \in AuthRequest : serving'[q] = NotServing \/ serving'[q] \in Serving,
         \A q \in InService' : /\ serving'[q].op = serving[q].op /\ serving'[q].met = serving[q].met
                               /\ serving'[q].since = serving[q].since
                               /\ serving'[q].arg = serving[q].arg
                               /\ \/ serving'[q].step = serving[q].step
                                  \/ serving'[q].step = "respond" /\ serving[q].op = "logout",
         sessions' \subseteq sessions,
         \/ chosen' = chosen
         \/ /\ chosen' = account.password /\ sessions' = {}
            /\ \E p \in InService \ InService' : serving[p].op \in PasswordOps,
         cookie' \in [Client -> 0..MaxSessions], settled' = NoOne
  PROVE  AuthInv'
<1>1. AuthTypeOK'
  BY DEF AuthInv, AuthTypeOK, Account
<1>2. NoAccountYet' /\ ChosenIsKnown' /\ SessionsEndWithPassword'
  <2>1. CASE chosen' = chosen
    BY <2>1 DEF AuthInv, NoAccountYet, ChosenIsKnown, SessionsEndWithPassword
  <2>2. CASE chosen' = account.password /\ sessions' = {} /\ \E p \in InService \ InService' : serving[p].op \in PasswordOps
    <3>1. PICK p \in InService : p \notin InService' /\ serving[p].op \in PasswordOps
      BY <2>2
    <3>2. account.status # "none"
      BY <3>1 DEF AuthInv, NoAccountYet
    <3>3. "password" \in ClassOf(serving[p].op)
      BY <3>1 DEF ClassOf, PasswordOps, SignInOps
    <3>4. \A q \in InService' : "password" \in serving'[q].met
      BY <3>1, <3>3 DEF AuthInv, MetEachOther
    <3>5. account.password \in Nat
      BY AuthAssumption DEF AuthInv, AuthTypeOK, Account
    <3>6. NoAccountYet'
      BY <3>2 DEF NoAccountYet
    <3>7. ChosenIsKnown'
      BY <2>2, <3>4, <3>5 DEF ChosenIsKnown
    <3>8. SessionsEndWithPassword'
      BY <2>2 DEF SessionsEndWithPassword
    <3> QED BY <3>6, <3>7, <3>8
  <2> QED BY <2>1, <2>2
<1>4. \A q \in AuthRequest : q \notin InService' => ~Writing(q)' /\ ~At(q, SignInOps, "create")'
  BY DEF Writing, At, InService
<1>5. CreatesAlone'
  <2>1. ASSUME NEW q \in AuthRequest, At(q, SignInOps, "create")' PROVE "session" \in serving'[q].met \/ sessions' = {}
    BY <1>4, <2>1 DEF AuthInv, CreatesAlone, At, InService
  <2>2. ASSUME NEW q \in AuthRequest, At(q, SignInOps, "respond")' PROVE serving'[q].arg \in 1..MaxSessions
    <3>1. At(q, SignInOps, "respond") /\ serving'[q].arg = serving[q].arg
      BY <2>2 DEF At, InService, SignInOps
    <3> QED BY <3>1 DEF AuthInv, CreatesAlone
  <2> QED BY <2>1, <2>2 DEF CreatesAlone
<1>6. LockIsMet'
  BY <1>4 DEF AuthInv, LockIsMet, Writing, At, InService
<1>7. SettledIsSole'
  BY DEF SettledIsSole
<1> QED BY <1>1, <1>2, <1>5, <1>6, <1>7 DEF AuthInv

LEMMA SessionsEndKeep ==
  ASSUME AuthInv, UNCHANGED scope,
         \/ \E r \in AuthRequest : LoseTokens(r) \/ RevokeOne(r) \/ RevokeAll(r)
         \/ \E s \in sessions : SessionExpires(s)
  PROVE  AuthInv'
<1>1. cookie \in [Client -> 0..MaxSessions]
  BY DEF AuthInv, AuthTypeOK
<1>2. ASSUME NEW r \in AuthRequest, LoseTokens(r) PROVE AuthInv'
  <2>1. /\ serving[r].step = "respond" /\ End(r) /\ settled' = NoOne
        /\ UNCHANGED <<scope, account, sessions, issued, links, cookie, chosen>>
    BY <1>2 DEF LoseTokens, At
  <2>2. /\ ServingIsMap' /\ MetEachOther' /\ InService' = InService \ {r}
        /\ \A q \in AuthRequest : serving'[q] = IF q = r THEN NotServing ELSE serving[q]
        /\ \A q \in AuthRequest : serving'[q] = NotServing \/ serving'[q] \in Serving
    BY <2>1, EndServing
  <2>3. \A q \in InService' : serving'[q] = serving[q]
    BY <2>2 DEF InService
  <2> QED BY <1>1, <2>1, <2>2, <2>3, UnsettleKeeps
<1>3. ASSUME NEW r \in AuthRequest, RevokeOne(r) PROVE AuthInv'
  <2>1. /\ serving[r] # NotServing /\ serving[r].op = "logout" /\ GoTo(r, "respond") /\ settled' = NoOne
        /\ sessions' \subseteq sessions
        /\ UNCHANGED <<scope, account, issued, links, cookie, chosen>>
    BY <1>3 DEF RevokeOne, At
  <2>2. /\ ServingIsMap' /\ MetEachOther' /\ InService' = InService /\ r \in InService
        /\ \A q \in AuthRequest : q # r => serving'[q] = serving[q]
        /\ serving'[r].step = "respond" /\ serving'[r].op = serving[r].op
        /\ serving'[r].arg = serving[r].arg
        /\ serving'[r].since = serving[r].since /\ serving'[r].met = serving[r].met
        /\ \A q \in AuthRequest : serving'[q] = NotServing \/ serving'[q] \in Serving
    BY <2>1, GoToServing
  <2>3. \A q \in InService' : /\ serving'[q].op = serving[q].op /\ serving'[q].met = serving[q].met
                              /\ serving'[q].since = serving[q].since
                              /\ serving'[q].arg = serving[q].arg
                              /\ \/ serving'[q].step = serving[q].step
                                 \/ serving'[q].step = "respond" /\ serving[q].op = "logout"
    <3> SUFFICES ASSUME NEW q \in InService'
                 PROVE  /\ serving'[q].op = serving[q].op /\ serving'[q].met = serving[q].met
                        /\ serving'[q].since = serving[q].since
                        /\ serving'[q].arg = serving[q].arg
                        /\ \/ serving'[q].step = serving[q].step
                           \/ serving'[q].step = "respond" /\ serving[q].op = "logout"
      OBVIOUS
    <3>1. CASE q = r
      BY <2>1, <2>2, <3>1
    <3>2. CASE q # r
      BY <2>2, <3>2 DEF InService
    <3> QED BY <3>1, <3>2
  <2> QED BY <1>1, <2>1, <2>2, <2>3, UnsettleKeeps
<1>4. ASSUME NEW r \in AuthRequest, RevokeAll(r) PROVE AuthInv'
  <2>1. /\ End(r) /\ settled' = NoOne /\ sessions' = {} /\ chosen' = account.password
        /\ serving[r] # NotServing /\ serving[r].op \in PasswordOps
        /\ UNCHANGED <<scope, account, issued, links, cookie>>
    BY <1>4 DEF RevokeAll, Revoked, At
  <2>2. /\ ServingIsMap' /\ MetEachOther' /\ InService' = InService \ {r}
        /\ \A q \in AuthRequest : serving'[q] = IF q = r THEN NotServing ELSE serving[q]
        /\ \A q \in AuthRequest : serving'[q] = NotServing \/ serving'[q] \in Serving
    BY <2>1, EndServing
  <2>3. \A q \in InService' : serving'[q] = serving[q]
    BY <2>2 DEF InService
  <2>4. r \in InService \ InService'
    BY <2>1, <2>2 DEF InService
  <2>5. \E p \in InService \ InService' : serving[p].op \in PasswordOps
    BY <2>1, <2>4
  <2> QED BY <1>1, <2>1, <2>2, <2>3, <2>5, UnsettleKeeps
<1>5. ASSUME NEW s \in sessions, SessionExpires(s) PROVE AuthInv'
  <2>1. /\ sessions' \subseteq sessions /\ settled' = NoOne
        /\ UNCHANGED <<scope, account, issued, links, serving, cookie, chosen>>
    BY <1>5 DEF SessionExpires
  <2>2. ServingIsMap' /\ MetEachOther' /\ InService' = InService
    BY <2>1 DEF AuthInv, ServingIsMap, MetEachOther, InService
  <2>3. \A q \in AuthRequest : serving'[q] = NotServing \/ serving'[q] \in Serving
    BY <2>1 DEF AuthInv, AuthTypeOK
  <2> QED BY <1>1, <2>1, <2>2, <2>3, UnsettleKeeps
<1> QED BY <1>2, <1>3, <1>4, <1>5

(* A response reaches its browser. *)
LEMMA ResponseKeeps ==
  ASSUME AuthInv, UNCHANGED scope, NEW r \in AuthRequest, ReceiveTokens(r) \/ ReceiveSignOut(r)
  PROVE  AuthInv'
<1> DEFINE c == serving[r].client
<1>1. /\ serving[r] # NotServing /\ serving[r] \in Serving /\ serving[r].step = "respond" /\ End(r)
      /\ UNCHANGED <<scope, account, sessions, issued, links, chosen>>
      /\ settled' \in {settled, NoOne}
      /\ cookie \in [Client -> 0..MaxSessions]
  BY DEF ReceiveTokens, ReceiveSignOut, At, AuthInv, AuthTypeOK
<1>2. /\ ServingIsMap' /\ MetEachOther' /\ InService' = InService \ {r}
      /\ \A q \in AuthRequest : serving'[q] = IF q = r THEN NotServing ELSE serving[q]
      /\ \A q \in AuthRequest : serving'[q] = NotServing \/ serving'[q] \in Serving
  BY <1>1, EndServing
<1>3. c \in Client
  BY <1>1 DEF Serving
<1>4. \A q \in InService' : q # r /\ q \in InService /\ serving'[q] = serving[q]
  BY <1>2 DEF InService
<1>5. \A q \in AuthRequest :
        /\ At(q, SignInOps, "create")' = At(q, SignInOps, "create")
        /\ At(q, SignInOps, "respond")' => q # r /\ At(q, SignInOps, "respond")
        /\ q # r /\ At(q, SignInOps, "respond") => At(q, SignInOps, "respond")'
        /\ Writing(q)' => q # r /\ Writing(q)
  BY <1>1, <1>2 DEF At, Writing
<1>6. NoAccountYet' /\ ChosenIsKnown'
  BY <1>1, <1>4 DEF AuthInv, NoAccountYet, ChosenIsKnown
<1>7. SessionsEndWithPassword'
  BY <1>1, <1>5 DEF AuthInv, SessionsEndWithPassword
<1>8. CreatesAlone' /\ LockIsMet'
  BY <1>1, <1>2, <1>5 DEF AuthInv, CreatesAlone, LockIsMet, At
<1>9. CASE ReceiveTokens(r)
  <2>1. /\ At(r, SignInOps, "respond") /\ cookie' = [cookie EXCEPT ![c] = serving[r].arg] /\ settled' = settled
    BY <1>9 DEF ReceiveTokens
  <2>2. SettledIsSole'
    <3> SUFFICES ASSUME settled # NoOne
                 PROVE  \E s \in sessions : /\ sessions = {s}
                          /\ cookie'[settled] = s.token
                          /\ \A q \in AuthRequest : At(q, SignInOps, "respond")' =>
                               serving'[q].client = settled /\ serving'[q].arg = s.token
      BY <1>1, <2>1 DEF SettledIsSole
    <3>1. PICK s \in sessions : /\ sessions = {s}
                                /\ \A q \in AuthRequest : At(q, SignInOps, "respond") =>
                                     serving[q].client = settled /\ serving[q].arg = s.token
      BY DEF AuthInv, SettledIsSole
    <3>2. cookie'[settled] = s.token
      BY <1>1, <1>3, <2>1, <3>1
    <3> QED BY <1>2, <1>5, <3>1, <3>2
  <2>3. cookie' \in [Client -> 0..MaxSessions]
    <3>1. serving[r].arg \in 0..MaxSessions
      BY <2>1, AuthAssumption DEF AuthInv, CreatesAlone
    <3> QED BY <1>1, <1>3, <2>1, <3>1
  <2>4. AuthTypeOK'
    BY <1>1, <1>2, <2>1, <2>3 DEF AuthInv, AuthTypeOK
  <2> QED BY <1>2, <1>6, <1>7, <1>8, <2>2, <2>4 DEF AuthInv
<1>10. CASE ReceiveSignOut(r)
  <2>1. /\ serving[r].op = "logout" /\ cookie' = [cookie EXCEPT ![c] = 0]
        /\ settled' = IF settled = c THEN NoOne ELSE settled
    BY <1>10 DEF ReceiveSignOut, At
  <2>2. SettledIsSole'
    <3> SUFFICES ASSUME settled # NoOne, settled # c, settled' = settled
                 PROVE  SettledIsSole'
      BY <2>1 DEF SettledIsSole
    <3>1. PICK s \in sessions : /\ sessions = {s}
                                /\ cookie[settled] = s.token \/ \E q \in AuthRequest : At(q, SignInOps, "respond")
                                /\ \A q \in AuthRequest : At(q, SignInOps, "respond") =>
                                     serving[q].client = settled /\ serving[q].arg = s.token
      BY DEF AuthInv, SettledIsSole
    <3>2. cookie'[settled] = cookie[settled]
      BY <1>1, <2>1 DEF AuthInv, AuthTypeOK
    <3>3. ~At(r, SignInOps, "respond")
      BY <2>1 DEF At, SignInOps
    <3>4. \A q \in AuthRequest : At(q, SignInOps, "respond") <=> At(q, SignInOps, "respond")'
      BY <1>5, <3>3
    <3> QED BY <1>1, <1>2, <1>5, <3>1, <3>2, <3>4 DEF SettledIsSole
  <2>3. cookie' \in [Client -> 0..MaxSessions]
    BY <1>1, <1>3, <2>1, AuthAssumption
  <2>4. AuthTypeOK'
    BY <1>1, <1>2, <2>3 DEF AuthInv, AuthTypeOK
  <2> QED BY <1>2, <1>6, <1>7, <1>8, <2>2, <2>4 DEF AuthInv
<1> QED BY <1>9, <1>10

-----------------------------------------------------------------------------
(* The first step of every request. *)
LEMMA RequestsKeep ==
  ASSUME AuthInv, UNCHANGED scope, NEW r \in AuthRequest, NEW c \in Client,
         \/ Register(r, c) \/ Refresh(r, c) \/ SignOut(r, c)
         \/ \E password \in {0, account.password} : SignIn(r, c, password) \/ ChangePassword(r, c, password)
         \/ ResetPassword(r, c) \/ VerifyEmail(r, c)
         \/ \E op \in {"forgot", "resend"} : AskLink(r, op, c)
  PROVE  AuthInv'
<1> DEFINE Arg == 0..(MaxPasswords + MaxSessions + MaxLinks)
<1>1. /\ 0 \in Arg /\ 1 \in Arg /\ account.password \in Arg /\ cookie[c] \in Arg
      /\ account.reset \in Arg /\ account.verification \in Arg
  BY AuthAssumption DEF AuthInv, AuthTypeOK, Account
<1> HIDE DEF Arg
<1>2. /\ "register" \in Ops /\ "refresh" \in Ops /\ "logout" \in Ops /\ "login" \in Ops /\ "change" \in Ops
      /\ "reset" \in Ops /\ "verify" \in Ops /\ "forgot" \in Ops /\ "resend" \in Ops
      /\ \A o \in {"register", "refresh", "logout", "login", "verify", "forgot", "resend"} : o \notin PasswordOps
  BY DEF Ops, SignInOps, PasswordOps
<1>3. ASSUME NEW op \in Ops, NEW step \in {"read", "write", "revoke"}, NEW arg \in Arg,
             op \in PasswordOps \cup {"forgot"} => account.status # "none",
             op = "login" => step = "read", op \in PasswordOps => step = "read", Arrive(r, op, step, c, arg)
      PROVE  AuthInv'
  BY <1>3, ArriveKeeps DEF Arg
<1>4. CASE Register(r, c) \/ Refresh(r, c) \/ SignOut(r, c) \/ VerifyEmail(r, c)
  BY <1>1, <1>2, <1>3, <1>4 DEF Register, Refresh, SignOut, VerifyEmail
<1>5. CASE \E password \in {0, account.password} : SignIn(r, c, password)
  BY <1>1, <1>2, <1>3, <1>5 DEF SignIn
<1>6. CASE \E password \in {0, account.password} : ChangePassword(r, c, password)
  BY <1>1, <1>2, <1>3, <1>6 DEF ChangePassword, Authenticated
<1>7. CASE ResetPassword(r, c)
  <2>1. account.status # "none"
    BY <1>7 DEF ResetPassword, AuthInv, NoAccountYet
  <2> QED BY <1>1, <1>2, <1>3, <1>7, <2>1 DEF ResetPassword
<1>8. CASE \E op \in {"forgot", "resend"} : AskLink(r, op, c)
  BY <1>1, <1>2, <1>3, <1>8 DEF AskLink
<1> QED BY <1>4, <1>5, <1>6, <1>7, <1>8

(* The reads: a request goes on or is refused. *)
LEMMA CredentialsKeep ==
  ASSUME AuthInv, UNCHANGED scope, NEW r \in AuthRequest, ReadCredentials(r)
  PROVE  AuthInv'
<1>1. /\ serving[r] # NotServing /\ serving[r] \in Serving /\ serving[r].op = "login"
      /\ serving[r].step \in {"read", "again"}
  BY DEF ReadCredentials, At, AuthInv, AuthTypeOK
<1>2. CASE ~MayTry
  BY <1>1, <1>2, RefuseKeeps DEF ReadCredentials
<1>3. CASE MayTry
  <2> DEFINE t == IF serving[r].step = "read" THEN "write" ELSE "rewrite"
             a == IF serving[r].arg = account.password THEN serving[r].arg ELSE 0
             x == [serving[r] EXCEPT !.step = t, !.read = account.failed, !.arg = a]
  <2>1. /\ serving' = [serving EXCEPT ![r] = x]
        /\ UNCHANGED <<account, sessions, issued, links, cookie, settled, chosen>>
    BY <1>1, <1>3 DEF ReadCredentials, AuthInv, ServingIsMap
  <2>2. /\ t \in {"write", "rewrite"} /\ account.failed \in 0..MaxFailures
        /\ a \in 0..(MaxPasswords + MaxSessions + MaxLinks)
    BY <1>1, AuthAssumption DEF AuthInv, AuthTypeOK, Account, Serving
  <2> HIDE DEF t, a
  <2>3. /\ x \in Serving /\ x.op = serving[r].op /\ x.client = serving[r].client
        /\ x.since = serving[r].since /\ x.met = serving[r].met /\ x.step = t
    BY <1>1, <2>2 DEF Serving
  <2>4. ~account.locked
    BY <1>3 DEF MayTry
  <2> HIDE DEF x
  <2> QED BY <1>1, <2>1, <2>2, <2>3, <2>4, ReadKeeps
<1> QED BY <1>2, <1>3

LEMMA ReadsKeep ==
  ASSUME AuthInv, UNCHANGED scope, NEW r \in AuthRequest,
         FindSession(r) \/ CheckOldPassword(r) \/ FindResetLink(r) \/ FindVerification(r)
  PROVE  AuthInv'
<1>1. /\ serving[r] # NotServing /\ serving[r] \in Serving /\ serving[r].op # "login" /\ serving[r].step = "read"
  BY DEF FindSession, CheckOldPassword, FindResetLink, FindVerification, At, AuthInv, AuthTypeOK
<1>2. \/ Refuse(r)
      \/ /\ GoTo(r, "rotate") \/ GoTo(r, "write")
         /\ UNCHANGED <<account, sessions, issued, links, cookie, settled, chosen>>
  BY DEF FindSession, CheckOldPassword, FindResetLink, FindVerification
<1>3. ASSUME NEW t \in {"rotate", "write"}, GoTo(r, t),
             UNCHANGED <<account, sessions, issued, links, cookie, settled, chosen>>
      PROVE  AuthInv'
  <2> DEFINE x == [serving[r] EXCEPT !.step = t]
  <2>1. serving' = [serving EXCEPT ![r] = x]
    BY <1>3 DEF GoTo, AuthInv, ServingIsMap
  <2>2. /\ x \in Serving /\ x.op = serving[r].op /\ x.client = serving[r].client
        /\ x.since = serving[r].since /\ x.met = serving[r].met /\ x.step = t
    BY <1>1 DEF Serving
  <2> HIDE DEF x
  <2> QED BY <1>1, <1>3, <2>1, <2>2, ReadKeeps
<1> QED BY <1>1, <1>2, <1>3, RefuseKeeps

LEMMA AuthStutterKeeps ==
  ASSUME AuthInv, UNCHANGED authVars
  PROVE  AuthInv'
BY DEF authVars, AuthInv, AuthTypeOK, ServingIsMap, MetEachOther, NoAccountYet, ChosenIsKnown,
   SessionsEndWithPassword, CreatesAlone, SettledIsSole, LockIsMet, Writing, At, InService

LEMMA AuthInvInductive == AuthInv /\ [AuthNext]_authVars => AuthInv'
<1> SUFFICES ASSUME AuthInv, [AuthNext]_authVars PROVE AuthInv'
  OBVIOUS
<1>1. CASE UNCHANGED authVars
  BY <1>1, AuthStutterKeeps
<1>2. CASE AuthStep /\ UNCHANGED scope
  <2>1. ASSUME NEW r \in AuthRequest, WriteAttempt(r) PROVE AuthInv'
    BY <1>2, <2>1, RightPasswordKeeps, WrongPasswordKeeps DEF WriteAttempt
  <2>2. CASE \E r \in AuthRequest, c \in Client :
       \/ Register(r, c) \/ Refresh(r, c) \/ SignOut(r, c)
       \/ \E password \in {0, account.password} : SignIn(r, c, password) \/ ChangePassword(r, c, password)
       \/ ResetPassword(r, c) \/ VerifyEmail(r, c)
       \/ \E op \in {"forgot", "resend"} : AskLink(r, op, c)
    BY <1>2, <2>2, RequestsKeep
  <2>3. ASSUME NEW r \in AuthRequest,
           \/ ReadCredentials(r) \/ CreateAccount(r)
           \/ FindSession(r) \/ CheckOldPassword(r) \/ FindResetLink(r) \/ FindVerification(r)
        PROVE AuthInv'
    BY <1>2, <2>3, CredentialsKeep, CreateAccountKeeps, ReadsKeep
  <2>4. ASSUME NEW r \in AuthRequest,
           \/ Rotate(r) \/ ReceiveTokens(r) \/ LoseTokens(r)
           \/ \E token \in 1..MaxSessions : CreateSession(r, token)
           \/ RevokeOne(r) \/ ReceiveSignOut(r) \/ WritePassword(r) \/ RevokeAll(r)
           \/ WriteLink(r) \/ WriteVerified(r) \/ HandlerFails(r)
        PROVE AuthInv'
    BY <1>2, <2>4, RotateKeeps, ResponseKeeps, SessionsEndKeep, CreateKeeps, WritePasswordKeeps, LinksKeep,
       HandlerFailureKeeps
  <2>5. CASE \E s \in sessions : SessionExpires(s)
    BY <1>2, <2>5, SessionsEndKeep
  <2>6. CASE \/ LockPasses \/ ResetLinkExpires
             \/ \E status \in {"ACTIVE", "INACTIVE"}, password \in 1..MaxPasswords : UpdateUser(status, password)
    BY <1>2, <2>6, TimeAndAdminKeep
  <2> QED BY <1>2, <2>1, <2>2, <2>3, <2>4, <2>5, <2>6 DEF AuthStep
<1> QED BY <1>1, <1>2 DEF AuthNext

(* The invariant holds. *)
THEOREM AuthInvHolds == AuthSpec => []AuthInv
BY InitAuthInv, AuthInvInductive, PTL DEF AuthSpec

(* No session is older than the password in force when a change or reset   *)
(* last succeeded, but for those of a sign-in or a refresh that overlapped *)
(* one; a request that throws or dies between the two statements has not   *)
(* succeeded, and is a step of the specification.                          *)
THEOREM SessionsAlwaysEnd == AuthSpec => []SessionsEndWithPassword
BY AuthInvHolds, AuthInvGives, PTL

(* A sign-in or a refresh that overlapped no other leaves the browser and  *)
(* the table with one and the same token.                                  *)
THEOREM SessionAlwaysSole == AuthSpec => []SoleSession
BY AuthInvHolds, AuthInvGives, PTL

(* A lock is lifted by time, or by the write of a sign-in that read the    *)
(* row before the account was locked.                                      *)
THEOREM LockAlwaysHolds == AuthSpec => LockHolds
<1> DEFINE Lifted == account.locked /\ ~account'.locked =>
             \/ LockPasses
             \/ \E r \in AuthRequest : serving[r] # NotServing /\ "lock" \in serving[r].met
                  /\ serving'[r] # serving[r]
<1>1. AuthInv /\ [AuthNext]_authVars => [Lifted]_authVars
  <2> SUFFICES ASSUME AuthInv, AuthStep, account.locked, ~account'.locked, ~LockPasses
               PROVE  \E r \in AuthRequest : serving[r] # NotServing /\ "lock" \in serving[r].met
                        /\ serving'[r] # serving[r]
    BY DEF AuthNext
  <2>1. account \in Account /\ account' # account
    BY DEF AuthInv, AuthTypeOK
  <2>2. ASSUME account'.locked = account.locked PROVE FALSE
    BY <2>2
  <2>3. ~\E r \in AuthRequest : CreateAccount(r) \/ WritePassword(r) \/ WriteLink(r) \/ WriteVerified(r)
    BY <2>1, <2>2 DEF CreateAccount, WritePassword, WriteLink, WriteVerified, Refuse, Account
  <2>4. ~ResetLinkExpires /\ ~\E status \in {"ACTIVE", "INACTIVE"}, password \in 1..MaxPasswords :
                                UpdateUser(status, password)
    BY <2>1, <2>2 DEF ResetLinkExpires, UpdateUser, Account
  <2>5. PICK r \in AuthRequest : WriteAttempt(r)
    BY <2>1, <2>3, <2>4
    DEF AuthStep, Register, Refresh, SignOut, SignIn, ChangePassword, ResetPassword, VerifyEmail, AskLink,
        Arrive, ReadCredentials, FindSession, Rotate, ReceiveTokens, LoseTokens, CreateSession, RevokeOne,
        ReceiveSignOut, CheckOldPassword, FindResetLink, RevokeAll, FindVerification, HandlerFails, SessionExpires,
        Refuse
  <2>6. Writing(r) /\ serving[r] # NotServing /\ serving[r] \in Serving
    BY <2>5 DEF WriteAttempt, Writing, At, AuthInv, AuthTypeOK
  <2>7. "lock" \in serving[r].met
    BY <2>6 DEF AuthInv, LockIsMet
  <2>8. CASE RightPassword(r)
    <3>1. serving'[r].step # serving[r].step
      BY <2>6, <2>8 DEF RightPassword, Writing, At, AuthInv, ServingIsMap, Serving
    <3> QED BY <2>6, <2>7, <3>1
  <2>9. CASE WrongPassword(r)
    BY <2>6, <2>7, <2>9 DEF WrongPassword
  <2> QED BY <2>5, <2>8, <2>9 DEF WriteAttempt
<1>2. AuthInv /\ [AuthNext]_authVars =>
        [account.locked /\ ~account'.locked =>
           \/ LockPasses
           \/ \E r \in AuthRequest : serving[r] # NotServing /\ "lock" \in serving[r].met
                /\ serving'[r] # serving[r]]_authVars
  BY <1>1
<1> QED BY <1>2, AuthInvHolds, PTL DEF AuthSpec, LockHolds
=============================================================================
