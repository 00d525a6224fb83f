------------------------------ MODULE Accounts ------------------------------
(***************************************************************************)
(* User rows, the codes that are mailed, the ten-second user cache and the *)
(* sessions, under requests that overlap: guest, OAuth and email sign-in,  *)
(* verification of a code, password reset, profile changes, refresh,       *)
(* logout, and the billing calls that write the status of a user.          *)
(* (src/user, src/auth, src/session)                                       *)
(*                                                                         *)
(* Every await of a handler is a step boundary; a request keeps what it    *)
(* has read in its locals.  A refresh token is a JWT of the user and the   *)
(* second it is signed in, so two sign-ins in one second share it.  Names, *)
(* photos, mailing consents, the OauthAccount rows (which nothing reads)   *)
(* and the passwords themselves are abstracted away; the debug suffix for  *)
(* emails is taken as not configured, and every OAuth profile to have an   *)
(* email.                                                                  *)
(***************************************************************************)
EXTENDS Integers, FiniteSets

CONSTANTS Emails,     \* users that sign in with an email
          Guests,     \* ids that createGuest may generate
          Devices,    \* the deviceId cookies of the browsers
          Requests,   \* requests that may be under way at a time
          NoUser,     \* what findOne returns when there is no row
          MaxCodes,   \* bound: codes mailed
          MaxSecond   \* bound: the clock, in seconds

Statuses == {"guest", "active", "verified", "subscription"}
Row == [password : BOOLEAN, verified : BOOLEAN, status : Statuses]

ASSUME AccountsAssumption == /\ Emails \cap Guests = {}
                             /\ Emails # {}
                             /\ Devices # {}
                             /\ IsFiniteSet(Requests)
                             /\ NoUser \notin Row
                             /\ MaxCodes \in Nat
                             /\ MaxSecond \in Nat

VARIABLES user,       \* the rows, NoUser where there is none
          cached,     \* user:<id> in the cache
          authCode,   \* auth-code-<email> in the cache, 0 when absent
          resetCode,  \* emails of the reset-code-<code> keys in the cache
          mailed,     \* the number of codes generated
          sessions,   \* the rows of sessions
          second,     \* the clock that signs tokens
          req,        \* the locals of every request
          spent,      \* history: codes whose verification has finished
          signIns     \* history: signIns[<<t, d>>] sign-ins on device d have been
                      \* given token t, and are neither logged out nor replaced

vars == <<user, cached, authCode, resetCode, mailed, sessions, second,
          req, spent, signIns>>

Users == Emails \cup Guests
Token == [sub : Users, iat : 0 .. MaxSecond]
Session == [user : Users, device : Devices, token : Token,
            active : 0 .. MaxSecond]

Kinds == {"signIn", "verify", "resetVerify", "oauth", "guest", "refresh",
          "logout", "profile", "changeEmail", "find", "resetStatus"}
Steps == {"idle", "find", "save", "code", "spend", "load",
          "link", "sign", "store", "touch", "validate", "invalidate", "drop",
          "lookup", "fill", "status"}
Locals == [pc : Steps, kind : Kinds, user : Users, read : Row \cup {NoUser},
           code : Nat, device : Devices, token : Token]

TypeOK ==
  /\ user \in [Users -> Row \cup {NoUser}]
  /\ cached \in [Users -> Row \cup {NoUser}]
  /\ authCode \in [Emails -> Nat]
  /\ resetCode \subseteq Emails
  /\ mailed \in Nat
  /\ sessions \subseteq Session
  /\ second \in 0 .. MaxSecond
  /\ req \in [Requests -> Locals]
  /\ spent \subseteq Nat
  /\ signIns \in [Token \X Devices -> Nat]

(* No request: the other locals have no meaning. *)
Idle == [pc |-> "idle", kind |-> "find", user |-> CHOOSE e \in Emails : TRUE,
         read |-> NoUser, code |-> 0,
         device |-> CHOOSE d \in Devices : TRUE,
         token |-> [sub |-> CHOOSE e \in Emails : TRUE, iat |-> 0]]

Init ==
  /\ user = [u \in Users |-> NoUser]
  /\ cached = [u \in Users |-> NoUser]
  /\ authCode = [e \in Emails |-> 0]
  /\ resetCode = {}
  /\ mailed = 0
  /\ sessions = {}
  /\ second = 0
  /\ req = [r \in Requests |-> Idle]
  /\ spent = {}
  /\ signIns = [x \in Token \X Devices |-> 0]

-----------------------------------------------------------------------------
(* Requests *)

Exists(u) == user[u] # NoUser
At(r, pc) == req[r].pc = pc
Answer(r) == req' = [req EXCEPT ![r] = Idle]
GotoWith(r, pc, row) ==
  req' = [req EXCEPT ![r] = IF pc = "idle" THEN Idle
                            ELSE [@ EXCEPT !.pc = pc, !.read = row]]
Goto(r, pc) == GotoWith(r, pc, req[r].read)

Begin(r, kind, u, pc) ==
  /\ At(r, "idle")
  /\ req' = [req EXCEPT ![r] = [Idle EXCEPT !.pc = pc, !.kind = kind, !.user = u]]

(* The same for a request that has read a row, on a device. *)
BeginFrom(r, kind, u, pc, row, d) ==
  /\ At(r, "idle")
  /\ req' = [req EXCEPT ![r] = [Idle EXCEPT !.pc = pc, !.kind = kind,
               !.user = u, !.read = row, !.device = d]]

-----------------------------------------------------------------------------
(* saveUser: findOne by email, then save *)

Confirms(kind) == kind \in {"verify", "resetVerify", "oauth"}
SetsPassword(kind) == kind \in {"signIn", "resetVerify"}

(* Changed form: emailVerified is written with a default, as in the insert. *)
SavedWithDefault(row, l) ==
  [password |-> row.password \/ SetsPassword(l.kind),
   verified |-> Confirms(l.kind),
   status   |-> CASE l.kind = "signIn" -> "active"
                  [] l.kind = "verify" -> "verified"
                  [] OTHER -> row.status]

(* What save leaves in an existing row: undefined fields stay as they are. *)
Saved(row, l) ==
  [password |-> row.password \/ SetsPassword(l.kind),
   verified |-> row.verified \/ Confirms(l.kind),
   status   |-> CASE l.kind = "signIn" -> "active"
                  [] l.kind = "verify" -> "verified"
                  [] OTHER -> row.status]

Inserted(l) ==
  [password |-> SetsPassword(l.kind),
   verified |-> Confirms(l.kind),
   status   |-> IF Confirms(l.kind) THEN "verified" ELSE "active"]

FindUser(r) ==
  /\ At(r, "find")
  /\ GotoWith(r, "save", user[req[r].user])
  /\ UNCHANGED <<user, cached, authCode, resetCode, mailed, sessions,
                 second, spent, signIns>>

(* Changed form: the sign-in does not look at emailVerified. *)
GrantedToAll(row) == TRUE

(* A user with a confirmed email is signed in, another gets a code. *)
Granted(row) == row.verified
AfterCredentials(row) == IF Granted(row) THEN "sign" ELSE "code"

(* What follows saveUser in its callers; it returns the row it has read, *)
(* or the one it has inserted.                                            *)
AfterSave(kind, row) ==
  CASE kind = "signIn" -> AfterCredentials(row)
    [] kind = "verify" -> "spend"
    [] kind = "oauth"  -> "link"
    [] OTHER           -> "idle"

SaveUser(r) ==
  LET l == req[r]  u == l.user IN
  /\ At(r, "save")
  /\ \/ /\ l.read # NoUser
        /\ user' = [user EXCEPT ![u] = Saved(@, l)]
        /\ Goto(r, AfterSave(l.kind, l.read))
     \/ /\ l.read = NoUser /\ ~Exists(u)
        /\ user' = [user EXCEPT ![u] = Inserted(l)]
        /\ Goto(r, AfterSave(l.kind, Inserted(l)))
     \/ /\ l.read = NoUser /\ Exists(u)      \* the email is unique
        /\ Answer(r)
        /\ UNCHANGED user
  /\ UNCHANGED <<cached, authCode, resetCode, mailed, sessions, second,
                 spent, signIns>>

-----------------------------------------------------------------------------
(* Email sign-in *)

(* Bound: every sign-in under way can still be mailed a code. *)
CodesLeft ==
  mailed + Cardinality({q \in Requests : req[q].kind = "signIn"}) < MaxCodes

(* validateCredentials, when it does not refuse: the password of a row is  *)
(* right, or there is no row and one is saved.                             *)
SignIn(r, e, d) ==
  /\ \/ ~Exists(e) /\ CodesLeft /\ BeginFrom(r, "signIn", e, "find", NoUser, d)
     \/ /\ Exists(e) /\ user[e].password /\ (Granted(user[e]) \/ CodesLeft)
        /\ BeginFrom(r, "signIn", e, AfterCredentials(user[e]), user[e], d)
  /\ UNCHANGED <<user, cached, authCode, resetCode, mailed, sessions, second,
                 spent, signIns>>

(* sendAuthCode: a new code takes the place of the last one. *)
SendAuthCode(r) ==
  /\ At(r, "code")
  /\ mailed' = mailed + 1
  /\ authCode' = [authCode EXCEPT ![req[r].user] = mailed']
  /\ Answer(r)
  /\ UNCHANGED <<user, cached, resetCode, sessions, second, spent, signIns>>

(* verifyAuthCode: the code is read and compared. *)
VerifyAuthCode(r, e, code, d) ==
  /\ At(r, "idle")
  /\ authCode[e] = code /\ code # 0
  /\ req' = [req EXCEPT ![r] = [Idle EXCEPT !.pc = "find", !.kind = "verify",
               !.user = e, !.code = code, !.device = d]]
  /\ UNCHANGED <<user, cached, authCode, resetCode, mailed, sessions,
                 second, spent, signIns>>

(* Changed form: the key is made from the code, and there is no such key. *)
DeleteOtherKey(l) == authCode

(* The key of the email is deleted, whatever code it holds by now. *)
DeleteCode(l) == [authCode EXCEPT ![l.user] = 0]

SpendCode(r) ==
  /\ At(r, "spend")
  /\ authCode' = DeleteCode(req[r])
  /\ spent' = spent \cup {req[r].code}
  /\ Goto(r, "load")
  /\ UNCHANGED <<user, cached, resetCode, mailed, sessions, second, signIns>>

(* The controller reads the user again and signs it in. *)
LoadVerified(r) ==
  /\ At(r, "load")
  /\ GotoWith(r, "sign", user[req[r].user])
  /\ UNCHANGED <<user, cached, authCode, resetCode, mailed, sessions,
                 second, spent, signIns>>

-----------------------------------------------------------------------------
(* Password reset *)

SendResetCode(e) ==
  /\ resetCode' = resetCode \cup {e}
  /\ UNCHANGED <<user, cached, authCode, mailed, sessions, second, req, spent, signIns>>

(* The key that is deleted is made from the email, so the code stays. *)
VerifyResetCode(r, e) ==
  /\ e \in resetCode
  /\ BeginFrom(r, "resetVerify", e, "find", NoUser, Idle.device)
  /\ UNCHANGED <<user, cached, authCode, resetCode, mailed, sessions,
                 second, spent, signIns>>

(* Five minutes have passed since a code was stored. *)
AuthCodeExpires(e) ==
  /\ authCode[e] # 0
  /\ authCode' = [authCode EXCEPT ![e] = 0]
  /\ UNCHANGED <<user, cached, resetCode, mailed, sessions, second, req,
                 spent, signIns>>

ResetCodeExpires(e) ==
  /\ e \in resetCode
  /\ resetCode' = resetCode \ {e}
  /\ UNCHANGED <<user, cached, authCode, mailed, sessions, second, req,
                 spent, signIns>>

-----------------------------------------------------------------------------
(* OAuth and guests *)

OauthCallback(r, e, d) ==
  /\ BeginFrom(r, "oauth", e, "find", NoUser, d)
  /\ UNCHANGED <<user, cached, authCode, resetCode, mailed, sessions,
                 second, spent, signIns>>

(* createUser upserts the OauthAccount; when that fails, nobody is signed in. *)
LinkAccount(r) ==
  /\ At(r, "link")
  /\ Goto(r, "sign") \/ Answer(r)
  /\ UNCHANGED <<user, cached, authCode, resetCode, mailed, sessions,
                 second, spent, signIns>>

CreateGuest(r, g, d) ==
  /\ ~Exists(g)
  /\ user' = [user EXCEPT ![g] = [password |-> FALSE, verified |-> FALSE,
                                  status |-> "guest"]]
  /\ BeginFrom(r, "guest", g, "sign", NoUser, d)
  /\ UNCHANGED <<cached, authCode, resetCode, mailed, sessions, second,
                 spent, signIns>>

-----------------------------------------------------------------------------
(* Sessions *)

(* createSession signs the refresh token, and upserts the row afterwards. *)
SignToken(r) ==
  /\ At(r, "sign")
  /\ req' = [req EXCEPT ![r].pc = "store",
                        ![r].token = [sub |-> req[r].user, iat |-> second]]
  /\ signIns' = [signIns EXCEPT
       ![<<[sub |-> req[r].user, iat |-> second], req[r].device>>] = @ + 1]
  /\ UNCHANGED <<user, cached, authCode, resetCode, mailed, sessions,
                 second, spent>>

SameDevice(s, l) == s.user = l.user /\ s.device = l.device

(* The sign-ins of these sessions have ended. *)
Without(ss) ==
  [x \in Token \X Devices |->
     IF \E s \in ss : x = <<s.token, s.device>> THEN signIns[x] - 1 ELSE signIns[x]]

StoreSession(r) ==
  LET l == req[r]
      old == {s \in sessions : SameDevice(s, l)}
      new == [user |-> l.user, device |-> l.device, token |-> l.token,
              active |-> second] IN
  /\ At(r, "store")
  /\ sessions' = (sessions \ old) \cup {new}
  /\ signIns' = Without(old)
  /\ Answer(r)
  /\ UNCHANGED <<user, cached, authCode, resetCode, mailed, second, spent>>

Found(token, d) == {s \in sessions : s.token = token /\ s.device = d}

(* validateRefreshToken, for a refresh and for a logout. *)
ValidateRefresh(r, token, d, kind) ==
  /\ At(r, "idle")
  /\ Found(token, d) # {}
  /\ req' = [req EXCEPT ![r] = [Idle EXCEPT !.kind = kind, !.token = token,
               !.device = d, !.user = token.sub,
               !.pc = IF kind = "refresh" THEN "touch" ELSE "drop"]]
  /\ UNCHANGED <<user, cached, authCode, resetCode, mailed, sessions,
                 second, spent, signIns>>

(* Changed form: the activity is saved as a row, inserted when it is gone. *)
TouchedOrInserted(l) ==
  {s \in sessions : s.token # l.token}
    \cup {[user |-> l.user, device |-> l.device, token |-> l.token, active |-> second]}

(* updateSessionActivity: an UPDATE by the hash, of whatever row still has it. *)
Touched(l) ==
  {IF s.token = l.token THEN [s EXCEPT !.active = second] ELSE s : s \in sessions}

UpdateActivity(r) ==
  /\ At(r, "touch")
  /\ sessions' = Touched(req[r])
  /\ Answer(r)
  /\ UNCHANGED <<user, cached, authCode, resetCode, mailed, second,
                 spent, signIns>>

InvalidateSession(r) ==
  LET old == Found(req[r].token, req[r].device) IN
  /\ At(r, "drop")
  /\ sessions' = sessions \ old
  /\ signIns' = Without(old)
  /\ Answer(r)
  /\ UNCHANGED <<user, cached, authCode, resetCode, mailed, second, spent>>

-----------------------------------------------------------------------------
(* Profile, cache and status *)

(* updateProfile: name and consent are updated, which no other request here *)
(* goes by; then the cached copy is dropped and the user is read again.     *)
UpdateProfile(r, u) ==
  /\ Exists(u)
  /\ Begin(r, "profile", u, "invalidate")
  /\ UNCHANGED <<user, cached, authCode, resetCode, mailed, sessions, second,
                 spent, signIns>>

(* A body with an email is refused: PatchUserDto has no such field. *)
ChangeEmail(r, u) ==
  /\ Exists(u)
  /\ Begin(r, "changeEmail", u, "validate")
  /\ UNCHANGED <<user, cached, authCode, resetCode, mailed, sessions, second,
                 spent, signIns>>

RefuseEmail(r) ==
  /\ At(r, "validate")
  /\ Answer(r)
  /\ UNCHANGED <<user, cached, authCode, resetCode, mailed, sessions, second,
                 spent, signIns>>

DropCopy(r) ==
  /\ At(r, "invalidate")
  /\ cached' = [cached EXCEPT ![req[r].user] = NoUser]
  /\ Goto(r, "lookup")
  /\ UNCHANGED <<user, authCode, resetCode, mailed, sessions, second,
                 spent, signIns>>

(* An authenticated request, or resetSubscription, starts with findById. *)
Authenticate(r, u) ==
  /\ Exists(u)
  /\ Begin(r, "find", u, "lookup")
  /\ UNCHANGED <<user, cached, authCode, resetCode, mailed, sessions,
                 second, spent, signIns>>

ResetSubscription(r, u) ==
  /\ Exists(u)
  /\ Begin(r, "resetStatus", u, "lookup")
  /\ UNCHANGED <<user, cached, authCode, resetCode, mailed, sessions,
                 second, spent, signIns>>

AfterFind(kind) == IF kind = "resetStatus" THEN "status" ELSE "idle"

(* findById: a cached copy, or the row, which is cached in a later step. *)
FindById(r) ==
  LET u == req[r].user IN
  /\ At(r, "lookup")
  /\ \/ cached[u] # NoUser /\ GotoWith(r, AfterFind(req[r].kind), cached[u])
     \/ cached[u] = NoUser /\ GotoWith(r, "fill", user[u])
  /\ UNCHANGED <<user, cached, authCode, resetCode, mailed, sessions,
                 second, spent, signIns>>

FillCache(r) ==
  /\ At(r, "fill")
  /\ cached' = [cached EXCEPT ![req[r].user] = req[r].read]
  /\ Goto(r, AfterFind(req[r].kind))
  /\ UNCHANGED <<user, authCode, resetCode, mailed, sessions, second,
                 spent, signIns>>

CopyExpires(u) ==
  /\ cached[u] # NoUser
  /\ cached' = [cached EXCEPT ![u] = NoUser]
  /\ UNCHANGED <<user, authCode, resetCode, mailed, sessions, second,
                 req, spent, signIns>>

StatusOf(row) == IF row.verified THEN "verified" ELSE "active"

WriteStatus(r) ==
  /\ At(r, "status")
  /\ user' = [user EXCEPT ![req[r].user].status = StatusOf(req[r].read)]
  /\ Answer(r)
  /\ UNCHANGED <<cached, authCode, resetCode, mailed, sessions, second,
                 spent, signIns>>

(* A confirmed payment writes the paid status. *)
GrantSubscription(u) ==
  /\ Exists(u)
  /\ user' = [user EXCEPT ![u].status = "subscription"]
  /\ UNCHANGED <<cached, authCode, resetCode, mailed, sessions, second,
                 req, spent, signIns>>

Tick ==
  /\ second < MaxSecond
  /\ second' = second + 1
  /\ UNCHANGED <<user, cached, authCode, resetCode, mailed, sessions,
                 req, spent, signIns>>

-----------------------------------------------------------------------------
Begins(r) ==
  \/ \E e \in Emails, d \in Devices : SignIn(r, e, d) \/ OauthCallback(r, e, d)
  \/ \E e \in Emails, d \in Devices, code \in 1 .. MaxCodes :
       VerifyAuthCode(r, e, code, d)
  \/ \E e \in Emails : VerifyResetCode(r, e)
  \/ \E g \in Guests, d \in Devices : CreateGuest(r, g, d)
  \/ \E s \in sessions, kind \in {"refresh", "logout"} :
       ValidateRefresh(r, s.token, s.device, kind)
  \/ \E u \in Users :
       \/ UpdateProfile(r, u) \/ ChangeEmail(r, u)
       \/ Authenticate(r, u) \/ ResetSubscription(r, u)

Continues(r) ==
  \/ FindUser(r) \/ SaveUser(r) \/ SendAuthCode(r)
  \/ SpendCode(r) \/ LoadVerified(r) \/ LinkAccount(r)
  \/ SignToken(r) \/ StoreSession(r) \/ UpdateActivity(r) \/ InvalidateSession(r)
  \/ RefuseEmail(r) \/ DropCopy(r) \/ FindById(r) \/ FillCache(r) \/ WriteStatus(r)

Environment ==
  \/ \E e \in Emails : SendResetCode(e) \/ AuthCodeExpires(e) \/ ResetCodeExpires(e)
  \/ \E u \in Users : CopyExpires(u) \/ GrantSubscription(u)
  \/ Tick

Next == (\E r \in Requests : Begins(r) \/ Continues(r)) \/ Environment

Spec == Init /\ [][Next]_vars

-----------------------------------------------------------------------------
(* Properties *)

(* Only a user whose email has been confirmed has a session by email or    *)
(* OAuth, however its sign-ins, verifications and resets overlap.          *)
SessionsAreVerified ==
  \A s \in sessions : Exists(s.user) /\ (s.user \in Emails => user[s.user].verified)

(* The status VERIFIED stands for a confirmed email: also the reset after  *)
(* a subscription, which goes by a cached user, never writes it too early. *)
VerifiedStatusIsEarned ==
  \A u \in Users : Exists(u) /\ user[u].status = "verified" => user[u].verified

(* A device of a user has one session, so one refresh token at a time.     *)
OneSessionPerDevice ==
  \A s, t \in sessions : s.user = t.user /\ s.device = t.device => s = t

AccountsInv == TypeOK /\ SessionsAreVerified /\ VerifiedStatusIsEarned
               /\ OneSessionPerDevice

(* A refresh token is accepted on a device only while one of the sign-ins  *)
(* there that were given it is neither logged out nor replaced by a later  *)
(* one; a refresh that was validated before, and updates the activity      *)
(* afterwards, does not bring it back.  (Two sign-ins of one second are    *)
(* given the same token: it outlives the logout of one of them.)           *)
AcceptedIsSignedIn ==
  \A x \in Token \X Devices : Found(x[1], x[2]) # {} => signIns[x] > 0

(* A code whose verification has finished is never accepted again, though  *)
(* new codes are set and old verifications still run.                      *)
SpentCodeIsRefused == \A e \in Emails : authCode[e] \notin spent

(* A confirmed email stays confirmed: a sign-in that found no row, and     *)
(* saves over the one an OAuth callback has inserted since, keeps it.      *)
(* README.md says of one step that it should not (ChangedEmailIsUnverified). *)
VerifiedForGood ==
  [][\A u \in Users : Exists(u) /\ user[u].verified =>
       Exists(u)' /\ user'[u].verified]_vars

(* README.md, 444-449, of PATCH profile: the request accepts an email, and *)
(* "changing the email resets its verification".                           *)
ChangedEmailIsUnverified ==
  [][\A r \in Requests : req[r].kind = "changeEmail" /\ req'[r] = Idle =>
       ~user'[req[r].user].verified]_vars
=============================================================================
