---------------------------- MODULE AccountsProofs ----------------------------
(***************************************************************************)
(* Theorems about module Accounts, for any number of users, devices,       *)
(* requests under way and codes mailed.                                    *)
(***************************************************************************)
EXTENDS Accounts, FiniteSetTheorems, TLAPS

Rows == [Users -> Row \cup {NoUser}]

(* Rows stay, and a confirmed email stays confirmed. *)
Kept(u, v) ==
  \A x \in Users : u[x] # NoUser => v[x] # NoUser /\ (u[x].verified => v[x].verified)

(* What the locals l of a request rely on in the rows u.  A row that was    *)
(* read is there, and confirmed if it was; the steps of a sign-in come only *)
(* when the email is confirmed.                                             *)
Known(l, u) ==
  /\ l.pc \in {"find", "save", "code", "spend", "load"} => l.user \in Emails
  /\ l.pc \in {"find", "save"} => l.kind \in {"signIn", "verify", "resetVerify", "oauth"}
  /\ l.read # NoUser => u[l.user] # NoUser /\ (l.read.verified => u[l.user].verified)
  /\ l.pc \in {"validate", "invalidate", "lookup", "fill", "status"} => u[l.user] # NoUser
  /\ l.pc \in {"fill", "status"} => l.read # NoUser
  /\ l.pc = "spend" => l.kind = "verify"
  /\ l.pc \in {"spend", "load"} => u[l.user] # NoUser /\ u[l.user].verified
  /\ l.pc \in {"link", "sign", "store"} =>
       u[l.user] # NoUser /\ (l.user \in Emails => u[l.user].verified)
  /\ l.pc = "store" => l.token.sub = l.user

(* A code that is being verified was mailed, and to its user. *)
Coded(l, a, m) ==
  l.kind = "verify" /\ l.pc \in {"find", "save", "spend"} =>
    l.code \in 1 .. m /\ \A e \in Emails : a[e] = l.code => e = l.user

(* The codes in the cache are distinct, and mailed. *)
CodesInv(a, m, used) ==
  /\ \A e \in Emails : a[e] <= m
  /\ \A e, f \in Emails : a[e] = a[f] /\ a[e] # 0 => e = f
  /\ \A c \in used : c \in 1 .. m

CopiesAreKnown(copy, u) ==
  \A x \in Users : copy[x] # NoUser => u[x] # NoUser /\ (copy[x].verified => u[x].verified)

StatusEarned(u) ==
  \A x \in Users : u[x] # NoUser /\ u[x].status = "verified" => u[x].verified

(* The token of a session is its user's. *)
SessionsInv(ss, u) ==
  \A s \in ss : /\ u[s.user] # NoUser /\ (s.user \in Emails => u[s.user].verified)
                /\ s.token.sub = s.user

(* The sign-ins that are about to store a session with the key x. *)
Pending(x, l) == {r \in Requests : l[r].pc = "store" /\ x = <<l[r].token, l[r].device>>}

HasKey(x, ss) == \E s \in ss : x = <<s.token, s.device>>

(* Of the sign-ins that were given a token and have not ended, one has the  *)
(* session with it, if there is one, and the others have still to store it. *)
Held(l, ss, n) ==
  \A x \in Token \X Devices :
    Cardinality(Pending(x, l)) + (IF HasKey(x, ss) THEN 1 ELSE 0) <= n[x]

Inv ==
  /\ TypeOK
  /\ \A r \in Requests : Known(req[r], user) /\ Coded(req[r], authCode, mailed)
  /\ CodesInv(authCode, mailed, spent)
  /\ CopiesAreKnown(cached, user) /\ StatusEarned(user)
  /\ SessionsInv(sessions, user)
  /\ OneSessionPerDevice /\ Held(req, sessions, signIns) /\ SpentCodeIsRefused

-----------------------------------------------------------------------------
(* Rows that are kept keep what depends on them. *)

LEMMA KnownKept ==
  ASSUME NEW u \in Rows, NEW v \in Rows, Kept(u, v), NEW l \in Locals, Known(l, u)
  PROVE  Known(l, v)
BY DEF Kept, Known, Locals, Rows

LEMMA CopiesKept ==
  ASSUME NEW u \in Rows, NEW v \in Rows, Kept(u, v), NEW copy \in Rows,
         CopiesAreKnown(copy, u)
  PROVE  CopiesAreKnown(copy, v)
BY DEF Kept, CopiesAreKnown

LEMMA SessionsKept ==
  ASSUME NEW u \in Rows, NEW v \in Rows, Kept(u, v), NEW ss \in SUBSET Session,
         SessionsInv(ss, u)
  PROVE  SessionsInv(ss, v)
BY DEF Kept, SessionsInv, Session

LEMMA IdleLocals ==
  /\ Idle \in Locals /\ Idle.pc = "idle" /\ Idle.read = NoUser
  /\ Idle.kind = "find" /\ Idle.code = 0
BY AccountsAssumption DEF Idle, Locals, Steps, Kinds, Token, Users

LEMMA IdleKnown ==
  ASSUME NEW u, NEW a, NEW m
  PROVE  Known(Idle, u) /\ Coded(Idle, a, m)
BY IdleLocals DEF Known, Coded

-----------------------------------------------------------------------------
(* One request moves, the others keep what they rely on. *)

Moves ==
  /\ req' \in [Requests -> Locals]
  /\ \A q \in Requests :
       \/ req'[q] = req[q]
       \/ Known(req'[q], user') /\ Coded(req'[q], authCode', mailed')

(* The same, and no token is signed. *)
Moved == Moves /\ \A q \in Requests : req'[q] = req[q] \/ req'[q].pc # "store"

Fresh == \A e \in Emails : authCode'[e] \in {authCode[e], 0} \/ authCode'[e] = mailed + 1

LEMMA RequestsKept ==
  ASSUME Inv, Moves, user' \in Rows, Kept(user, user'), Fresh, mailed' \in {mailed, mailed + 1},
         authCode' \in [Emails -> Nat]
  PROVE  \A r \in Requests : Known(req'[r], user') /\ Coded(req'[r], authCode', mailed')
<1> SUFFICES ASSUME NEW r \in Requests, req'[r] = req[r]
             PROVE  Known(req[r], user') /\ Coded(req[r], authCode', mailed')
  BY DEF Moves
<1>1. req[r] \in Locals /\ user \in Rows /\ mailed \in Nat
  BY DEF Inv, TypeOK, Rows
<1>2. Known(req[r], user')
  BY <1>1, KnownKept DEF Inv
<1>3. Coded(req[r], authCode', mailed')
  <2>1. SUFFICES ASSUME req[r].kind = "verify", req[r].pc \in {"find", "save", "spend"}
                 PROVE  /\ req[r].code \in 1 .. mailed'
                        /\ \A e \in Emails : authCode'[e] = req[r].code => e = req[r].user
    BY DEF Coded
  <2>2. /\ req[r].code \in 1 .. mailed
        /\ \A e \in Emails : authCode[e] = req[r].code => e = req[r].user
    BY <2>1 DEF Inv, Coded
  <2> QED
    BY <1>1, <2>2 DEF Fresh
<1> QED
  BY <1>2, <1>3

LEMMA PendingFinite ==
  ASSUME NEW x, NEW l
  PROVE  IsFiniteSet(Pending(x, l)) /\ Cardinality(Pending(x, l)) \in Nat
BY AccountsAssumption, FS_Subset, FS_CardinalityType DEF Pending

(* No token is signed and no session comes with a new key. *)
LEMMA HeldKept ==
  ASSUME Inv, Moved, UNCHANGED signIns,
         \A s \in sessions' : HasKey(<<s.token, s.device>>, sessions)
  PROVE  Held(req', sessions', signIns')
<1> SUFFICES ASSUME NEW x \in Token \X Devices
             PROVE  Cardinality(Pending(x, req')) + (IF HasKey(x, sessions') THEN 1 ELSE 0)
                      <= signIns[x]
  BY DEF Held
<1>1. Pending(x, req') \subseteq Pending(x, req)
  BY DEF Moved, Pending
<1>2. Cardinality(Pending(x, req')) <= Cardinality(Pending(x, req))
  BY <1>1, PendingFinite, FS_Subset
<1>3. HasKey(x, sessions') => HasKey(x, sessions)
  BY DEF HasKey
<1>4. Cardinality(Pending(x, req)) + (IF HasKey(x, sessions) THEN 1 ELSE 0) <= signIns[x]
  BY DEF Inv, Held
<1>5. signIns[x] \in Nat
  BY DEF Inv, TypeOK
<1> QED
  BY <1>2, <1>3, <1>4, <1>5, PendingFinite

LEMMA HeldStays ==
  ASSUME Inv, Moved, UNCHANGED <<sessions, signIns>>
  PROVE  Held(req', sessions', signIns')
<1>1. \A s \in sessions' : HasKey(<<s.token, s.device>>, sessions)
  BY DEF HasKey
<1> QED
  BY <1>1, HeldKept

(* Steps that change rows and locals alone. *)
LEMMA RowsStep ==
  ASSUME Inv, Moved, user' \in Rows, Kept(user, user'), StatusEarned(user'),
         UNCHANGED <<cached, authCode, resetCode, mailed, sessions, second, spent, signIns>>
  PROVE  Inv'
<1>1. TypeOK'
  BY DEF Inv, TypeOK, Moved, Moves, Rows
<1>2. \A r \in Requests : Known(req'[r], user') /\ Coded(req'[r], authCode', mailed')
  BY RequestsKept DEF Moved, Fresh, Inv, TypeOK
<1>3. CopiesAreKnown(cached, user') /\ SessionsInv(sessions, user')
  BY CopiesKept, SessionsKept DEF Inv, TypeOK, Rows
<1>4. OneSessionPerDevice' /\ SpentCodeIsRefused'
  BY DEF Inv, OneSessionPerDevice, SpentCodeIsRefused
<1> QED
  BY <1>1, <1>2, <1>3, <1>4, HeldStays DEF Inv

LEMMA LocalsStep ==
  ASSUME Inv, Moved, UNCHANGED user,
         UNCHANGED <<cached, authCode, resetCode, mailed, sessions, second, spent, signIns>>
  PROVE  Inv'
<1>1. user' \in Rows /\ Kept(user, user') /\ StatusEarned(user')
  BY DEF Inv, TypeOK, Rows, Kept
<1> QED
  BY <1>1, RowsStep

(* Steps that change the codes. *)
LEMMA CodesStep ==
  ASSUME Inv, Moved, Fresh, mailed' \in {mailed, mailed + 1},
         authCode' \in [Emails -> Nat], resetCode' \in SUBSET Emails, spent' \in SUBSET Nat,
         CodesInv(authCode', mailed', spent'), SpentCodeIsRefused',
         UNCHANGED <<user, cached, sessions, second, signIns>>
  PROVE  Inv'
<1>1. TypeOK'
  BY DEF Inv, TypeOK, Moved, Moves
<1>2. user' \in Rows /\ Kept(user, user')
  BY DEF Inv, TypeOK, Rows, Kept
<1>3. \A r \in Requests : Known(req'[r], user') /\ Coded(req'[r], authCode', mailed')
  BY <1>2, RequestsKept DEF Moved
<1>4. OneSessionPerDevice'
  BY DEF Inv, OneSessionPerDevice
<1> QED
  BY <1>1, <1>3, <1>4, HeldStays DEF Inv

(* Steps that change the cached copies. *)
LEMMA CacheStep ==
  ASSUME Inv, Moved, cached' \in Rows, CopiesAreKnown(cached', user),
         UNCHANGED <<user, authCode, resetCode, mailed, sessions, second, spent, signIns>>
  PROVE  Inv'
<1>1. TypeOK'
  BY DEF Inv, TypeOK, Moved, Moves, Rows
<1>2. user' \in Rows /\ Kept(user, user')
  BY DEF Inv, TypeOK, Rows, Kept
<1>3. \A r \in Requests : Known(req'[r], user') /\ Coded(req'[r], authCode', mailed')
  BY <1>2, RequestsKept DEF Moved, Fresh, Inv, TypeOK
<1>4. OneSessionPerDevice' /\ SpentCodeIsRefused'
  BY DEF Inv, OneSessionPerDevice, SpentCodeIsRefused
<1> QED
  BY <1>1, <1>3, <1>4, HeldStays DEF Inv

(* Steps that change the sessions. *)
LEMMA SessionsStep ==
  ASSUME Inv, Moved, sessions' \in SUBSET Session,
         signIns' \in [Token \X Devices -> Nat],
         SessionsInv(sessions', user), OneSessionPerDevice',
         Held(req', sessions', signIns'),
         UNCHANGED <<user, cached, authCode, resetCode, mailed, second, spent>>
  PROVE  Inv'
<1>1. TypeOK'
  BY DEF Inv, TypeOK, Moved, Moves
<1>2. user' \in Rows /\ Kept(user, user')
  BY DEF Inv, TypeOK, Rows, Kept
<1>3. \A r \in Requests : Known(req'[r], user') /\ Coded(req'[r], authCode', mailed')
  BY <1>2, RequestsKept DEF Moved, Fresh, Inv, TypeOK
<1>4. SpentCodeIsRefused'
  BY DEF Inv, SpentCodeIsRefused
<1> QED
  BY <1>1, <1>3, <1>4 DEF Inv

-----------------------------------------------------------------------------
(* What the steps do to the locals. *)

(* The request r has the locals l now. *)
Becomes(r, l) ==
  /\ req' \in [Requests -> Locals]
  /\ req'[r] = l
  /\ \A q \in Requests \ {r} : req'[q] = req[q]

LEMMA UpdateEffect ==
  ASSUME req \in [Requests -> Locals], NEW r \in Requests, NEW l \in Locals,
         req' = [req EXCEPT ![r] = l]
  PROVE  Becomes(r, l)
BY DEF Becomes

LEMMA BecomesMoves ==
  ASSUME NEW r \in Requests, NEW l \in Locals, Becomes(r, l),
         Known(l, user'), Coded(l, authCode', mailed')
  PROVE  Moves /\ (l.pc # "store" => Moved)
BY DEF Becomes, Moves, Moved

LEMMA AnswerEffect ==
  ASSUME Inv, NEW r \in Requests, Answer(r)
  PROVE  Moved
<1>1. Becomes(r, Idle)
  BY UpdateEffect, IdleLocals DEF Answer, Inv, TypeOK
<1> QED
  BY <1>1, BecomesMoves, IdleLocals, IdleKnown

(* The locals of a request that goes on at pc, with row read. *)
Gone(r, pc, row) ==
  /\ Becomes(r, req'[r]) /\ req'[r] \in Locals
  /\ pc = "idle" => req'[r] = Idle
  /\ pc # "idle" => /\ req'[r].pc = pc /\ req'[r].read = row
                    /\ req'[r].kind = req[r].kind /\ req'[r].user = req[r].user
                    /\ req'[r].code = req[r].code /\ req'[r].token = req[r].token

LEMMA GotoEffect ==
  ASSUME Inv, NEW r \in Requests, NEW pc \in Steps, NEW row \in Row \cup {NoUser},
         GotoWith(r, pc, row)
  PROVE  Gone(r, pc, row)
<1> DEFINE on == [req[r] EXCEPT !.pc = pc, !.read = row]
<1>1. req \in [Requests -> Locals] /\ req[r] \in Locals
  BY DEF Inv, TypeOK
<1>2. on = [[req[r] EXCEPT !.pc = pc] EXCEPT !.read = row]
  OBVIOUS
<1>3. [req[r] EXCEPT !.pc = pc] \in Locals
  BY <1>1 DEF Locals
<1>4. on \in Locals
  BY <1>2, <1>3 DEF Locals
<1>5. CASE pc = "idle"
  <2>1. Becomes(r, Idle)
    BY <1>1, <1>5, UpdateEffect, IdleLocals DEF GotoWith
  <2> QED
    BY <1>5, <2>1, IdleLocals DEF Gone, Becomes
<1>6. CASE pc # "idle"
  <2>1. Becomes(r, on)
    BY <1>1, <1>4, <1>6, UpdateEffect DEF GotoWith
  <2>2. req'[r] = on
    BY <2>1 DEF Becomes
  <2>3. /\ on.pc = pc /\ on.read = row /\ on.kind = req[r].kind
        /\ on.user = req[r].user /\ on.code = req[r].code /\ on.token = req[r].token
    BY <1>1 DEF Locals
  <2> HIDE DEF on
  <2> QED
    BY <1>4, <1>6, <2>1, <2>2, <2>3 DEF Gone
<1> QED
  BY <1>5, <1>6

(* A new request, as far as it matters. *)
Fresher(r, kind, u, pc, row) ==
  /\ Becomes(r, req'[r]) /\ req'[r] \in Locals
  /\ req'[r].pc = pc /\ req'[r].kind = kind /\ req'[r].user = u /\ req'[r].read = row

LEMMA BeginFromEffect ==
  ASSUME Inv, NEW r \in Requests, NEW kind \in Kinds, NEW u \in Users, NEW pc \in Steps,
         NEW row \in Row \cup {NoUser}, NEW d \in Devices,
         BeginFrom(r, kind, u, pc, row, d)
  PROVE  Fresher(r, kind, u, pc, row)
<1> DEFINE l == [Idle EXCEPT !.pc = pc, !.kind = kind, !.user = u, !.read = row, !.device = d]
<1>1. l \in Locals
  BY IdleLocals DEF Locals
<1>2. l.pc = pc /\ l.kind = kind /\ l.user = u /\ l.read = row
  BY IdleLocals DEF Locals
<1>3. Becomes(r, l)
  BY <1>1, UpdateEffect DEF BeginFrom, Inv, TypeOK
<1> QED
  BY <1>1, <1>2, <1>3 DEF Fresher, Becomes

LEMMA BeginEffect ==
  ASSUME Inv, NEW r \in Requests, NEW kind \in Kinds, NEW u \in Users, NEW pc \in Steps,
         Begin(r, kind, u, pc)
  PROVE  Fresher(r, kind, u, pc, NoUser)
<1> DEFINE l == [Idle EXCEPT !.pc = pc, !.kind = kind, !.user = u]
<1>1. l \in Locals
  BY IdleLocals DEF Locals
<1>2. l.pc = pc /\ l.kind = kind /\ l.user = u /\ l.read = NoUser
  BY IdleLocals DEF Locals
<1>3. Becomes(r, l)
  BY <1>1, UpdateEffect DEF Begin, Inv, TypeOK
<1> QED
  BY <1>1, <1>2, <1>3 DEF Fresher, Becomes

-----------------------------------------------------------------------------
(* The requests that begin. *)

LEMMA SignInStep ==
  ASSUME Inv, NEW r \in Requests, NEW e \in Emails, NEW d \in Devices, SignIn(r, e, d)
  PROVE  Inv'
<1>1. e \in Users /\ user[e] \in Row \cup {NoUser}
  BY DEF Users, Inv, TypeOK
<1>2. CASE BeginFrom(r, "signIn", e, "find", NoUser, d)
  <2>1. Fresher(r, "signIn", e, "find", NoUser)
    BY <1>1, <1>2, BeginFromEffect DEF Kinds, Steps
  <2>2. Moved
    BY <2>1, BecomesMoves DEF Fresher, Known, Coded
  <2> QED
    BY <2>2, LocalsStep DEF SignIn
<1>3. CASE /\ Exists(e)
           /\ BeginFrom(r, "signIn", e, AfterCredentials(user[e]), user[e], d)
  <2>1. AfterCredentials(user[e]) \in {"sign", "code"}
    BY DEF AfterCredentials
  <2>2. Fresher(r, "signIn", e, AfterCredentials(user[e]), user[e])
    BY <1>1, <1>3, <2>1, BeginFromEffect DEF Kinds, Steps
  <2>3. AfterCredentials(user[e]) = "sign" => user[e].verified
    BY DEF AfterCredentials, Granted
  <2>4. Moved
    BY <1>3, <2>1, <2>2, <2>3, BecomesMoves DEF Fresher, Known, Coded, Exists, SignIn
  <2> QED
    BY <2>4, LocalsStep DEF SignIn
<1> QED
  BY <1>2, <1>3 DEF SignIn

LEMMA OauthCallbackStep ==
  ASSUME Inv, NEW r \in Requests, NEW e \in Emails, NEW d \in Devices, OauthCallback(r, e, d)
  PROVE  Inv'
<1>1. Fresher(r, "oauth", e, "find", NoUser)
  BY BeginFromEffect DEF OauthCallback, Users, Kinds, Steps
<1>2. Moved
  BY <1>1, BecomesMoves DEF Fresher, Known, Coded
<1> QED
  BY <1>2, LocalsStep DEF OauthCallback

LEMMA LinkAccountStep ==
  ASSUME Inv, NEW r \in Requests, LinkAccount(r)
  PROVE  Inv'
<1>1. req[r] \in Locals /\ Known(req[r], user) /\ Coded(req[r], authCode, mailed)
  BY DEF Inv, TypeOK
<1>2. CASE Goto(r, "sign")
  <2>1. Gone(r, "sign", req[r].read)
    BY <1>1, <1>2, GotoEffect DEF Goto, Steps, Locals
  <2>2. UNCHANGED <<user, authCode, mailed>> /\ req[r].pc = "link"
    BY DEF LinkAccount, At
  <2>3. Known(req'[r], user') /\ Coded(req'[r], authCode', mailed')
    BY <1>1, <2>1, <2>2 DEF Gone, Known, Coded
  <2>4. Moved
    BY <2>1, <2>3, BecomesMoves DEF Gone
  <2> QED
    BY <2>4, LocalsStep DEF LinkAccount
<1>3. CASE Answer(r)
  BY <1>3, AnswerEffect, LocalsStep DEF LinkAccount
<1> QED
  BY <1>2, <1>3 DEF LinkAccount

LEMMA VerifyResetCodeStep ==
  ASSUME Inv, NEW r \in Requests, NEW e \in Emails, VerifyResetCode(r, e)
  PROVE  Inv'
<1>1. Idle.device \in Devices
  BY IdleLocals DEF Locals
<1>2. Fresher(r, "resetVerify", e, "find", NoUser)
  BY <1>1, BeginFromEffect DEF VerifyResetCode, Users, Kinds, Steps
<1>3. Moved
  BY <1>2, BecomesMoves DEF Fresher, Known, Coded
<1> QED
  BY <1>3, LocalsStep DEF VerifyResetCode

(* The code that is accepted is the one in the cache for the email. *)
LEMMA VerifyAuthCodeStep ==
  ASSUME Inv, NEW r \in Requests, NEW e \in Emails, NEW code \in Nat, NEW d \in Devices,
         VerifyAuthCode(r, e, code, d)
  PROVE  Inv'
<1> DEFINE l == [Idle EXCEPT !.pc = "find", !.kind = "verify", !.user = e,
                             !.code = code, !.device = d]
<1>1. l \in Locals
  BY IdleLocals DEF Locals, Steps, Kinds, Users
<1>2. /\ l.pc = "find" /\ l.kind = "verify" /\ l.user = e /\ l.read = NoUser
      /\ l.code = code
  BY IdleLocals DEF Locals
<1>3. Becomes(r, l)
  BY <1>1, UpdateEffect DEF VerifyAuthCode, Inv, TypeOK
<1>4. code \in 1 .. mailed /\ \A f \in Emails : authCode[f] = code => f = e
  BY DEF VerifyAuthCode, Inv, TypeOK, CodesInv
<1> HIDE DEF l
<1>5. Known(l, user) /\ Coded(l, authCode, mailed)
  BY <1>2, <1>4 DEF Known, Coded
<1>6. Moved
  BY <1>1, <1>2, <1>3, <1>5, BecomesMoves DEF VerifyAuthCode
<1> QED
  BY <1>6, LocalsStep DEF VerifyAuthCode

LEMMA CreateGuestStep ==
  ASSUME Inv, NEW r \in Requests, NEW g \in Guests, NEW d \in Devices, CreateGuest(r, g, d)
  PROVE  Inv' /\ Kept(user, user')
<1> DEFINE row == [password |-> FALSE, verified |-> FALSE, status |-> "guest"]
<1>0. row \in Row /\ ~row.verified /\ row.status = "guest"
  BY DEF Row, Statuses
<1> HIDE DEF row
<1>1. row \in Row /\ row # NoUser /\ g \in Users /\ g \notin Emails /\ user \in Rows
  BY <1>0, AccountsAssumption DEF Users, Inv, TypeOK, Rows
<1>2. user' = [user EXCEPT ![g] = row] /\ user[g] = NoUser
  BY DEF CreateGuest, Exists, row
<1>3. user' \in Rows /\ Kept(user, user') /\ user'[g] # NoUser
  BY <1>1, <1>2 DEF Rows, Kept
<1>4. StatusEarned(user')
  BY <1>0, <1>1, <1>2 DEF Inv, StatusEarned, Rows
<1>5. Fresher(r, "guest", g, "sign", NoUser)
  BY <1>1, BeginFromEffect DEF CreateGuest, Kinds, Steps
<1>6. Moved
  BY <1>1, <1>3, <1>5, BecomesMoves DEF Fresher, Known, Coded
<1> QED
  BY <1>3, <1>4, <1>6, RowsStep DEF CreateGuest

LEMMA ValidateRefreshStep ==
  ASSUME Inv, NEW r \in Requests, NEW s \in sessions, NEW kind \in {"refresh", "logout"},
         ValidateRefresh(r, s.token, s.device, kind)
  PROVE  Inv'
<1> DEFINE pc == IF kind = "refresh" THEN "touch" ELSE "drop"
           l == [Idle EXCEPT !.kind = kind, !.token = s.token, !.device = s.device,
                             !.user = s.token.sub, !.pc = pc]
<1>1. s \in Session
  BY DEF Inv, TypeOK
<1>2. pc \in {"touch", "drop"}
  OBVIOUS
<1> HIDE DEF pc
<1>3. l \in Locals
  BY <1>1, <1>2, IdleLocals DEF Locals, Steps, Kinds, Session, Token
<1>4. l.pc = pc /\ l.kind = kind /\ l.read = NoUser
  BY IdleLocals DEF Locals
<1>5. Becomes(r, l)
  BY <1>3, UpdateEffect DEF ValidateRefresh, Inv, TypeOK, pc
<1> HIDE DEF l
<1>6. Known(l, user) /\ Coded(l, authCode, mailed)
  BY <1>2, <1>4 DEF Known, Coded
<1>7. Moved
  BY <1>2, <1>3, <1>4, <1>5, <1>6, BecomesMoves DEF ValidateRefresh
<1> QED
  BY <1>7, LocalsStep DEF ValidateRefresh

(* Requests that begin with a look at the user. *)
LEMMA LookStep ==
  ASSUME Inv, NEW r \in Requests, NEW u \in Users,
         \/ UpdateProfile(r, u) \/ ChangeEmail(r, u)
         \/ Authenticate(r, u) \/ ResetSubscription(r, u)
  PROVE  Inv'
<1>1. PICK kind \in Kinds, pc \in {"validate", "invalidate", "lookup"} :
        kind # "verify" /\ Begin(r, kind, u, pc)
  BY DEF UpdateProfile, ChangeEmail, Authenticate, ResetSubscription, Kinds
<1>2. Fresher(r, kind, u, pc, NoUser)
  BY <1>1, BeginEffect DEF Steps
<1>3. user[u] # NoUser /\ UNCHANGED <<user, authCode, mailed>>
  BY DEF UpdateProfile, ChangeEmail, Authenticate, ResetSubscription, Exists
<1>4. Moved
  BY <1>1, <1>2, <1>3, BecomesMoves DEF Fresher, Known, Coded
<1> QED
  BY <1>4, LocalsStep DEF UpdateProfile, ChangeEmail, Authenticate, ResetSubscription

-----------------------------------------------------------------------------
(* The requests that go on: saveUser. *)

LEMMA FindUserStep ==
  ASSUME Inv, NEW r \in Requests, FindUser(r)
  PROVE  Inv'
<1>1. req[r] \in Locals /\ Known(req[r], user) /\ Coded(req[r], authCode, mailed)
  BY DEF Inv, TypeOK
<1>2. req[r].user \in Users /\ user[req[r].user] \in Row \cup {NoUser}
  BY <1>1 DEF Locals, Inv, TypeOK
<1>3. Gone(r, "save", user[req[r].user])
  BY <1>2, GotoEffect DEF FindUser, Steps
<1>4. UNCHANGED <<user, authCode, mailed>> /\ req[r].pc = "find"
  BY DEF FindUser, At
<1>5. Known(req'[r], user') /\ Coded(req'[r], authCode', mailed')
  BY <1>1, <1>3, <1>4 DEF Gone, Known, Coded
<1>6. Moved
  BY <1>3, <1>5, BecomesMoves DEF Gone
<1> QED
  BY <1>6, LocalsStep DEF FindUser

(* What saveUser leaves behind is a row, confirmed if it was, or if the     *)
(* request confirms the email; and VERIFIED is written with a confirmation. *)
LEMMA SavedEffect ==
  ASSUME NEW row \in Row, NEW l \in Locals
  PROVE  /\ Saved(row, l) \in Row /\ Saved(row, l) # NoUser
         /\ row.verified \/ Confirms(l.kind) => Saved(row, l).verified
         /\ Saved(row, l).status = "verified" => row.status = "verified" \/ Confirms(l.kind)
<1>1. Saved(row, l) \in Row
  BY DEF Saved, Row, Statuses, Confirms, SetsPassword
<1>2. row.verified \/ Confirms(l.kind) => Saved(row, l).verified
  BY DEF Saved
<1>3. Saved(row, l).status = "verified" => row.status = "verified" \/ Confirms(l.kind)
  BY DEF Saved, Confirms
<1> QED
  BY <1>1, <1>2, <1>3, AccountsAssumption

LEMMA InsertedEffect ==
  ASSUME NEW l \in Locals
  PROVE  /\ Inserted(l) \in Row /\ Inserted(l) # NoUser
         /\ Inserted(l).verified <=> Confirms(l.kind)
         /\ Inserted(l).status = "verified" => Confirms(l.kind)
<1>1. Inserted(l) \in Row
  BY DEF Inserted, Row, Statuses, Confirms, SetsPassword
<1>2. Inserted(l).verified <=> Confirms(l.kind)
  BY DEF Inserted
<1>3. Inserted(l).status = "verified" => Confirms(l.kind)
  BY DEF Inserted
<1> QED
  BY <1>1, <1>2, <1>3, AccountsAssumption

LEMMA AfterSaveEffect ==
  ASSUME NEW kind \in {"signIn", "verify", "resetVerify", "oauth"}, NEW row
  PROVE  /\ AfterSave(kind, row) \in {"link", "sign", "code", "spend", "idle"}
         /\ AfterSave(kind, row) \in {"link", "sign"} => row.verified \/ Confirms(kind)
         /\ AfterSave(kind, row) = "spend" => kind = "verify" /\ Confirms(kind)
BY DEF AfterSave, AfterCredentials, Granted, Confirms

(* A row written in the place of the one of u. *)
LEMMA RowWritten ==
  ASSUME Inv, NEW u \in Users, NEW row \in Row, row # NoUser,
         user' = [user EXCEPT ![u] = row],
         user[u] # NoUser /\ user[u].verified => row.verified,
         row.status = "verified" => row.verified
  PROVE  /\ user' \in Rows /\ Kept(user, user') /\ StatusEarned(user')
         /\ user'[u] = row
<1>1. user \in Rows
  BY DEF Inv, TypeOK, Rows
<1>2. user' \in Rows /\ user'[u] = row /\ \A x \in Users : x # u => user'[x] = user[x]
  BY <1>1 DEF Rows
<1>3. Kept(user, user')
  BY <1>2 DEF Kept
<1>4. StatusEarned(user')
  BY <1>2 DEF Inv, StatusEarned
<1> QED
  BY <1>2, <1>3, <1>4

LEMMA SaveUserStep ==
  ASSUME Inv, NEW r \in Requests, SaveUser(r)
  PROVE  Inv' /\ Kept(user, user')
<1> DEFINE l == req[r]
           u == req[r].user
<1>1. l \in Locals /\ Known(l, user) /\ Coded(l, authCode, mailed) /\ u \in Users
  BY DEF Inv, TypeOK, Locals
<1>2. l.pc = "save" /\ u \in Emails /\ l.kind \in {"signIn", "verify", "resetVerify", "oauth"}
  BY <1>1 DEF SaveUser, At, Known
<1>3. UNCHANGED <<cached, authCode, resetCode, mailed, sessions, second, spent, signIns>>
  BY DEF SaveUser
<1>4. ASSUME NEW row \in Row, row # NoUser, user' = [user EXCEPT ![u] = row],
             user[u] # NoUser /\ user[u].verified => row.verified,
             row.status = "verified" => row.verified,
             Confirms(l.kind) => row.verified,
             NEW from, Goto(r, AfterSave(l.kind, from)), from.verified => row.verified
      PROVE  Inv' /\ Kept(user, user')
  <2>1. user' \in Rows /\ Kept(user, user') /\ StatusEarned(user') /\ user'[u] = row
    BY <1>1, <1>4, RowWritten
  <2> DEFINE pc == AfterSave(l.kind, from)
  <2>2. /\ pc \in {"link", "sign", "code", "spend", "idle"}
        /\ pc \in {"link", "sign", "spend"} => row.verified
        /\ pc = "spend" => l.kind = "verify"
    BY <1>2, <1>4, AfterSaveEffect
  <2>3. GotoWith(r, pc, l.read) /\ l.read \in Row \cup {NoUser}
    BY <1>1, <1>4 DEF Goto, Locals
  <2> HIDE DEF pc
  <2>4. Gone(r, pc, l.read)
    BY <2>2, <2>3, GotoEffect DEF Steps
  <2>5. Known(l, user')
    BY <1>1, <2>1, KnownKept DEF Inv, TypeOK, Rows
  <2>6. CASE pc = "idle"
    BY <1>3, <2>1, <2>4, <2>6, IdleKnown, IdleLocals, BecomesMoves, RowsStep DEF Gone
  <2>7. CASE pc # "idle"
    <3>1. Known(req'[r], user')
      BY <1>2, <1>4, <2>1, <2>2, <2>4, <2>5, <2>7 DEF Gone, Known
    <3>2. Coded(req'[r], authCode', mailed')
      BY <1>1, <1>2, <1>3, <2>2, <2>4, <2>7 DEF Gone, Coded
    <3>3. Moved
      BY <2>2, <2>4, <2>7, <3>1, <3>2, BecomesMoves DEF Gone
    <3> QED
      BY <1>3, <2>1, <3>3, RowsStep
  <2> QED
    BY <2>6, <2>7
<1>5. CASE /\ l.read # NoUser
           /\ user' = [user EXCEPT ![u] = Saved(@, l)]
           /\ Goto(r, AfterSave(l.kind, l.read))
  <2>1. user[u] # NoUser /\ user[u] \in Row
    BY <1>1, <1>5 DEF Known, Inv, TypeOK
  <2>2. l.read.verified => user[u].verified
    BY <1>1, <1>5 DEF Known
  <2>3. user[u].status = "verified" => user[u].verified
    BY <1>1, <2>1 DEF Inv, StatusEarned
  <2> QED
    BY <1>1, <1>4, <1>5, <2>1, <2>2, <2>3, SavedEffect
<1>6. CASE /\ l.read = NoUser /\ ~Exists(u)
           /\ user' = [user EXCEPT ![u] = Inserted(l)]
           /\ Goto(r, AfterSave(l.kind, Inserted(l)))
  BY <1>1, <1>4, <1>6, InsertedEffect DEF Exists
<1>7. CASE Answer(r) /\ UNCHANGED user
  BY <1>3, <1>7, AnswerEffect, LocalsStep DEF Kept
<1> QED
  BY <1>5, <1>6, <1>7 DEF SaveUser

-----------------------------------------------------------------------------
(* Codes. *)

LEMMA SendAuthCodeStep ==
  ASSUME Inv, NEW r \in Requests, SendAuthCode(r)
  PROVE  Inv'
<1>1. /\ mailed \in Nat /\ authCode \in [Emails -> Nat] /\ resetCode \in SUBSET Emails
      /\ spent \in SUBSET Nat
  BY DEF Inv, TypeOK
<1>2. /\ mailed' = mailed + 1
      /\ authCode' = [authCode EXCEPT ![req[r].user] = mailed + 1]
  BY DEF SendAuthCode
<1>3. authCode' \in [Emails -> Nat] /\ Fresh
  <2>1. mailed + 1 \in Nat
    BY <1>1
  <2>2. authCode' \in [Emails -> Nat]
    BY <1>1, <1>2, <2>1
  <2>3. \A e \in Emails : authCode'[e] = authCode[e] \/ authCode'[e] = mailed + 1
    BY <1>1, <1>2
  <2>4. Fresh
    BY <2>3 DEF Fresh
  <2> QED
    BY <2>2, <2>4
<1>4. CodesInv(authCode', mailed', spent') /\ SpentCodeIsRefused'
  <2>1. CodesInv(authCode, mailed, spent) /\ SpentCodeIsRefused /\ spent' = spent
    BY DEF Inv, SendAuthCode
  <2>2. \A e \in Emails : authCode'[e] = authCode[e] \/ authCode'[e] = mailed + 1
    BY <1>1, <1>2
  <2>3. \A e, f \in Emails : authCode'[e] = mailed + 1 /\ authCode'[f] = mailed + 1 => e = f
    <3>1. \A e \in Emails : authCode[e] # mailed + 1
      BY <1>1, <2>1 DEF CodesInv
    <3> QED
      BY <1>1, <1>2, <3>1
  <2>4. \A e \in Emails : authCode'[e] \in Nat /\ authCode[e] \in Nat
    BY <1>1, <1>3
  <2>5. CodesInv(authCode', mailed', spent')
    BY <1>1, <1>2, <2>1, <2>2, <2>3, <2>4 DEF CodesInv
  <2>6. SpentCodeIsRefused'
    BY <1>1, <2>1, <2>2 DEF CodesInv, SpentCodeIsRefused
  <2> QED
    BY <2>5, <2>6
<1>5. Moved
  BY AnswerEffect DEF SendAuthCode
<1> QED
  BY <1>1, <1>2, <1>3, <1>4, <1>5, CodesStep DEF SendAuthCode

(* The key that is deleted is the only one with the code. *)
LEMMA SpendCodeStep ==
  ASSUME Inv, NEW r \in Requests, SpendCode(r)
  PROVE  Inv'
<1> DEFINE u == req[r].user
           code == req[r].code
<1>1. /\ mailed \in Nat /\ authCode \in [Emails -> Nat] /\ resetCode \in SUBSET Emails
      /\ spent \in SUBSET Nat /\ req[r] \in Locals /\ code \in Nat
  BY DEF Inv, TypeOK, Locals
<1>2. /\ req[r].pc = "spend" /\ authCode' = [authCode EXCEPT ![u] = 0]
      /\ spent' = spent \cup {code} /\ Goto(r, "load")
      /\ UNCHANGED <<user, cached, resetCode, mailed, sessions, second, signIns>>
  BY DEF SpendCode, DeleteCode, At
<1>3. u \in Emails /\ user[u] # NoUser /\ user[u].verified
  BY <1>2 DEF Inv, Known
<1>4. Gone(r, "load", req[r].read)
  BY <1>1, <1>2, GotoEffect DEF Goto, Steps, Locals
<1>5. Known(req'[r], user') /\ Coded(req'[r], authCode', mailed')
  <2>1. Known(req[r], user)
    BY DEF Inv
  <2> QED
    BY <1>2, <1>3, <1>4, <2>1 DEF Gone, Known, Coded
<1>6. Moved
  BY <1>4, <1>5, BecomesMoves DEF Gone
<1>7. req[r].kind = "verify" =>
        code \in 1 .. mailed /\ \A e \in Emails : authCode[e] = code => e = u
  BY <1>2 DEF Inv, Coded
<1>8. authCode' \in [Emails -> Nat] /\ Fresh
  BY <1>1, <1>2 DEF Fresh
<1>9. CASE req[r].kind = "verify"
  <2>1. CodesInv(authCode', mailed', spent')
    BY <1>1, <1>2, <1>7, <1>9 DEF Inv, CodesInv
  <2>2. SpentCodeIsRefused'
    BY <1>1, <1>2, <1>7, <1>9 DEF Inv, CodesInv, SpentCodeIsRefused
  <2> QED
    BY <1>1, <1>2, <1>6, <1>8, <2>1, <2>2, CodesStep
<1>10. Known(req[r], user)
  BY DEF Inv
<1> QED
  BY <1>2, <1>9, <1>10 DEF Known

LEMMA LoadVerifiedStep ==
  ASSUME Inv, NEW r \in Requests, LoadVerified(r)
  PROVE  Inv'
<1> DEFINE u == req[r].user
<1>1. req[r] \in Locals /\ u \in Users /\ user[u] \in Row \cup {NoUser}
  BY DEF Inv, TypeOK, Locals
<1>2. req[r].pc = "load" /\ UNCHANGED <<user, authCode, mailed>>
  BY DEF LoadVerified, At
<1>3. user[u] # NoUser /\ user[u].verified
  BY <1>2 DEF Inv, Known
<1>4. Gone(r, "sign", user[u])
  BY <1>1, GotoEffect DEF LoadVerified, Steps
<1>5. Known(req'[r], user') /\ Coded(req'[r], authCode', mailed')
  BY <1>2, <1>3, <1>4 DEF Gone, Known, Coded
<1>6. Moved
  BY <1>4, <1>5, BecomesMoves DEF Gone
<1> QED
  BY <1>6, LocalsStep DEF LoadVerified

(* Codes expire, and reset codes come and go. *)
LEMMA CodeEnvironmentStep ==
  ASSUME Inv, NEW e \in Emails, SendResetCode(e) \/ AuthCodeExpires(e) \/ ResetCodeExpires(e)
  PROVE  Inv'
<1>1. /\ mailed \in Nat /\ authCode \in [Emails -> Nat] /\ resetCode \in SUBSET Emails
      /\ spent \in SUBSET Nat /\ req \in [Requests -> Locals]
  BY DEF Inv, TypeOK
<1>2. /\ UNCHANGED <<user, cached, sessions, second, signIns, req, mailed, spent>>
      /\ resetCode' \in SUBSET Emails
      /\ authCode' = authCode \/ authCode' = [authCode EXCEPT ![e] = 0]
  BY <1>1 DEF SendResetCode, AuthCodeExpires, ResetCodeExpires
<1>3. Moved
  BY <1>1, <1>2 DEF Moved, Moves
<1>4. authCode' \in [Emails -> Nat] /\ Fresh
  BY <1>1, <1>2 DEF Fresh
<1>5. CodesInv(authCode', mailed', spent') /\ SpentCodeIsRefused'
  BY <1>1, <1>2 DEF Inv, CodesInv, SpentCodeIsRefused
<1> QED
  BY <1>1, <1>2, <1>3, <1>4, <1>5, CodesStep

-----------------------------------------------------------------------------
(* Sessions. *)

LEMMA SignTokenStep ==
  ASSUME Inv, NEW r \in Requests, SignToken(r)
  PROVE  Inv'
<1> DEFINE token == [sub |-> req[r].user, iat |-> second]
           l == [req[r] EXCEPT !.pc = "store", !.token = token]
<1>1. req \in [Requests -> Locals] /\ req[r] \in Locals /\ Known(req[r], user)
  BY DEF Inv, TypeOK
<1>2. token \in Token /\ token.sub = req[r].user
  BY <1>1 DEF Token, Locals, Inv, TypeOK
<1> HIDE DEF token
<1>3. l = [[req[r] EXCEPT !.pc = "store"] EXCEPT !.token = token]
  OBVIOUS
<1>4. [req[r] EXCEPT !.pc = "store"] \in Locals
  BY <1>1 DEF Locals, Steps
<1>5. l \in Locals
  BY <1>2, <1>3, <1>4 DEF Locals
<1>6. /\ l.pc = "store" /\ l.token = token /\ l.read = req[r].read
      /\ l.kind = req[r].kind /\ l.user = req[r].user
  BY <1>1 DEF Locals
<1>7. req' = [req EXCEPT ![r] = l] /\ req[r].pc = "sign" /\ UNCHANGED <<user, authCode, mailed>>
  BY DEF SignToken, At, token
<1> HIDE DEF l
<1>8. Becomes(r, l)
  BY <1>1, <1>5, <1>7, UpdateEffect
<1>9. Known(l, user') /\ Coded(l, authCode', mailed')
  BY <1>1, <1>2, <1>6, <1>7 DEF Known, Coded
<1>10. Moves
  BY <1>5, <1>8, <1>9, BecomesMoves
<1> DEFINE key == <<token, req[r].device>>
<1>11. /\ key \in Token \X Devices /\ signIns' = [signIns EXCEPT ![key] = @ + 1]
       /\ UNCHANGED <<cached, resetCode, sessions, second, spent>>
  BY <1>1, <1>2 DEF SignToken, token, Locals
<1>12. l.device = req[r].device
  BY <1>1 DEF Locals, l
<1> HIDE DEF key
<1>13. TypeOK'
  BY <1>7, <1>10, <1>11 DEF Inv, TypeOK, Moves
<1>14. \A q \in Requests : Known(req'[q], user') /\ Coded(req'[q], authCode', mailed')
  BY <1>7, <1>10, RequestsKept DEF Fresh, Inv, TypeOK, Rows, Kept
<1>15. Held(req', sessions', signIns')
  <2> SUFFICES ASSUME NEW x \in Token \X Devices
               PROVE  Cardinality(Pending(x, req')) + (IF HasKey(x, sessions) THEN 1 ELSE 0)
                        <= signIns'[x]
    BY <1>11 DEF Held
  <2>1. /\ Cardinality(Pending(x, req)) + (IF HasKey(x, sessions) THEN 1 ELSE 0) <= signIns[x]
        /\ signIns[x] \in Nat /\ signIns'[x] = IF x = key THEN signIns[x] + 1 ELSE signIns[x]
    BY <1>11 DEF Inv, Held, TypeOK
  <2>2. /\ r \notin Pending(x, req)
        /\ Pending(x, req') = IF x = key THEN Pending(x, req) \cup {r} ELSE Pending(x, req)
    BY <1>6, <1>7, <1>8, <1>12 DEF Pending, Becomes, key
  <2>3. x = key => Cardinality(Pending(x, req')) = Cardinality(Pending(x, req)) + 1
    BY <2>2, PendingFinite, FS_AddElement
  <2> QED
    BY <2>1, <2>2, <2>3, PendingFinite
<1> QED
  BY <1>7, <1>11, <1>13, <1>14, <1>15 DEF Inv, OneSessionPerDevice, SpentCodeIsRefused

(* The sign-ins of some of the sessions end. *)
LEMMA WithoutEffect ==
  ASSUME Inv, NEW ss \in SUBSET sessions, signIns' = Without(ss)
  PROVE  /\ signIns' \in [Token \X Devices -> Nat]
         /\ \A x \in Token \X Devices :
              signIns'[x] = IF HasKey(x, ss) THEN signIns[x] - 1 ELSE signIns[x]
<1>1. \A x \in Token \X Devices :
        signIns'[x] = IF HasKey(x, ss) THEN signIns[x] - 1 ELSE signIns[x]
  BY DEF Without, HasKey
<1>2. ASSUME NEW x \in Token \X Devices
      PROVE  signIns'[x] \in Nat
  <2>1. signIns[x] \in Nat /\ (HasKey(x, sessions) => signIns[x] >= 1)
    <3>1. /\ Cardinality(Pending(x, req)) + (IF HasKey(x, sessions) THEN 1 ELSE 0)
               <= signIns[x]
          /\ signIns[x] \in Nat
      BY DEF Inv, Held, TypeOK
    <3> QED
      BY <3>1, PendingFinite
  <2>2. HasKey(x, ss) => HasKey(x, sessions)
    BY DEF HasKey
  <2> QED
    BY <1>1, <2>1, <2>2
<1> QED
  BY <1>1, <1>2 DEF Without

(* The sessions of other devices stay; the one that is stored has the token *)
(* of its user, so every session with a key that ends was of that user.     *)
LEMMA StoreSessionStep ==
  ASSUME Inv, NEW r \in Requests, StoreSession(r)
  PROVE  Inv'
<1> DEFINE l == req[r]
           old == {s \in sessions : SameDevice(s, l)}
           new == [user |-> l.user, device |-> l.device, token |-> l.token,
                   active |-> second]
<1>1. /\ l \in Locals /\ Known(l, user) /\ sessions \in SUBSET Session
      /\ second \in 0 .. MaxSecond
  BY DEF Inv, TypeOK
<1>2. /\ l.pc = "store" /\ sessions' = (sessions \ old) \cup {new}
      /\ signIns' = Without(old)
      /\ UNCHANGED <<user, cached, authCode, resetCode, mailed, second, spent>>
  BY DEF StoreSession, At
<1>3. /\ new \in Session /\ new.user = l.user /\ new.device = l.device
      /\ new.token = l.token
  BY <1>1 DEF Session, Locals
<1>4. /\ user[l.user] # NoUser /\ (l.user \in Emails => user[l.user].verified)
      /\ l.token.sub = l.user
  BY <1>1, <1>2 DEF Known
<1> HIDE DEF new
<1>5. sessions' \in SUBSET Session
  BY <1>1, <1>2, <1>3
<1>6. /\ signIns' \in [Token \X Devices -> Nat]
      /\ \A x \in Token \X Devices :
           signIns'[x] = IF HasKey(x, old) THEN signIns[x] - 1 ELSE signIns[x]
  BY <1>2, WithoutEffect
<1>7. SessionsInv(sessions', user)
  BY <1>2, <1>3, <1>4 DEF Inv, SessionsInv
<1>8. OneSessionPerDevice'
  BY <1>2, <1>3 DEF Inv, OneSessionPerDevice, SameDevice
<1>9. Held(req', sessions', signIns')
  <2> DEFINE key == <<l.token, l.device>>
  <2> SUFFICES ASSUME NEW x \in Token \X Devices
               PROVE  Cardinality(Pending(x, req')) + (IF HasKey(x, sessions') THEN 1 ELSE 0)
                        <= signIns'[x]
    BY DEF Held
  <2>1. /\ Cardinality(Pending(x, req)) + (IF HasKey(x, sessions) THEN 1 ELSE 0) <= signIns[x]
        /\ signIns[x] \in Nat
    BY DEF Inv, Held, TypeOK
  <2>2. /\ Pending(x, req') = IF x = key THEN Pending(x, req) \ {r} ELSE Pending(x, req)
        /\ x = key => r \in Pending(x, req)
    <3>1. Becomes(r, Idle)
      BY UpdateEffect, IdleLocals DEF StoreSession, Answer, Inv, TypeOK
    <3> QED
      BY <1>2, <3>1, IdleLocals DEF Pending, Becomes
  <2>3. x = key => Cardinality(Pending(x, req')) = Cardinality(Pending(x, req)) - 1
    BY <2>2, PendingFinite, FS_RemoveElement
  <2>4. HasKey(x, old) => HasKey(x, sessions)
    BY DEF HasKey
  <2>5. x # key /\ HasKey(x, sessions') => HasKey(x, sessions)
    BY <1>2, <1>3 DEF HasKey
  <2>6. ASSUME x # key, HasKey(x, old)
        PROVE  ~HasKey(x, sessions')
    <3> SUFFICES ASSUME NEW s \in sessions', x = <<s.token, s.device>>
                 PROVE  FALSE
      BY DEF HasKey
    <3>1. s \in sessions /\ s \notin old
      BY <1>2, <1>3, <2>6
    <3>2. PICK o \in old : x = <<o.token, o.device>>
      BY <2>6 DEF HasKey
    <3>3. s.token = o.token /\ s.device = o.device
      BY <3>2
    <3>4. s.user = o.user
      BY <3>1, <3>2, <3>3 DEF Inv, SessionsInv
    <3> QED
      BY <3>1, <3>2, <3>3, <3>4 DEF SameDevice
  <2> HIDE DEF key, old
  <2> QED
    BY <1>6, <2>1, <2>2, <2>3, <2>4, <2>5, <2>6, PendingFinite
<1>10. Moved
  BY AnswerEffect DEF StoreSession
<1> QED
  BY <1>2, <1>5, <1>6, <1>7, <1>8, <1>9, <1>10, SessionsStep

(* An UPDATE changes the activity of rows, and no row comes or goes. *)
LEMMA UpdateActivityStep ==
  ASSUME Inv, NEW r \in Requests, UpdateActivity(r)
  PROVE  Inv'
<1> DEFINE l == req[r]
           touched(s) == IF s.token = l.token THEN [s EXCEPT !.active = second] ELSE s
<1>1. /\ sessions \in SUBSET Session /\ second \in 0 .. MaxSecond
      /\ signIns \in [Token \X Devices -> Nat]
  BY DEF Inv, TypeOK
<1>2. /\ sessions' = {touched(s) : s \in sessions}
      /\ UNCHANGED <<user, cached, authCode, resetCode, mailed, second, spent, signIns>>
  BY DEF UpdateActivity, Touched
<1>3. \A s \in sessions : /\ touched(s) \in Session /\ touched(s).user = s.user
                          /\ touched(s).device = s.device /\ touched(s).token = s.token
  BY <1>1 DEF Session
<1> HIDE DEF touched
<1>4. sessions' \in SUBSET Session
  BY <1>2, <1>3
<1>5. SessionsInv(sessions', user)
  BY <1>2, <1>3 DEF Inv, SessionsInv
<1>6. OneSessionPerDevice'
  <2> SUFFICES ASSUME NEW s \in sessions, NEW t \in sessions,
                      touched(s).user = touched(t).user,
                      touched(s).device = touched(t).device
               PROVE  touched(s) = touched(t)
    BY <1>2 DEF OneSessionPerDevice
  <2>1. s = t
    BY <1>3 DEF Inv, OneSessionPerDevice
  <2> QED
    BY <2>1
<1>7. Moved
  BY AnswerEffect DEF UpdateActivity
<1>8. Held(req', sessions', signIns')
  <2>1. \A s \in sessions' : HasKey(<<s.token, s.device>>, sessions)
    BY <1>2, <1>3 DEF HasKey
  <2> QED
    BY <1>2, <1>7, <2>1, HeldKept
<1> QED
  BY <1>1, <1>2, <1>4, <1>5, <1>6, <1>7, <1>8, SessionsStep

LEMMA InvalidateSessionStep ==
  ASSUME Inv, NEW r \in Requests, InvalidateSession(r)
  PROVE  Inv'
<1> DEFINE token == req[r].token
           d == req[r].device
           old == Found(token, d)
<1>1. sessions \in SUBSET Session /\ old \in SUBSET sessions
  BY DEF Inv, TypeOK, Found
<1>2. /\ sessions' = sessions \ old /\ signIns' = Without(old)
      /\ UNCHANGED <<user, cached, authCode, resetCode, mailed, second, spent>>
  BY DEF InvalidateSession
<1>3. sessions' \in SUBSET Session
  BY <1>1, <1>2
<1>4. /\ signIns' \in [Token \X Devices -> Nat]
      /\ \A x \in Token \X Devices :
           signIns'[x] = IF HasKey(x, old) THEN signIns[x] - 1 ELSE signIns[x]
  BY <1>1, <1>2, WithoutEffect
<1>5. SessionsInv(sessions', user) /\ OneSessionPerDevice'
  BY <1>2 DEF Inv, SessionsInv, OneSessionPerDevice
<1>6. Held(req', sessions', signIns')
  <2> SUFFICES ASSUME NEW x \in Token \X Devices
               PROVE  Cardinality(Pending(x, req')) + (IF HasKey(x, sessions') THEN 1 ELSE 0)
                        <= signIns'[x]
    BY DEF Held
  <2>1. /\ Cardinality(Pending(x, req)) + (IF HasKey(x, sessions) THEN 1 ELSE 0) <= signIns[x]
        /\ signIns[x] \in Nat
    BY DEF Inv, Held, TypeOK
  <2>2. Pending(x, req') \subseteq Pending(x, req)
    <3>1. Moved
      BY AnswerEffect DEF InvalidateSession
    <3> QED
      BY <3>1 DEF Moved, Pending
  <2>3. Cardinality(Pending(x, req')) <= Cardinality(Pending(x, req))
    BY <2>2, PendingFinite, FS_Subset
  <2>4. HasKey(x, old) => HasKey(x, sessions) /\ ~HasKey(x, sessions')
    BY <1>2 DEF HasKey, Found
  <2>5. HasKey(x, sessions') => HasKey(x, sessions)
    BY <1>2 DEF HasKey
  <2> HIDE DEF old
  <2> QED
    BY <1>4, <2>1, <2>3, <2>4, <2>5, PendingFinite
<1>7. Moved
  BY AnswerEffect DEF InvalidateSession
<1> QED
  BY <1>2, <1>3, <1>4, <1>5, <1>6, <1>7, SessionsStep

-----------------------------------------------------------------------------
(* The cache and the status. *)

LEMMA DropCopyStep ==
  ASSUME Inv, NEW r \in Requests, DropCopy(r)
  PROVE  Inv'
<1>1. req[r] \in Locals /\ Known(req[r], user) /\ Coded(req[r], authCode, mailed)
  BY DEF Inv, TypeOK
<1>2. /\ req[r].pc = "invalidate" /\ cached' = [cached EXCEPT ![req[r].user] = NoUser]
      /\ Goto(r, "lookup")
      /\ UNCHANGED <<user, authCode, resetCode, mailed, sessions, second, spent, signIns>>
  BY DEF DropCopy, At
<1>3. Gone(r, "lookup", req[r].read)
  BY <1>1, <1>2, GotoEffect DEF Goto, Steps, Locals
<1>4. Known(req'[r], user') /\ Coded(req'[r], authCode', mailed')
  BY <1>1, <1>2, <1>3 DEF Gone, Known, Coded
<1>5. Moved
  BY <1>3, <1>4, BecomesMoves DEF Gone
<1>6. cached' \in Rows /\ CopiesAreKnown(cached', user)
  BY <1>2 DEF Inv, TypeOK, Rows, CopiesAreKnown
<1> QED
  BY <1>2, <1>5, <1>6, CacheStep

LEMMA FindByIdStep ==
  ASSUME Inv, NEW r \in Requests, FindById(r)
  PROVE  Inv'
<1> DEFINE u == req[r].user
<1>1. /\ req[r] \in Locals /\ Known(req[r], user) /\ Coded(req[r], authCode, mailed)
      /\ u \in Users /\ user[u] \in Row \cup {NoUser} /\ cached[u] \in Row \cup {NoUser}
  BY DEF Inv, TypeOK, Locals
<1>2. req[r].pc = "lookup" /\ UNCHANGED <<user, authCode, mailed>> /\ user[u] # NoUser
  BY <1>1 DEF FindById, At, Known
<1>3. PICK pc \in {"idle", "fill", "status"}, row \in Row \cup {NoUser} :
        /\ GotoWith(r, pc, row) /\ row # NoUser
        /\ row.verified => user[u].verified
  <2>1. CASE cached[u] # NoUser /\ GotoWith(r, AfterFind(req[r].kind), cached[u])
    BY <1>1, <2>1 DEF AfterFind, Inv, CopiesAreKnown
  <2>2. CASE cached[u] = NoUser /\ GotoWith(r, "fill", user[u])
    BY <1>1, <1>2, <2>2
  <2> QED
    BY <2>1, <2>2 DEF FindById
<1>4. Gone(r, pc, row)
  BY <1>3, GotoEffect DEF Steps
<1>5. Known(req'[r], user') /\ Coded(req'[r], authCode', mailed')
  <2>1. CASE pc = "idle"
    BY <1>4, <2>1, IdleKnown DEF Gone
  <2>2. CASE pc # "idle"
    BY <1>2, <1>3, <1>4, <2>2 DEF Gone, Known, Coded
  <2> QED
    BY <2>1, <2>2
<1>6. req'[r].pc # "store"
  BY <1>4, IdleLocals DEF Gone
<1>7. Moved
  BY <1>4, <1>5, <1>6, BecomesMoves DEF Gone
<1> QED
  BY <1>7, LocalsStep DEF FindById

LEMMA FillCacheStep ==
  ASSUME Inv, NEW r \in Requests, FillCache(r)
  PROVE  Inv'
<1> DEFINE u == req[r].user
           row == req[r].read
           pc == AfterFind(req[r].kind)
<1>1. /\ req[r] \in Locals /\ Known(req[r], user) /\ Coded(req[r], authCode, mailed)
      /\ u \in Users /\ row \in Row \cup {NoUser}
  BY DEF Inv, TypeOK, Locals
<1>2. /\ req[r].pc = "fill" /\ cached' = [cached EXCEPT ![u] = row] /\ Goto(r, pc)
      /\ UNCHANGED <<user, authCode, resetCode, mailed, sessions, second, spent, signIns>>
  BY DEF FillCache, At
<1>3. row # NoUser /\ user[u] # NoUser /\ (row.verified => user[u].verified)
  BY <1>1, <1>2 DEF Known
<1>4. pc \in {"idle", "status"}
  BY DEF AfterFind
<1> HIDE DEF pc
<1>5. Gone(r, pc, row)
  BY <1>1, <1>2, <1>4, GotoEffect DEF Goto, Steps
<1>6. Known(req'[r], user') /\ Coded(req'[r], authCode', mailed')
  <2>1. CASE pc = "idle"
    BY <1>5, <2>1, IdleKnown DEF Gone
  <2>2. CASE pc # "idle"
    BY <1>2, <1>3, <1>4, <1>5, <2>2 DEF Gone, Known, Coded
  <2> QED
    BY <2>1, <2>2
<1>7. Moved
  <2>1. req'[r].pc # "store"
    BY <1>4, <1>5, IdleLocals DEF Gone
  <2> QED
    BY <1>5, <1>6, <2>1, BecomesMoves DEF Gone
<1>8. cached' \in Rows /\ CopiesAreKnown(cached', user)
  BY <1>1, <1>2, <1>3 DEF Inv, TypeOK, Rows, CopiesAreKnown
<1> QED
  BY <1>2, <1>7, <1>8, CacheStep

LEMMA CopyExpiresStep ==
  ASSUME Inv, NEW u \in Users, CopyExpires(u)
  PROVE  Inv'
<1>1. Moved
  BY DEF CopyExpires, Moves, Moved, Inv, TypeOK
<1>2. cached' \in Rows /\ CopiesAreKnown(cached', user)
  BY DEF CopyExpires, Inv, TypeOK, Rows, CopiesAreKnown
<1> QED
  BY <1>1, <1>2, CacheStep DEF CopyExpires

(* The status alone is written: VERIFIED only on a confirmed row. *)
LEMMA StatusWritten ==
  ASSUME Inv, NEW u \in Users, NEW status \in Statuses, user[u] # NoUser,
         user' = [user EXCEPT ![u].status = status],
         status = "verified" => user[u].verified
  PROVE  user' \in Rows /\ Kept(user, user') /\ StatusEarned(user')
<1> DEFINE row == [user[u] EXCEPT !.status = status]
<1>1. user[u] \in Row /\ user \in [Users -> Row \cup {NoUser}]
  BY DEF Inv, TypeOK
<1>2. /\ row \in Row /\ row.status = status
      /\ row.verified <=> user[u].verified
  BY <1>1 DEF Row
<1>3. user' = [user EXCEPT ![u] = row]
  OBVIOUS
<1> HIDE DEF row
<1> QED
  BY <1>2, <1>3, RowWritten, AccountsAssumption

LEMMA WriteStatusStep ==
  ASSUME Inv, NEW r \in Requests, WriteStatus(r)
  PROVE  Inv' /\ Kept(user, user')
<1> DEFINE u == req[r].user
           status == StatusOf(req[r].read)
<1>1. req[r] \in Locals /\ Known(req[r], user) /\ u \in Users
  BY DEF Inv, TypeOK, Locals
<1>2. req[r].pc = "status" /\ user' = [user EXCEPT ![u].status = status]
  BY DEF WriteStatus, At
<1>3. user[u] # NoUser /\ (status = "verified" => user[u].verified)
  BY <1>1, <1>2 DEF Known, StatusOf
<1>4. status \in Statuses
  BY DEF StatusOf, Statuses
<1> HIDE DEF status
<1>5. user' \in Rows /\ Kept(user, user') /\ StatusEarned(user')
  BY <1>1, <1>2, <1>3, <1>4, StatusWritten
<1>6. Moved
  BY AnswerEffect DEF WriteStatus
<1> QED
  BY <1>5, <1>6, RowsStep DEF WriteStatus

LEMMA GrantSubscriptionStep ==
  ASSUME Inv, NEW u \in Users, GrantSubscription(u)
  PROVE  Inv' /\ Kept(user, user')
<1>1. user' \in Rows /\ Kept(user, user') /\ StatusEarned(user')
  BY StatusWritten DEF GrantSubscription, Exists, Statuses
<1>2. /\ req' = req
      /\ UNCHANGED <<cached, authCode, resetCode, mailed, sessions, second, spent, signIns>>
  BY DEF GrantSubscription
<1>3. Moved
  BY <1>2 DEF Moved, Moves, Inv, TypeOK
<1> QED
  BY <1>1, <1>2, <1>3, RowsStep

LEMMA TickStep ==
  ASSUME Inv, Tick
  PROVE  Inv'
<1>1. TypeOK'
  BY AccountsAssumption DEF Inv, TypeOK, Tick
<1>2. UNCHANGED <<user, cached, authCode, mailed, sessions, req, spent, signIns>>
  BY DEF Tick
<1> QED
  BY <1>1, <1>2 DEF Inv, OneSessionPerDevice, SpentCodeIsRefused

-----------------------------------------------------------------------------
(* The theorems. *)

LEMMA InitInv == Init => Inv
<1> SUFFICES ASSUME Init PROVE Inv
  OBVIOUS
<1>1. TypeOK
  BY IdleLocals, AccountsAssumption DEF Init, TypeOK
<1>2. \A r \in Requests : Known(req[r], user) /\ Coded(req[r], authCode, mailed)
  BY IdleKnown DEF Init
<1>3. CodesInv(authCode, mailed, spent) /\ SpentCodeIsRefused
  BY DEF Init, CodesInv, SpentCodeIsRefused
<1>4. CopiesAreKnown(cached, user) /\ StatusEarned(user) /\ SessionsInv(sessions, user)
  BY DEF Init, CopiesAreKnown, StatusEarned, SessionsInv
<1>5. OneSessionPerDevice
  BY DEF Init, OneSessionPerDevice
<1>6. Held(req, sessions, signIns)
  <2> SUFFICES ASSUME NEW x \in Token \X Devices
               PROVE  Cardinality(Pending(x, req)) + (IF HasKey(x, sessions) THEN 1 ELSE 0)
                        <= signIns[x]
    BY DEF Held
  <2>1. Pending(x, req) = {} /\ ~HasKey(x, sessions) /\ signIns[x] = 0
    BY IdleLocals DEF Init, Pending, HasKey
  <2> QED
    BY <2>1, FS_EmptySet
<1> QED
  BY <1>1, <1>2, <1>3, <1>4, <1>5, <1>6 DEF Inv

LEMMA BeginsStep ==
  ASSUME Inv, NEW r \in Requests, Begins(r)
  PROVE  Inv' /\ Kept(user, user')
<1>1. CASE \E g \in Guests, d \in Devices : CreateGuest(r, g, d)
  BY <1>1, CreateGuestStep
<1>2. ASSUME NEW e \in Emails, NEW d \in Devices, SignIn(r, e, d) \/ OauthCallback(r, e, d)
      PROVE  Inv' /\ UNCHANGED user
  BY <1>2, SignInStep, OauthCallbackStep DEF SignIn, OauthCallback
<1>3. ASSUME NEW e \in Emails, NEW d \in Devices, NEW code \in 1 .. MaxCodes,
             VerifyAuthCode(r, e, code, d)
      PROVE  Inv' /\ UNCHANGED user
  <2>1. code \in Nat
    BY AccountsAssumption
  <2> QED
    BY <1>3, <2>1, VerifyAuthCodeStep DEF VerifyAuthCode
<1>4. ASSUME NEW e \in Emails, VerifyResetCode(r, e)
      PROVE  Inv' /\ UNCHANGED user
  BY <1>4, VerifyResetCodeStep DEF VerifyResetCode
<1>5. ASSUME NEW s \in sessions, NEW kind \in {"refresh", "logout"},
             ValidateRefresh(r, s.token, s.device, kind)
      PROVE  Inv' /\ UNCHANGED user
  BY <1>5, ValidateRefreshStep DEF ValidateRefresh
<1>6. ASSUME NEW u \in Users,
             \/ UpdateProfile(r, u) \/ ChangeEmail(r, u)
             \/ Authenticate(r, u) \/ ResetSubscription(r, u)
      PROVE  Inv' /\ UNCHANGED user
  BY <1>6, LookStep DEF UpdateProfile, ChangeEmail, Authenticate, ResetSubscription
<1>7. UNCHANGED user => Kept(user, user')
  BY DEF Kept
<1> QED
  BY <1>1, <1>2, <1>3, <1>4, <1>5, <1>6, <1>7 DEF Begins

LEMMA ContinuesStep ==
  ASSUME Inv, NEW r \in Requests, Continues(r)
  PROVE  Inv' /\ Kept(user, user')
<1>1. CASE SaveUser(r)
  BY <1>1, SaveUserStep
<1>2. CASE WriteStatus(r)
  BY <1>2, WriteStatusStep
<1>3. CASE \/ FindUser(r) \/ SendAuthCode(r) \/ SpendCode(r) \/ LoadVerified(r)
           \/ LinkAccount(r)
  <2>1. Inv'
    BY <1>3, FindUserStep, SendAuthCodeStep, SpendCodeStep, LoadVerifiedStep, LinkAccountStep
  <2> QED
    BY <1>3, <2>1 DEF FindUser, SendAuthCode, SpendCode, LoadVerified, LinkAccount, Kept
<1>4. CASE SignToken(r) \/ StoreSession(r) \/ UpdateActivity(r) \/ InvalidateSession(r)
  <2>1. Inv'
    BY <1>4, SignTokenStep, StoreSessionStep, UpdateActivityStep, InvalidateSessionStep
  <2> QED
    BY <1>4, <2>1 DEF SignToken, StoreSession, UpdateActivity, InvalidateSession, Kept
<1>5. CASE RefuseEmail(r) \/ DropCopy(r) \/ FindById(r) \/ FillCache(r)
  <2>1. RefuseEmail(r) => Inv'
    BY AnswerEffect, LocalsStep DEF RefuseEmail
  <2>2. Inv'
    BY <1>5, <2>1, DropCopyStep, FindByIdStep, FillCacheStep
  <2> QED
    BY <1>5, <2>2 DEF RefuseEmail, DropCopy, FindById, FillCache, Kept
<1> QED
  BY <1>1, <1>2, <1>3, <1>4, <1>5 DEF Continues

LEMMA EnvironmentStep ==
  ASSUME Inv, Environment
  PROVE  Inv' /\ Kept(user, user')
<1>1. ASSUME NEW e \in Emails, SendResetCode(e) \/ AuthCodeExpires(e) \/ ResetCodeExpires(e)
      PROVE  Inv' /\ Kept(user, user')
  <2>1. Inv'
    BY <1>1, CodeEnvironmentStep
  <2> QED
    BY <1>1, <2>1 DEF SendResetCode, AuthCodeExpires, ResetCodeExpires, Kept
<1>2. ASSUME NEW u \in Users, CopyExpires(u)
      PROVE  Inv' /\ Kept(user, user')
  BY <1>2, CopyExpiresStep DEF CopyExpires, Kept
<1>3. ASSUME NEW u \in Users, GrantSubscription(u)
      PROVE  Inv' /\ Kept(user, user')
  BY <1>3, GrantSubscriptionStep
<1>4. CASE Tick
  BY <1>4, TickStep DEF Tick, Kept
<1> QED
  BY <1>1, <1>2, <1>3, <1>4 DEF Environment

LEMMA NextStep ==
  ASSUME Inv, [Next]_vars
  PROVE  Inv' /\ Kept(user, user')
<1>1. CASE Next
  BY <1>1, BeginsStep, ContinuesStep, EnvironmentStep DEF Next
<1>2. CASE UNCHANGED vars
  <2>1. UNCHANGED <<user, cached, authCode, resetCode, mailed, sessions, second, req, spent,
                    signIns>>
    BY <1>2 DEF vars
  <2> QED
    BY <2>1 DEF Inv, TypeOK, OneSessionPerDevice, SpentCodeIsRefused, Kept
<1> QED
  BY <1>1, <1>2

LEMMA InvAlways == Spec => []Inv
<1>1. Inv /\ [Next]_vars => Inv'
  BY NextStep
<1> HIDE DEF Inv
<1> QED
  BY InitInv, <1>1, PTL DEF Spec

(* However requests overlap: sessions by email or OAuth are of confirmed     *)
(* users, VERIFIED stands for a confirmed email, and a device has one        *)
(* session of a user.                                                        *)
THEOREM Invariance == Spec => []AccountsInv
<1>1. Inv => AccountsInv
  BY DEF Inv, AccountsInv, SessionsInv, SessionsAreVerified, StatusEarned,
         VerifiedStatusIsEarned, Exists
<1> HIDE DEF Inv
<1> QED
  BY InvAlways, <1>1, PTL

(* A refresh token is accepted on a device only while a sign-in that was     *)
(* given it there is neither logged out nor replaced.                        *)
THEOREM TokensHaveSignIns == Spec => []AcceptedIsSignedIn
<1>1. Inv => AcceptedIsSignedIn
  <2> SUFFICES ASSUME Inv, NEW x \in Token \X Devices, NEW s \in Found(x[1], x[2])
               PROVE  signIns[x] > 0
    BY DEF AcceptedIsSignedIn
  <2>1. HasKey(x, sessions)
    BY DEF Found, HasKey
  <2>2. Cardinality(Pending(x, req)) + 1 <= signIns[x] /\ signIns[x] \in Nat
    BY <2>1 DEF Inv, Held, TypeOK
  <2> QED
    BY <2>2, PendingFinite
<1> HIDE DEF Inv
<1> QED
  BY InvAlways, <1>1, PTL

(* A code whose verification has finished is never accepted again.           *)
THEOREM NoSecondUse == Spec => []SpentCodeIsRefused
<1>1. Inv => SpentCodeIsRefused
  BY DEF Inv
<1> HIDE DEF Inv
<1> QED
  BY InvAlways, <1>1, PTL

(* No step takes the confirmation of an email back.                          *)
THEOREM Verified == Spec => VerifiedForGood
<1>1. Inv /\ [Next]_vars =>
        [\A u \in Users : Exists(u) /\ user[u].verified =>
           Exists(u)' /\ user'[u].verified]_vars
  BY NextStep DEF Kept, Exists
<1> HIDE DEF Inv
<1> QED
  BY InvAlways, <1>1, PTL DEF Spec, VerifiedForGood
=============================================================================
