------------------------------ MODULE MethodLink ------------------------------
(***************************************************************************)
(* The payment method stored on a subscription row, and the QR codes that  *)
(* replace it (SbpPaymentService and SubscriptionService, src/src/payment  *)
(* and src/src/subscription).  The row remembers the key of one pending    *)
(* request; the cache, of one process, remembers what each key is for.     *)
(*                                                                         *)
(* A user has one row, and a key is bound to its user and row when it is   *)
(* made, so one user is the general case.  What else becomes of the row is *)
(* in module Billing.                                                      *)
(***************************************************************************)
EXTENDS Naturals

CONSTANTS
  Requests,  \* slots of requests for a QR code
  Hooks,     \* slots of ACTIVE notifications being handled
  Keys,      \* request keys that the bank may give out
  NoKey,     \* no key
  Bought     \* an account token that a checkout has stored

ASSUME MethodAssumption == NoKey \notin Keys /\ Bought \notin Keys \cup {NoKey}

VARIABLES
  row,       \* the columns of the subscription row that matter here
  cache,     \* the keys whose parameters are cached
  requests,  \* requests[r]: the request in slot r, with the key it was given
  hooks,     \* hooks[h]: the notification in slot h
  linked,    \* the keys with which the user has linked an account
  issued,    \* history: the keys the bank has given out
  spent      \* history: keys used, replaced by another one, or cleared

vars == <<row, cache, requests, hooks, linked, issued, spent>>

\* rebill: is a T-Pay identifier stored?  token: the key whose link gave the
\* account token.
Row == [rebill : BOOLEAN, token : Keys \cup {NoKey, Bought}, key : Keys \cup {NoKey}]

Request == [at : {"idle", "cache", "store"}, key : Keys \cup {NoKey}]
Hook == [at : {"idle", "update"}, key : Keys \cup {NoKey}]
Idle == [at |-> "idle", key |-> NoKey]

Init ==
  /\ row \in [rebill : BOOLEAN, token : {NoKey, Bought}, key : {NoKey}]
  /\ cache = {}
  /\ requests = [r \in Requests |-> Idle]
  /\ hooks = [h \in Hooks |-> Idle]
  /\ linked = {} /\ issued = {} /\ spent = {}

\* A key that leaves the row is of no more use.
Spend(key) == spent' = spent \cup ({key} \ {NoKey})

-----------------------------------------------------------------------------
(* getPaymentMethodQr: a key from the bank, then the cache, then the row.  *)

AddAccountQr(r, k) ==
  /\ requests[r] = Idle
  /\ k \notin issued
  /\ requests' = [requests EXCEPT ![r] = [at |-> "cache", key |-> k]]
  /\ issued' = issued \cup {k}
  /\ UNCHANGED <<row, cache, hooks, linked, spent>>

CacheParams(r) ==
  /\ requests[r].at = "cache"
  /\ cache' = cache \cup {requests[r].key}
  /\ requests' = [requests EXCEPT ![r].at = "store"]
  /\ UNCHANGED <<row, hooks, linked, issued, spent>>

SetPaymentMethodLinkRequest(r) ==
  /\ requests[r].at = "store"
  /\ row' = [row EXCEPT !.key = requests[r].key]
  /\ Spend(row.key)
  /\ requests' = [requests EXCEPT ![r] = Idle]
  /\ UNCHANGED <<cache, hooks, linked, issued>>

\* A failing statement, or the end of the process: the QR is never shown.
AbandonRequest(r) ==
  /\ requests[r] # Idle
  /\ requests' = [requests EXCEPT ![r] = Idle]
  /\ UNCHANGED <<row, cache, hooks, linked, issued, spent>>

\* The 30 minutes are over, or the process has been restarted.
Forget(k) ==
  /\ k \in cache
  /\ cache' = cache \ {k}
  /\ UNCHANGED <<row, requests, hooks, linked, issued, spent>>

-----------------------------------------------------------------------------
\* The user scans a QR that has been shown: its request has ended.  The bank
\* may notify of that as late and as often as it likes.
UserLinks(k) ==
  /\ k = row.key \/ k \in spent
  /\ k \in Keys \ linked
  /\ linked' = linked \cup {k}
  /\ UNCHANGED <<row, cache, requests, hooks, issued, spent>>

-----------------------------------------------------------------------------
(* onAccountLinked for a method change: the cache, then one UPDATE.        *)

ReadParams(h, k) ==
  /\ hooks[h] = Idle
  /\ k \in linked \cap cache
  /\ hooks' = [hooks EXCEPT ![h] = [at |-> "update", key |-> k]]
  /\ UNCHANGED <<row, cache, requests, linked, issued, spent>>

\* Mutant of Pending: any pending request will do.
SomePending(k) == row.key # NoKey

\* The WHERE of completePaymentMethodLink.
Pending(k) == row.key = k

\* Mutant of Completes: the request stays pending.
CompletesAgain(k) ==
  /\ Pending(k)
  /\ row' = [row EXCEPT !.rebill = FALSE, !.token = k]
  /\ Spend(row.key)

Completes(k) ==
  /\ Pending(k)
  /\ row' = [row EXCEPT !.rebill = FALSE, !.token = k, !.key = NoKey]
  /\ Spend(row.key)

CompletePaymentMethodLink(h) ==
  /\ hooks[h].at = "update"
  /\ \/ Completes(hooks[h].key)
     \/ ~Pending(hooks[h].key) /\ UNCHANGED <<row, spent>>
  /\ hooks' = [hooks EXCEPT ![h] = Idle]
  /\ UNCHANGED <<cache, requests, linked, issued>>

AbandonHook(h) ==
  /\ hooks[h] # Idle
  /\ hooks' = [hooks EXCEPT ![h] = Idle]
  /\ UNCHANGED <<row, cache, requests, linked, issued, spent>>

-----------------------------------------------------------------------------
(* The other writers of these columns.                                     *)

\* Mutant of RemoveMethod: a pending request survives.
RemoveCredentials ==
  /\ row' = [row EXCEPT !.rebill = FALSE, !.token = NoKey]
  /\ UNCHANGED <<cache, requests, hooks, linked, issued, spent>>

\* DELETE /payment/method.
RemoveMethod ==
  /\ row' = [rebill |-> FALSE, token |-> NoKey, key |-> NoKey]
  /\ Spend(row.key)
  /\ UNCHANGED <<cache, requests, hooks, linked, issued>>

\* updateAccountToken, at the end of a purchase through SBP.
UpdateAccountToken ==
  /\ row' = [row EXCEPT !.token = Bought]
  /\ UNCHANGED <<cache, requests, hooks, linked, issued, spent>>

\* A CONFIRMED payment with a RebillId.
SaveRebillId ==
  /\ row' = [row EXCEPT !.rebill = TRUE]
  /\ UNCHANGED <<cache, requests, hooks, linked, issued, spent>>

Next ==
  \/ \E r \in Requests :
       \/ \E k \in Keys : AddAccountQr(r, k)
       \/ CacheParams(r) \/ SetPaymentMethodLinkRequest(r) \/ AbandonRequest(r)
  \/ \E k \in Keys : Forget(k) \/ UserLinks(k)
  \/ \E h \in Hooks :
       \/ \E k \in Keys : ReadParams(h, k)
       \/ CompletePaymentMethodLink(h) \/ AbandonHook(h)
  \/ RemoveMethod \/ UpdateAccountToken \/ SaveRebillId

Spec == Init /\ [][Next]_vars

-----------------------------------------------------------------------------
(* Properties.                                                             *)

TypeOK ==
  /\ row \in Row
  /\ cache \subseteq Keys /\ linked \subseteq Keys
  /\ issued \subseteq Keys /\ spent \subseteq Keys
  /\ requests \in [Requests -> Request]
  /\ hooks \in [Hooks -> Hook]

\* A QR changes the method at most once, and never after a later QR has been
\* stored or the method has been removed, however many notifications of it are
\* in flight, late or repeated (completePaymentMethodLink).
SpentQrNeverLinks ==
  [][\A k \in spent : row'.token = k => row.token = k]_vars

\* A key is in the hands of one request, which has not stored it, or in the row,
\* where it is not spent.
KeysAreStoredOnce ==
  /\ row.key # NoKey => row.key \in issued \ spent
  /\ spent \subseteq issued
  /\ \A r \in Requests : requests[r].at # "idle" =>
       requests[r].key \in issued \ (spent \cup {row.key})
  /\ \A q, r \in Requests :
       (requests[q].at # "idle" /\ requests[r].at # "idle"
          /\ requests[q].key = requests[r].key) => q = r

\* A method that a QR has stored is one whose account the user did link with it.
LinkedByUser ==
  /\ row.token \in Keys => row.token \in linked \cap spent
  /\ \A h \in Hooks : hooks[h].at = "update" => hooks[h].key \in linked

MethodInv == TypeOK /\ KeysAreStoredOnce /\ LinkedByUser

\* The QR codes keep the promise of module OneTimeLink.
Promise == INSTANCE OneTimeLink WITH 
  pending <- row.key, method <- row.token, dead <- spent

ImplementsOneTimeLink == Promise!Spec

=============================================================================
