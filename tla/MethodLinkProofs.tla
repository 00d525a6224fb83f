-------------------------- MODULE MethodLinkProofs --------------------------
(***************************************************************************)
(* Proofs about module MethodLink, for any number of requests,             *)
(* notifications and keys.                                                 *)
(***************************************************************************)
EXTENDS MethodLink, TLAPS

LEMMA IdleIsTyped == Idle \in Request /\ Idle \in Hook /\ Idle.at = "idle"
BY DEF Idle, Request, Hook

LEMMA InitInvariant == Init => MethodInv
BY IdleIsTyped, MethodAssumption
DEF Init, MethodInv, TypeOK, Row, KeysAreStoredOnce, LinkedByUser

-----------------------------------------------------------------------------
(* A request has its key alone from the bank to the row.                   *)
LEMMA RequestStep ==
  ASSUME MethodInv, NEW r \in Requests,
         \/ \E k \in Keys : AddAccountQr(r, k)
         \/ CacheParams(r) \/ SetPaymentMethodLinkRequest(r) \/ AbandonRequest(r)
  PROVE  MethodInv'
<1> USE DEF MethodInv
<1>1. ASSUME NEW k \in Keys, AddAccountQr(r, k)
      PROVE  MethodInv'
  <2>1. TypeOK'
    BY <1>1 DEF TypeOK, AddAccountQr, Request
  <2>2. KeysAreStoredOnce'
    BY <1>1, MethodAssumption DEF TypeOK, AddAccountQr, KeysAreStoredOnce, Row
  <2>3. LinkedByUser'
    BY <1>1 DEF AddAccountQr, LinkedByUser
  <2>4. QED
    BY <2>1, <2>2, <2>3
<1>2. CASE CacheParams(r)
  <2>1. requests[r].key \in Keys
    BY <1>2 DEF CacheParams, TypeOK, KeysAreStoredOnce
  <2>2. TypeOK'
    BY <1>2, <2>1 DEF TypeOK, CacheParams, Request
  <2>3. KeysAreStoredOnce' /\ LinkedByUser'
    BY <1>2 DEF TypeOK, CacheParams, KeysAreStoredOnce, LinkedByUser, Request
  <2>4. QED
    BY <2>2, <2>3
<1>3. CASE SetPaymentMethodLinkRequest(r)
  <2>1. requests[r].key \in issued \ (spent \cup {row.key})
    BY <1>3 DEF SetPaymentMethodLinkRequest, KeysAreStoredOnce
  <2>2. requests[r].key \in Keys /\ spent' \subseteq issued
    BY <1>3, <2>1 DEF SetPaymentMethodLinkRequest, Spend, TypeOK, KeysAreStoredOnce
  <2>3. TypeOK'
    BY <1>3, <2>2, IdleIsTyped
    DEF TypeOK, SetPaymentMethodLinkRequest, Spend, Row
  <2>4. KeysAreStoredOnce'
    BY <1>3, <2>1, <2>2, IdleIsTyped
    DEF TypeOK, SetPaymentMethodLinkRequest, Spend, KeysAreStoredOnce, Row
  <2>5. LinkedByUser'
    BY <1>3 DEF TypeOK, SetPaymentMethodLinkRequest, Spend, LinkedByUser, Row
  <2>6. QED
    BY <2>3, <2>4, <2>5
<1>4. CASE AbandonRequest(r)
  BY <1>4, IdleIsTyped
  DEF TypeOK, AbandonRequest, KeysAreStoredOnce, LinkedByUser
<1>5. QED
  BY <1>1, <1>2, <1>3, <1>4

\* The update of a notification spends the key that it finds in the row.
LEMMA HookStep ==
  ASSUME MethodInv, NEW h \in Hooks,
         \/ \E k \in Keys : ReadParams(h, k)
         \/ CompletePaymentMethodLink(h) \/ AbandonHook(h)
  PROVE  MethodInv'
<1> USE DEF MethodInv
<1>1. ASSUME NEW k \in Keys, ReadParams(h, k)
      PROVE  MethodInv'
  BY <1>1 DEF TypeOK, ReadParams, Hook, KeysAreStoredOnce, LinkedByUser
<1>2. CASE CompletePaymentMethodLink(h) /\ Completes(hooks[h].key)
  <2>1. hooks[h].key \in linked /\ hooks[h].key \in Keys /\ row.key = hooks[h].key
    BY <1>2 DEF CompletePaymentMethodLink, Completes, Pending, LinkedByUser, TypeOK
  <2>2. spent' = spent \cup {row.key} /\ row.key \in issued
    BY <1>2, <2>1, MethodAssumption DEF Completes, Spend, KeysAreStoredOnce
  <2>3. /\ row' = [row EXCEPT !.rebill = FALSE, !.token = hooks[h].key, !.key = NoKey]
        /\ hooks' = [hooks EXCEPT ![h] = Idle]
        /\ UNCHANGED <<cache, requests, linked, issued>>
    BY <1>2 DEF CompletePaymentMethodLink, Completes
  <2>4. TypeOK'
    BY <2>1, <2>2, <2>3, IdleIsTyped DEF TypeOK, Row
  <2>5. KeysAreStoredOnce'
    BY <2>1, <2>2, <2>3, MethodAssumption DEF TypeOK, KeysAreStoredOnce, Row
  <2>6. LinkedByUser'
    BY <2>1, <2>2, <2>3, IdleIsTyped DEF TypeOK, LinkedByUser, Row
  <2>7. QED
    BY <2>4, <2>5, <2>6
<1>3. CASE /\ hooks' = [hooks EXCEPT ![h] = Idle]
           /\ UNCHANGED <<row, cache, requests, linked, issued, spent>>
  BY <1>3, IdleIsTyped DEF TypeOK, KeysAreStoredOnce, LinkedByUser
<1>4. QED
  BY <1>1, <1>2, <1>3 DEF CompletePaymentMethodLink, AbandonHook

LEMMA OtherStep ==
  ASSUME MethodInv,
         \/ \E k \in Keys : Forget(k) \/ UserLinks(k)
         \/ RemoveMethod \/ UpdateAccountToken \/ SaveRebillId
  PROVE  MethodInv'
<1> USE DEF MethodInv
<1>1. ASSUME NEW k \in Keys, Forget(k) \/ UserLinks(k)
      PROVE  MethodInv'
  BY <1>1 DEF Forget, UserLinks, TypeOK, KeysAreStoredOnce, LinkedByUser
<1>2. CASE RemoveMethod
  <2>1. spent' \subseteq issued /\ row.key \notin spent' \ (spent \cup {row.key})
    BY <1>2 DEF RemoveMethod, Spend, KeysAreStoredOnce
  <2>2. QED
    BY <1>2, <2>1, MethodAssumption
    DEF RemoveMethod, Spend, TypeOK, Row, KeysAreStoredOnce, LinkedByUser
<1>3. CASE UpdateAccountToken \/ SaveRebillId
  BY <1>3, MethodAssumption
  DEF UpdateAccountToken, SaveRebillId, TypeOK, Row, KeysAreStoredOnce, LinkedByUser
<1>4. QED
  BY <1>1, <1>2, <1>3

LEMMA NextInvariant == MethodInv /\ [Next]_vars => MethodInv'
<1>1. ASSUME MethodInv, UNCHANGED vars
      PROVE  MethodInv'
  BY <1>1 DEF vars, MethodInv, TypeOK, KeysAreStoredOnce, LinkedByUser
<1>2. QED
  BY <1>1, RequestStep, HookStep, OtherStep DEF Next

\* The inductive invariant holds in every state: keys are unspent until they
\* leave the row, and what a QR has stored was linked by the user.
THEOREM Invariance == Spec => []MethodInv
BY InitInvariant, NextInvariant, PTL DEF Spec

-----------------------------------------------------------------------------
\* A used, replaced or withdrawn QR never changes the payment method, whatever
\* notifications of it are in flight (completePaymentMethodLink).
THEOREM NoReuse == Spec => SpentQrNeverLinks
<1> DEFINE Kept == \A k \in spent : row'.token = k => row.token = k
<1>1. ASSUME MethodInv, Next
      PROVE  Kept
  <2>1. ASSUME NEW h \in Hooks, CompletePaymentMethodLink(h)
        PROVE  Kept
    <3>1. CASE Completes(hooks[h].key)
      <4>1. row'.token = row.key
        BY <1>1, <3>1 DEF Completes, Pending, MethodInv, TypeOK, Row
      <4>2. row.key \notin spent
        BY <1>1, MethodAssumption DEF MethodInv, TypeOK, KeysAreStoredOnce
      <4>3. QED
        BY <4>1, <4>2
    <3>2. CASE UNCHANGED row
      BY <3>2
    <3>3. QED
      BY <2>1, <3>1, <3>2 DEF CompletePaymentMethodLink
  <2>2. CASE RemoveMethod \/ UpdateAccountToken \/ SaveRebillId
    BY <1>1, <2>2, MethodAssumption
    DEF RemoveMethod, UpdateAccountToken, SaveRebillId, MethodInv, TypeOK, Row
  <2>3. CASE row'.token = row.token
    BY <2>3
  <2>4. row'.token = row.token \/ RemoveMethod \/ UpdateAccountToken
          \/ SaveRebillId \/ \E h \in Hooks : CompletePaymentMethodLink(h)
    BY <1>1
    DEF Next, AddAccountQr, CacheParams, SetPaymentMethodLinkRequest, AbandonRequest,
        Forget, UserLinks, ReadParams, AbandonHook, MethodInv, TypeOK, Row
  <2>5. QED
    BY <2>1, <2>2, <2>3, <2>4
<1>2. MethodInv /\ [Next]_vars => [Kept]_vars
  BY <1>1
<1>3. QED
  BY <1>2, Invariance, PTL DEF Spec, SpentQrNeverLinks

-----------------------------------------------------------------------------
\* Every step on the row is a step of OneTimeLink, or changes nothing it shows.
THEOREM Refinement == Spec => ImplementsOneTimeLink
<1> DEFINE Shown == <<row.key, row.token, spent>>
<1>1. Init => Promise!Init
  BY DEF Init, Promise!Init
<1>2. ASSUME MethodInv, Next
      PROVE  [Promise!Next]_Shown
  <2>1. ASSUME NEW r \in Requests, SetPaymentMethodLinkRequest(r)
        PROVE  Promise!Next
    <3>1. /\ requests[r].key \in Keys \ (spent \cup {row.key})
          /\ row'.key = requests[r].key /\ row'.token = row.token
          /\ spent' = spent \cup ({row.key} \ {NoKey})
      BY <1>2, <2>1
      DEF SetPaymentMethodLinkRequest, Spend, MethodInv, TypeOK, Row, KeysAreStoredOnce
    <3>2. Promise!Offer(requests[r].key)
      BY <3>1 DEF Promise!Offer
    <3>3. QED
      BY <3>1, <3>2 DEF Promise!Next
  <2>2. ASSUME NEW h \in Hooks, CompletePaymentMethodLink(h)
        PROVE  [Promise!Next]_Shown
    <3>1. CASE Completes(hooks[h].key)
      <4>1. /\ row.key \in Keys
            /\ row'.key = NoKey /\ row'.token = row.key
            /\ spent' = spent \cup ({row.key} \ {NoKey})
        BY <1>2, <2>2, <3>1
        DEF CompletePaymentMethodLink, Completes, Pending, Spend, MethodInv, TypeOK,
            Row, LinkedByUser
      <4>2. QED
        BY <4>1, MethodAssumption DEF Promise!Next, Promise!Link, Promise!Retire
    <3>2. CASE UNCHANGED <<row, spent>>
      BY <3>2
    <3>3. QED
      BY <2>2, <3>1, <3>2 DEF CompletePaymentMethodLink
  <2>3. CASE RemoveMethod
    BY <2>3 DEF RemoveMethod, Spend, Promise!Next, Promise!Remove, Promise!Retire
  <2>4. CASE UpdateAccountToken
    BY <1>2, <2>4 DEF UpdateAccountToken, MethodInv, TypeOK, Row,
                      Promise!Next, Promise!Purchase
  <2>5. CASE UNCHANGED <<row.key, row.token, spent>>
    BY <2>5
  <2>6. \/ UNCHANGED <<row.key, row.token, spent>>
        \/ RemoveMethod \/ UpdateAccountToken
        \/ \E r \in Requests : SetPaymentMethodLinkRequest(r)
        \/ \E h \in Hooks : CompletePaymentMethodLink(h)
    BY <1>2
    DEF Next, AddAccountQr, CacheParams, AbandonRequest, Forget, UserLinks,
        ReadParams, AbandonHook, SaveRebillId, MethodInv, TypeOK, Row
  <2>7. QED
    BY <2>1, <2>2, <2>3, <2>4, <2>5, <2>6
<1>3. MethodInv /\ [Next]_vars => [Promise!Next]_Shown
  BY <1>2 DEF vars
<1>4. QED
  BY <1>1, <1>3, Invariance, PTL DEF Spec, ImplementsOneTimeLink, Promise!Spec

=============================================================================
