---------------------------- MODULE MCAccounts ----------------------------
(***************************************************************************)
(* Two overlapping requests on one browser, of one email user and one      *)
(* guest.  A behaviour takes its requests from one of two mixes, which     *)
(* keeps the space small: every way to confirm, reset and cache an email   *)
(* user, in one second; or every way to open, refresh and end a session,   *)
(* while the clock advances.                                               *)
(***************************************************************************)
EXTENDS Accounts, TLC

VARIABLE mix

Email == {"signIn", "verify", "resetVerify", "oauth", "find", "profile",
          "changeEmail", "resetStatus"}
Login == {"signIn", "verify", "oauth", "guest", "refresh", "logout"}

MCInit == Init /\ mix \in {Email, Login}

MCNext ==
  /\ Next
  /\ \A r \in Requests : req'[r].pc # "idle" => req'[r].kind \in mix
  /\ \/ mix = Email /\ UNCHANGED second
     \/ /\ mix = Login
        /\ UNCHANGED resetCode
        /\ \A u \in Users : user'[u] # user[u] => user'[u].status # "subscription"
  /\ mix' = mix

MCSpec == MCInit /\ [][MCNext]_<<vars, mix>>

(* Requests are interchangeable. *)
Symmetry == Permutations(Requests)
===========================================================================
