--------------------------- MODULE MCBillingAccount ---------------------------
(* Instances of BillingAccount for TLC. *)
EXTENDS BillingAccount, TLC

(* Calm; commits that fail; a session paid after another was asked for; a    *)
(* handler that overtakes a request; events in any order and handled at once;*)
(* requests of two users.                                                    *)
MCProfiles ==
  {{}, {"failure"}, {"old session"}, {"overtaken"}, {"reordered"}, {"users"}}

(* A payment that fails and is made good takes six events; two plans only   *)
(* matter to a property where nothing disturbs the requests.                *)
MCBound == [p \in MCProfiles |->
  [events |-> CASE p = {} -> 5 [] p = {"failure"} -> 6 [] OTHER -> 4,
   plans  |-> IF p = {} THEN Plans ELSE {1}]]
=============================================================================
