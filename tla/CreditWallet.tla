---------------------------- MODULE CreditWallet ----------------------------
(* The purchased side of CreditLedger seen as a PrepaidWallet. *)
EXTENDS CreditLedger

Phase(s) == IF s = "none" THEN "new" ELSE IF s = "reserved" THEN "open" ELSE "closed"

Wallet == INSTANCE PrepaidWallet WITH
  Clients <- Requests,
  Sum     <- Total,
  balance <- purchased_balance,
  phase   <- [r \in Requests |-> Phase(status[r])],
  held    <- [r \in Requests |-> IF status[r] = "reserved" THEN reserved_purchased[r] ELSE 0],
  spent   <- settled_purchased

(* The credit account is a prepaid wallet: with expiries, lots, renewals    *)
(* and refunds in any order, a request opens and closes once, and no hold,  *)
(* settlement or refund takes credits another live reservation holds.       *)
ImplementsWallet == Wallet!Spec
=============================================================================
