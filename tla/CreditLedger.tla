---------------------------- MODULE CreditLedger ----------------------------
(***************************************************************************)
(* The AI credit account of one company: AIUsageService and the rows it    *)
(* reads and writes (backend/app/ai/usage/service.py, models/ai_usage.py,  *)
(* the credit columns of models/billing.py).                               *)
(*                                                                         *)
(* Every operation takes the company's advisory lock, works on rows read   *)
(* under it and ends with one commit, so each is one atomic action here.   *)
(* What callers do before and after it is the subject of CreditPurchases   *)
(* and ChatRequests, which reuse these actions.                            *)
(*                                                                         *)
(* Every operation first expires the reservations older than the TTL, in   *)
(* the same transaction; `aged` is the set of reservations that old.       *)
(***************************************************************************)
EXTENDS CreditMath

CONSTANTS
  Requests,      \* avenqo_request_id values
  NumLots,       \* purchase lots, numbered by (created_at, id)
  PackCredits,   \* credits of the packs sold
  Limits,        \* effective monthly limits the tenant may have
  Unlimited,     \* the limit None
  Periods,       \* billing periods, in order
  RestoreKeys,   \* idempotency keys of administrator restores
  MaxCredits     \* bound on an estimate and on a request's actual credits

Lots == 1..NumLots

ASSUME LedgerAssumption ==
  /\ IsFiniteSet(Requests)
  /\ NumLots \in Nat
  /\ PackCredits \subseteq Nat \ {0}
  /\ Limits \subseteq Nat \cup {Unlimited}
  /\ Limits # {}
  /\ Unlimited \notin Nat
  /\ Periods \subseteq Nat
  /\ Periods # {}
  /\ MaxCredits \in Nat \ {0}

VARIABLES
  monthly_period, monthly_used, purchased_balance,
  included_reserved, purchased_reserved,   \* TenantAICreditBalance
  status,               \* TenantAICreditReservation.status, "none" if no row
  reserved_included, reserved_purchased, purchase_allocations,
  settled_included, settled_purchased, unfunded_credits,
  credits_granted, credits_remaining, credits_reserved,
  credits_reversed,     \* the same columns of AICreditPurchase, by lot
  posted,               \* sums of the ledger's delta columns
  ledger_keys,          \* idempotency keys the ledger holds and checks
  limit,                \* what limit_for returns now
  aged                  \* requests whose reservation is older than the TTL

balanceVars == <<monthly_period, monthly_used, purchased_balance,
                 included_reserved, purchased_reserved>>
holdVars    == <<reserved_included, reserved_purchased, purchase_allocations>>
chargeVars  == <<settled_included, settled_purchased, unfunded_credits>>
lotVars     == <<credits_granted, credits_remaining, credits_reserved,
                 credits_reversed>>
ledgerVars  == <<posted, ledger_keys>>
ledger      == <<balanceVars, status, holdVars, chargeVars, lotVars,
                 ledgerVars, limit, aged>>

Terminal == {"released", "settled", "underfunded", "expired"}

Zero == [r \in Requests |-> 0]

Init ==
  /\ monthly_period \in Periods
  /\ monthly_used = 0 /\ purchased_balance = 0
  /\ included_reserved = 0 /\ purchased_reserved = 0
  /\ status = [r \in Requests |-> "none"]
  /\ reserved_included = Zero /\ reserved_purchased = Zero
  /\ purchase_allocations = [r \in Requests |-> [l \in Lots |-> 0]]
  /\ settled_included = Zero /\ settled_purchased = Zero
  /\ unfunded_credits = Zero
  /\ credits_granted = [l \in Lots |-> 0]
  /\ credits_remaining = [l \in Lots |-> 0]
  /\ credits_reserved = [l \in Lots |-> 0]
  /\ credits_reversed = [l \in Lots |-> 0]
  /\ posted = [included |-> 0, purchased |-> 0,
               included_reserved |-> 0, purchased_reserved |-> 0]
  /\ ledger_keys = {}
  /\ limit \in Limits
  /\ aged = {}

-----------------------------------------------------------------------------
(* Expiry of stale reservations, the first part of every transaction.      *)

NeverStale(keep) == {}   \* mutant
StaleEvenKept(keep) == {r \in aged : status[r] = "reserved"}   \* mutant
Stale(keep) == {r \in aged \ keep : status[r] = "reserved"}

IncludedHeld(X)  == Total([r \in X |-> reserved_included[r]])
PurchasedHeld(X) == Total([r \in X |-> reserved_purchased[r]])
LotHeld(X, l)    == Total([r \in X |-> purchase_allocations[r][l]])

IncludedReservedWithout(X)  == Monus(included_reserved, IncludedHeld(X))
PurchasedReservedWithout(X) == Monus(purchased_reserved, PurchasedHeld(X))
LotsLeftReserved(X) == credits_reserved   \* mutant
LotsReservedWithout(X) ==
  [l \in Lots |-> Monus(credits_reserved[l], LotHeld(X, l))]

StatusWith(X, r, s) ==
  [q \in Requests |-> IF q = r THEN s ELSE IF q \in X THEN "expired" ELSE status[q]]
StatusExpired(X) ==
  [q \in Requests |-> IF q \in X THEN "expired" ELSE status[q]]

PostOwnEntryOnly(X, included, purchased, included_res, purchased_res) ==  \* mutant
  posted' = [included           |-> posted.included + included,
             purchased          |-> posted.purchased + purchased,
             included_reserved  |-> posted.included_reserved + included_res,
             purchased_reserved |-> posted.purchased_reserved + purchased_res]

(* Append the entries of the expired reservations X and the operation's own. *)
Post(X, included, purchased, included_res, purchased_res) ==
  posted' = [included           |-> posted.included + included,
             purchased          |-> posted.purchased + purchased,
             included_reserved  |-> posted.included_reserved
                                      - IncludedHeld(X) + included_res,
             purchased_reserved |-> posted.purchased_reserved
                                      - PurchasedHeld(X) + purchased_res]

(* The effects shared by the operations that touch no reservation but the   *)
(* stale ones.                                                              *)
ExpireOnly(X) ==
  /\ included_reserved' = IncludedReservedWithout(X)
  /\ purchased_reserved' = PurchasedReservedWithout(X)
  /\ credits_reserved' = LotsReservedWithout(X)
  /\ status' = StatusExpired(X)

(* ensure_quota_available, get_credit_balance, release_stale_reservations   *)
(* and the claims that find an existing row or fail a cost guard commit     *)
(* nothing but the expiry.                                                  *)
ReleaseStaleReservations ==
  /\ Stale({}) # {}
  /\ ExpireOnly(Stale({}))
  /\ Post(Stale({}), 0, 0, 0, 0)
  /\ UNCHANGED <<monthly_period, monthly_used, purchased_balance, holdVars,
                 chargeVars, credits_granted, credits_remaining,
                 credits_reversed, ledger_keys, limit, aged>>

-----------------------------------------------------------------------------
(* Claiming, releasing and settling a reservation.                         *)

IncludedIgnoringHolds(included_res) == Monus(limit, monthly_used)   \* mutant
IncludedAvailable(included_res) ==
  Monus(limit, monthly_used + included_res)
PurchasedIgnoringHolds(purchased_res) == purchased_balance   \* mutant
PurchasedAvailable(purchased_res) ==
  Monus(purchased_balance, purchased_res)

(* What a claim of `estimate` holds; nothing when the tenant has no limit   *)
(* or the central sponsor pays.                                             *)
Hold(X, estimate, sponsored) ==
  IF limit = Unlimited \/ sponsored
  THEN [included |-> 0, purchased |-> 0]
  ELSE LET included == Least(estimate, IncludedAvailable(IncludedReservedWithout(X)))
       IN [included |-> included, purchased |-> estimate - included]

CanHold(X, estimate, sponsored) ==
  IF limit = Unlimited \/ sponsored
  THEN TRUE
  ELSE estimate <= IncludedAvailable(IncludedReservedWithout(X))
                     + PurchasedAvailable(PurchasedReservedWithout(X))

(* A claim that acquires the request; a claim that cannot hold its estimate *)
(* raises before the commit and changes nothing.                            *)
ClaimCreditReservation(r, estimate, sponsored) ==
  LET X    == Stale({})
      hold == Hold(X, estimate, sponsored)
      free == [l \in Lots |-> Monus(credits_remaining[l], LotsReservedWithout(X)[l])]
      take == OldestFirst(hold.purchased, free)
  IN /\ status[r] = "none"
     /\ CanHold(X, estimate, sponsored)
     /\ included_reserved' = IncludedReservedWithout(X) + hold.included
     /\ purchased_reserved' = PurchasedReservedWithout(X) + hold.purchased
     /\ credits_reserved' = [l \in Lots |-> LotsReservedWithout(X)[l] + take[l]]
     /\ status' = StatusWith(X, r, "reserved")
     /\ reserved_included' = [reserved_included EXCEPT ![r] = hold.included]
     /\ reserved_purchased' = [reserved_purchased EXCEPT ![r] = hold.purchased]
     /\ purchase_allocations' = [purchase_allocations EXCEPT ![r] = take]
     /\ Post(X, 0, 0, hold.included, hold.purchased)
     /\ UNCHANGED <<monthly_period, monthly_used, purchased_balance, chargeVars,
                    credits_granted, credits_remaining, credits_reversed,
                    ledger_keys, limit, aged>>

(* release_reservation once the row it holds reads "reserved".              *)
ReleaseTransaction(r) ==
  LET X == Stale({r})
  IN /\ included_reserved' = IncludedReservedWithout(X) - reserved_included[r]
     /\ purchased_reserved' = PurchasedReservedWithout(X) - reserved_purchased[r]
     /\ credits_reserved' = LotsReservedWithout(X \cup {r})
     /\ status' = StatusWith(X, r, "released")
     /\ Post(X, 0, 0, -reserved_included[r], -reserved_purchased[r])
     /\ UNCHANGED <<monthly_period, monthly_used, purchased_balance, holdVars,
                    chargeVars, credits_granted, credits_remaining,
                    credits_reversed, ledger_keys, limit, aged>>

ReleaseReservation(r) == status[r] = "reserved" /\ ReleaseTransaction(r)

(* How a settlement splits the actual credits: what the request held first, *)
(* then free included credits, then free purchased ones; the rest stays     *)
(* unfunded.                                                                *)
Charge(r, actual, included_res, purchased_res) ==
  LET heldIncluded   == Least(actual, reserved_included[r])
      heldPurchased  == Least(actual - heldIncluded, reserved_purchased[r])
      extra          == actual - heldIncluded - heldPurchased
      extraIncluded  == Least(extra, IncludedAvailable(included_res + heldIncluded))
      extraPurchased == Least(extra - extraIncluded,
                              PurchasedAvailable(purchased_res + heldPurchased))
  IN IF limit = Unlimited
     THEN [included |-> 0, purchased |-> 0, fromHold |-> 0, fromFree |-> 0,
           unfunded |-> 0]
     ELSE [included  |-> heldIncluded + extraIncluded,
           purchased |-> heldPurchased + extraPurchased,
           fromHold  |-> heldPurchased,
           fromFree  |-> extraPurchased,
           unfunded  |-> extra - extraIncluded - extraPurchased]

SettledStatus(actual, unfunded) ==
  IF unfunded > 0 THEN "underfunded" ELSE IF actual > 0 THEN "settled" ELSE "released"

(* settle_reservation once the row it holds reads "reserved".  `actual` is  *)
(* the credits of the provider cost, 0 when the sponsor pays.               *)
SettleTransaction(r, actual) ==
  LET X      == Stale({r})
      ir     == IncludedReservedWithout(X) - reserved_included[r]
      pr     == PurchasedReservedWithout(X) - reserved_purchased[r]
      charge == Charge(r, actual, ir, pr)
      held   == OldestFirst(charge.fromHold, purchase_allocations[r])
      kept   == [l \in Lots |-> Monus(credits_remaining[l], held[l])]
      resv   == LotsReservedWithout(X \cup {r})
      free   == OldestFirst(charge.fromFree, [l \in Lots |-> Monus(kept[l], resv[l])])
  IN /\ included_reserved' = ir
     /\ purchased_reserved' = pr
     /\ monthly_used' = monthly_used + charge.included
     /\ purchased_balance' = purchased_balance - charge.purchased
     /\ credits_reserved' = resv
     /\ credits_remaining' = [l \in Lots |-> kept[l] - free[l]]
     /\ status' = StatusWith(X, r, SettledStatus(actual, charge.unfunded))
     /\ settled_included' = [settled_included EXCEPT ![r] = charge.included]
     /\ settled_purchased' = [settled_purchased EXCEPT ![r] = charge.purchased]
     /\ unfunded_credits' = [unfunded_credits EXCEPT ![r] = charge.unfunded]
     /\ Post(X, -charge.included, -charge.purchased,
             -reserved_included[r], -reserved_purchased[r])
     /\ UNCHANGED <<monthly_period, holdVars, credits_granted, credits_reversed,
                    ledger_keys, limit, aged>>

SettleAnyStatus(r, actual) ==   \* mutant
  status[r] # "none" /\ SettleTransaction(r, actual)
SettleReservation(r, actual) == status[r] = "reserved" /\ SettleTransaction(r, actual)

-----------------------------------------------------------------------------
(* Purchases, refunds, renewals and administrator restores.                *)

(* The lookup of the idempotency key before a ledger entry is written.      *)
NeverPosted(key) == TRUE   \* mutant
NotPosted(key) == key \notin ledger_keys

(* add_purchased_credits and the lot fields its caller sets before commit.  *)
AddPurchasedCredits(l, credits) ==
  LET X == Stale({})
  IN /\ NotPosted(<<"purchase_grant", l>>)
     /\ ExpireOnly(X)
     /\ purchased_balance' = purchased_balance + credits
     /\ credits_granted' = [credits_granted EXCEPT ![l] = credits]
     /\ credits_remaining' = [credits_remaining EXCEPT ![l] = credits]
     /\ ledger_keys' = ledger_keys \cup {<<"purchase_grant", l>>}
     /\ Post(X, 0, credits, 0, 0)
     /\ UNCHANGED <<monthly_period, monthly_used, holdVars, chargeVars,
                    credits_reversed, limit, aged>>

(* reverse_purchased_credits for a lot, and the lot fields its caller sets. *)
(* `requested` is what the caller found free in the lot.                    *)
ReversePurchasedCredits(l, requested, key) ==
  LET X        == Stale({})
      reversed == Least(requested, PurchasedAvailable(PurchasedReservedWithout(X)))
  IN /\ requested > 0
     /\ NotPosted(key)
     /\ ExpireOnly(X)
     /\ purchased_balance' = purchased_balance - reversed
     /\ credits_remaining' = [credits_remaining EXCEPT ![l] = @ - reversed]
     /\ credits_reversed' = [credits_reversed EXCEPT ![l] = @ + reversed]
     /\ ledger_keys' = ledger_keys \cup {key}
     /\ Post(X, 0, -reversed, 0, 0)
     /\ UNCHANGED <<monthly_period, monthly_used, holdVars, chargeVars,
                    credits_granted, limit, aged>>

(* The included allowance restarts: monthly_used' = 0, once per key.        *)
RestartIncluded(key, period) ==
  /\ NotPosted(key)
  /\ ExpireOnly(Stale({}))
  /\ monthly_period' = period
  /\ monthly_used' = 0
  /\ ledger_keys' = ledger_keys \cup {key}
  /\ Post(Stale({}), monthly_used, 0, 0, 0)
  /\ UNCHANGED <<purchased_balance, holdVars, chargeVars, credits_granted,
                 credits_remaining, credits_reversed, limit, aged>>

ResetCreditsForRenewal(period) == RestartIncluded(<<"renewal", period>>, period)

RestoreIncludedMonthlyCredits(k) ==
  /\ monthly_used > 0
  /\ RestartIncluded(<<"restore", k>>, monthly_period)

-----------------------------------------------------------------------------
(* The environment: the plan or its override changes, and time passes.     *)

ChangeLimit(new) ==
  /\ new # limit
  /\ limit' = new
  /\ UNCHANGED <<balanceVars, status, holdVars, chargeVars, lotVars, ledgerVars, aged>>

TtlElapses(r) ==
  /\ status[r] = "reserved"
  /\ aged' = aged \cup {r}
  /\ aged' # aged
  /\ UNCHANGED <<balanceVars, status, holdVars, chargeVars, lotVars, ledgerVars, limit>>

Claims ==
  \E r \in Requests, e \in 1..MaxCredits, s \in BOOLEAN : ClaimCreditReservation(r, e, s)
Settlements == \E r \in Requests, a \in 0..MaxCredits : SettleReservation(r, a)
Grants == \E l \in Lots, c \in PackCredits : AddPurchasedCredits(l, c)
(* A refund event asks for any part of the lot and finds what is free in it. *)
Refunds ==
  \E l \in Lots, c \in PackCredits :
    ReversePurchasedCredits(l, Least(c, Monus(credits_remaining[l], credits_reserved[l])),
                            <<"purchase_refund", l>>)

Next ==
  \/ ReleaseStaleReservations
  \/ Claims
  \/ \E r \in Requests : ReleaseReservation(r)
  \/ Settlements
  \/ Grants
  \/ Refunds
  \/ \E p \in Periods : ResetCreditsForRenewal(p)
  \/ \E k \in RestoreKeys : RestoreIncludedMonthlyCredits(k)
  \/ \E n \in Limits : ChangeLimit(n)
  \/ \E r \in Requests : TtlElapses(r)

Spec == Init /\ [][Next]_ledger
-----------------------------------------------------------------------------
(* Properties.                                                             *)

Live == {r \in Requests : status[r] = "reserved"}

(* Every column holds a value of its type. *)
TypeOK ==
  /\ monthly_period \in Periods
  /\ monthly_used \in Nat /\ purchased_balance \in Nat
  /\ included_reserved \in Nat /\ purchased_reserved \in Nat
  /\ status \in [Requests -> Terminal \cup {"none", "reserved"}]
  /\ reserved_included \in [Requests -> Nat]
  /\ reserved_purchased \in [Requests -> Nat]
  /\ purchase_allocations \in [Requests -> [Lots -> Nat]]
  /\ settled_included \in [Requests -> Nat]
  /\ settled_purchased \in [Requests -> Nat]
  /\ unfunded_credits \in [Requests -> Nat]
  /\ credits_granted \in [Lots -> Nat] /\ credits_remaining \in [Lots -> Nat]
  /\ credits_reserved \in [Lots -> Nat] /\ credits_reversed \in [Lots -> Nat]
  /\ posted \in [included : Int, purchased : Int,
                 included_reserved : Int, purchased_reserved : Int]
  /\ limit \in Limits
  /\ aged \subseteq Requests

(* The two reserved counters of the balance are exactly the sums over the  *)
(* reservations still "reserved": no claim, settlement, release, expiry or *)
(* renewal, in any order, leaks a hold or drops one twice.                 *)
HoldsMatchReservations ==
  /\ included_reserved = IncludedHeld(Live)
  /\ purchased_reserved = PurchasedHeld(Live)

(* The purchase lots agree with the balance: what remains in them is the   *)
(* purchased balance, and each lot's reserved credits are those its live   *)
(* allocations name.                                                       *)
LotsMatchBalance ==
  /\ Total(credits_remaining) = purchased_balance
  /\ Total(credits_reserved) = purchased_reserved
  /\ \A l \in Lots : credits_reserved[l] = LotHeld(Live, l)

(* The CHECK constraints of the balance and of the lots, which the code    *)
(* never tests before it commits, are met by every operation: reserved     *)
(* credits are covered by the credits that are there.                      *)
ReservedIsCovered ==
  /\ purchased_reserved <= purchased_balance
  /\ \A l \in Lots : credits_reserved[l] <= credits_remaining[l]

(* Purchased credits are neither created nor lost: what the lots granted   *)
(* is still in the balance, was reversed by a refund, or was settled by a  *)
(* request, as the three tables tell it.                                   *)
PurchasedCreditsAccounted ==
  Total(credits_granted) =
    purchased_balance + Total(credits_reversed) + Total(settled_purchased)

(* The audit trail explains the balance: the deltas the ledger entries     *)
(* record sum to the four columns, across expiries, renewals and restores. *)
LedgerExplainsBalance ==
  /\ posted.included + monthly_used = 0
  /\ posted.purchased = purchased_balance
  /\ posted.included_reserved = included_reserved
  /\ posted.purchased_reserved = purchased_reserved

(* The included allowance is never overdrawn, held and used credits        *)
(* together, beyond the largest limit the tenant ever had: a renewal or a  *)
(* restore with requests in flight does not lend the allowance twice.      *)
IncludedNotOverdrawn ==
  \E n \in (Limits \ {Unlimited}) \cup {0} :
    monthly_used + included_reserved <= n

(* No operation, in whatever order with the others, holds or uses credits  *)
(* that are not there: not the purchased ones, in the balance or in any    *)
(* lot, and not the allowance a second time.                               *)
CreditsCovered == ReservedIsCovered /\ IncludedNotOverdrawn

(* A reservation that left "reserved" is never charged, released or        *)
(* reopened again: one request is billed at most once.                     *)
ChargedOnce ==
  [][\A r \in Requests : status[r] \in Terminal =>
       /\ status'[r] = status[r]
       /\ settled_included'[r] = settled_included[r]
       /\ settled_purchased'[r] = settled_purchased[r]]_ledger
=============================================================================
