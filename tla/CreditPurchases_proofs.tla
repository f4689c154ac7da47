------------------------ MODULE CreditPurchases_proofs ------------------------
(***************************************************************************)
(* Credit packs, for any number of lots, requests and events, any price    *)
(* and size: a pack is granted once it is paid, refunds are handled once,  *)
(* and unless an operation steps inside the handler refunded credits are   *)
(* gone and the books of the account stay in agreement.                    *)
(***************************************************************************)
EXTENDS CreditPurchases, CreditLedger_proofs

-----------------------------------------------------------------------------
(* What a refund takes back.                                               *)

(* Rounded division grows with what is divided.                            *)
LEMMA DivGrows ==
  ASSUME NEW a \in Nat, NEW b \in Nat, a <= b, NEW d \in Nat \ {0}
  PROVE  a \div d \in Nat /\ b \div d \in Nat /\ a \div d <= b \div d
<1> DEFINE p == a \div d
           q == b \div d
<1>1. p \in Int /\ d * p <= a /\ a < d * p + d
  OBVIOUS
<1>2. q \in Int /\ d * q <= b /\ b < d * q + d
  OBVIOUS
<1> HIDE DEF p, q
<1>3. \A n \in Int : n < 0 => d * n + d <= 0
  <2>1. \A n \in Int : n < 0 => d * (n + 1) <= 0 /\ d * (n + 1) = d * n + d
    OBVIOUS
  <2> QED BY <2>1
<1>4. p \in Nat /\ q \in Nat
  BY <1>1, <1>2, <1>3
<1>5. ~(q < p)
  <2>1. SUFFICES ASSUME q < p PROVE FALSE
    OBVIOUS
  <2>2. q - p \in Int /\ q - p < 0
    BY <1>1, <1>2, <2>1
  <2>3. d * (q - p) + d <= 0
    BY <1>3, <2>2
  <2>4. d * (q - p) = d * q - d * p
    BY <1>1, <1>2
  <2>5. d * q \in Int /\ d * p \in Int
    BY <1>1, <1>2
  <2> QED BY <1>1, <1>2, <2>3, <2>4, <2>5
<1> QED BY <1>4, <1>5 DEF p, q

(* A larger refund takes back no fewer credits, and none takes nothing.    *)
LEMMA TargetGrows ==
  /\ TargetReversal(0) = 0
  /\ \A n \in Nat : TargetReversal(n) \in Nat
  /\ \A m, n \in Nat : m <= n => TargetReversal(m) <= TargetReversal(n)
<1>1. PackSize \in Nat /\ Price \in Nat /\ Price >= 1
  BY PurchaseAssumption
<1>2. ASSUME NEW n \in Nat
      PROVE  PackSize * n \in Nat /\ PackSize * n + Price - 1 \in Nat
  BY <1>1, <1>2
<1>3. ASSUME NEW m \in Nat, NEW n \in Nat, m <= n
      PROVE  PackSize * m <= PackSize * n
  <2>1. n - m \in Nat /\ PackSize * (n - m) \in Nat
    BY <1>1, <1>3
  <2>2. PackSize * (n - m) = PackSize * n - PackSize * m
    BY <1>1
  <2> QED BY <1>2, <2>1, <2>2
<1>4. ASSUME NEW m \in Nat, NEW n \in Nat, m <= n
      PROVE  /\ TargetReversal(m) \in Nat /\ TargetReversal(n) \in Nat
             /\ TargetReversal(m) <= TargetReversal(n)
  <2>1. PICK a \in Nat : a = PackSize * m + Price - 1
    BY <1>2
  <2>2. PICK b \in Nat : b = PackSize * n + Price - 1
    BY <1>2
  <2>3. a <= b
    BY <1>1, <1>2, <1>3, <1>4, <2>1, <2>2
  <2>4. a \div Price \in Nat /\ b \div Price \in Nat /\ a \div Price <= b \div Price
    BY <1>1, <2>3, DivGrows
  <2> QED BY <2>1, <2>2, <2>4 DEF TargetReversal
<1>5. TargetReversal(0) = 0
  <2>1. PackSize * 0 = 0
    BY <1>1
  <2>2. TargetReversal(0) = (Price - 1) \div Price
    BY <1>1, <2>1 DEF TargetReversal
  <2>3. \A d \in Nat : d >= 1 => (d - 1) \div d = 0
    OBVIOUS
  <2> QED BY <1>1, <2>2, <2>3
<1> QED BY <1>4, <1>5

(* A refund of the whole price takes the whole pack, one of less no more.  *)
LEMMA TargetOfPrice ==
  /\ TargetReversal(Price) = PackSize
  /\ \A n \in 0..Price : TargetReversal(n) \in 0..PackSize
<1>1. PackSize \in Nat /\ Price \in Nat /\ Price >= 1
  BY PurchaseAssumption
<1>2. PICK a \in Nat : a = PackSize * Price /\ a + Price - 1 \in Nat
  BY <1>1
<1>3. PICK q \in Int : /\ q = (a + Price - 1) \div Price
                       /\ Price * q <= a + Price - 1 /\ a + Price - 1 < Price * q + Price
  BY <1>1, <1>2
<1>4. \A n \in Int : n > 0 => Price * n >= Price
  BY <1>1
<1>5. Price * (q - PackSize) = Price * q - a /\ Price * (PackSize - q) = a - Price * q
      /\ Price * q \in Int
  BY <1>1, <1>2
<1>6. ~(q - PackSize > 0) /\ ~(PackSize - q > 0)
  <2>1. Price * (q - PackSize) <= Price - 1 /\ Price * (PackSize - q) < 1
    BY <1>1, <1>2, <1>3, <1>5
  <2>2. q - PackSize \in Int /\ PackSize - q \in Int
    BY <1>1
  <2>3. Price * (q - PackSize) \in Int /\ Price * (PackSize - q) \in Int
    BY <1>1, <1>2, <1>5
  <2> QED BY <1>1, <1>4, <2>1, <2>2, <2>3
<1>7. TargetReversal(Price) = PackSize
  <2>1. q = PackSize
    BY <1>1, <1>6
  <2> QED BY <1>2, <1>3, <2>1 DEF TargetReversal
<1>8. ASSUME NEW n \in 0..Price PROVE TargetReversal(n) \in 0..PackSize
  <2>1. n \in Nat /\ n <= Price
    BY <1>1
  <2>2. TargetReversal(n) \in Nat /\ TargetReversal(n) <= TargetReversal(Price)
    BY <1>1, <2>1, TargetGrows
  <2> QED BY <1>1, <1>7, <2>2
<1> QED BY <1>7, <1>8

-----------------------------------------------------------------------------
(* The inductive invariant of every behaviour.                             *)

Kinds == {"completed_paid", "completed_unpaid", "async_payment_succeeded",
          "async_payment_failed", "refunded"}
Events == [kind : Kinds, lot : Lots, amount : 0..Price, again : BOOLEAN]

Statuses == {"none", "creating", "pending", "checkout_failed", "pending_payment",
             "paid", "failed", "refunded", "partially_refunded", "refund_review"}
Unsettled == {"none", "creating", "pending", "checkout_failed"}
Payments == {"none", "open", "processing", "paid", "failed"}

Copies == [status : Statuses, granted : Nat, remaining : Nat, reserved : Nat,
           reversed : Nat, shortfall : Nat, refunded : 0..Price]

Typed ==
  /\ TypeOK /\ NotYetSettled
  /\ purchase_status \in [Lots -> Statuses] /\ payment \in [Lots -> Payments]
  /\ refunded_amount \in [Lots -> 0..Price] /\ stripe_refunded \in [Lots -> 0..Price]
  /\ refund_shortfall_credits \in [Lots -> Nat]
  /\ sent \subseteq Events /\ processed \subseteq sent
  /\ overlap \in BOOLEAN
  /\ handling # Idle => /\ handling = [event |-> handling.event, row |-> handling.row]
                        /\ handling.event \in sent /\ handling.row \in Copies

(* The lot's events of the kinds K: sent, and processed.                   *)
Sent(l, K) == \E e \in sent : e.lot = l /\ e.kind \in K
Done(l, K) == \E e \in processed : e.lot = l /\ e.kind \in K
Paying == {"completed_paid", "async_payment_succeeded"}

(* What Stripe has sent of a lot tells its payment, and all of it.         *)
EventsTell ==
  /\ \A e \in sent :
       /\ e.kind \in Paying => payment[e.lot] = "paid"
       /\ e.kind = "completed_unpaid" => payment[e.lot] \in {"processing", "paid", "failed"}
       /\ e.kind = "async_payment_failed" => payment[e.lot] = "failed"
       /\ e.kind = "refunded" => e.amount \in 1..stripe_refunded[e.lot]
  /\ \A l \in Lots :
       /\ payment[l] = "paid" => Sent(l, Paying)
       /\ payment[l] = "failed" => Sent(l, {"async_payment_failed"})
       /\ payment[l] = "processing" => Sent(l, {"completed_unpaid"})
       /\ stripe_refunded[l] > 0 =>
            /\ payment[l] = "paid"
            /\ \E e \in sent : e.lot = l /\ e.kind = "refunded" /\ e.amount = stripe_refunded[l]

(* The copy is the row: only a handler writes the columns, and one runs.   *)
CopyIsRow ==
  handling # Idle =>
    LET l == handling.event.lot
        row == handling.row
    IN /\ row.status = purchase_status[l] /\ row.granted = credits_granted[l]
       /\ row.reversed = credits_reversed[l] /\ row.refunded = refunded_amount[l]
       /\ row.shortfall = refund_shortfall_credits[l]
       /\ ~overlap => row.remaining = credits_remaining[l] /\ row.reserved = credits_reserved[l]

(* What the processed refunds and payments have left in the lot's columns. *)
RefundedRight(l) ==
  /\ credits_reversed[l] + refund_shortfall_credits[l] = TargetReversal(refunded_amount[l])
  /\ refunded_amount[l] <= stripe_refunded[l]
  /\ \A e \in processed : e.lot = l /\ e.kind = "refunded" => e.amount <= refunded_amount[l]
  /\ refund_shortfall_credits[l] > 0 => credits_granted[l] > 0
  /\ credits_granted[l] > 0 => Done(l, Paying)

(* The status is that of the last word on the payment, in whatever order   *)
(* the words came.                                                         *)
StatusRight(l) ==
  /\ purchase_status[l] \in {"none", "creating"} => payment[l] = "none"
  /\ IF refunded_amount[l] > 0
     THEN purchase_status[l] = RefundStatus(refunded_amount[l], refund_shortfall_credits[l])
     ELSE IF Done(l, Paying) THEN purchase_status[l] = "paid"
     ELSE IF Done(l, {"async_payment_failed"}) THEN purchase_status[l] = "failed"
     ELSE IF Done(l, {"completed_unpaid"}) THEN purchase_status[l] = "pending_payment"
     ELSE purchase_status[l] \in Unsettled /\ (payment[l] # "none" => purchase_status[l] = "pending")

RowsRight == \A l \in Lots : RefundedRight(l) /\ StatusRight(l)

HookInv == Typed /\ EventsTell /\ CopyIsRow /\ RowsRight

-----------------------------------------------------------------------------
(* Types: an operation that meets the CHECK constraints leaves every column *)
(* of the account a value of its type, whatever the books say.             *)

(* What a ledger entry records is a number.                                *)
LEMMA PostTypes ==
  ASSUME TypeOK, NEW X \in SUBSET Requests,
         NEW a \in Int, NEW b \in Int, NEW c \in Int, NEW d \in Int, Post(X, a, b, c, d)
  PROVE  posted' \in [included : Int, purchased : Int,
                      included_reserved : Int, purchased_reserved : Int]
<1>1. IncludedHeld(X) \in Int /\ PurchasedHeld(X) \in Int
  BY ExpiryTypes
<1>2. /\ posted.included \in Int /\ posted.purchased \in Int
      /\ posted.included_reserved \in Int /\ posted.purchased_reserved \in Int
  BY DEF TypeOK
<1> QED BY <1>1, <1>2 DEF Post

(* What an expiry leaves.                                                  *)
LEMMA ExpireOnlyTypes ==
  ASSUME TypeOK, NotYetSettled, NEW X \in SUBSET Live, ExpireOnly(X),
         UNCHANGED settled_purchased
  PROVE  /\ included_reserved' \in Nat /\ purchased_reserved' \in Nat
         /\ credits_reserved' \in [Lots -> Nat]
         /\ status' \in [Requests -> Terminal \cup {"none", "reserved"}]
         /\ NotYetSettled'
<1>1. X \in SUBSET Requests
  BY DEF Live
<1>2. /\ included_reserved' \in Nat /\ purchased_reserved' \in Nat
      /\ credits_reserved' \in [Lots -> Nat]
  BY <1>1, ExpiryTypes DEF ExpireOnly
<1>3. /\ status' \in [Requests -> Terminal \cup {"none", "reserved"}]
      /\ \A q \in Requests : status'[q] \in {"none", "reserved"} => status'[q] = status[q]
  BY LiveExpired DEF ExpireOnly
<1> QED BY <1>2, <1>3 DEF NotYetSettled

(* Committing the expiry alone.                                            *)
LEMMA ReleaseStaleTypes ==
  ASSUME TypeOK, NotYetSettled, ReleaseStaleReservations
  PROVE  TypeOK' /\ NotYetSettled'
<1>0. PICK X : X = Stale({})
  OBVIOUS
<1>1. X \in SUBSET Live /\ X \in SUBSET Requests
  BY <1>0, StaleIsLive DEF Live
<1>2. /\ ExpireOnly(X) /\ Post(X, 0, 0, 0, 0)
      /\ UNCHANGED <<monthly_period, monthly_used, purchased_balance, holdVars,
                     chargeVars, credits_granted, credits_remaining,
                     credits_reversed, ledger_keys, limit, aged>>
  BY <1>0 DEF ReleaseStaleReservations
<1>3. /\ included_reserved' \in Nat /\ purchased_reserved' \in Nat
      /\ credits_reserved' \in [Lots -> Nat]
      /\ status' \in [Requests -> Terminal \cup {"none", "reserved"}]
      /\ NotYetSettled'
  BY <1>1, <1>2, ExpireOnlyTypes DEF chargeVars
<1>4. posted' \in [included : Int, purchased : Int,
                   included_reserved : Int, purchased_reserved : Int]
  BY <1>1, <1>2, PostTypes
<1> QED BY <1>2, <1>3, <1>4 DEF TypeOK, holdVars, chargeVars

(* A release.                                                              *)
LEMMA ReleaseTypes ==
  ASSUME TypeOK, NotYetSettled, NEW r \in Requests, ReleaseReservation(r), CheckConstraints'
  PROVE  TypeOK' /\ NotYetSettled'
<1>0. PICK X : X = Stale({r})
  OBVIOUS
<1>1. X \in SUBSET Live /\ X \in SUBSET Requests /\ X \cup {r} \in SUBSET Requests
      /\ status[r] = "reserved"
  BY <1>0, StaleIsLive DEF Live, ReleaseReservation
<1>2. /\ included_reserved' = IncludedReservedWithout(X) - reserved_included[r]
      /\ purchased_reserved' = PurchasedReservedWithout(X) - reserved_purchased[r]
      /\ credits_reserved' = LotsReservedWithout(X \cup {r})
      /\ status' = StatusWith(X, r, "released")
      /\ Post(X, 0, 0, -reserved_included[r], -reserved_purchased[r])
      /\ UNCHANGED <<monthly_period, monthly_used, purchased_balance, holdVars,
                     chargeVars, credits_granted, credits_remaining,
                     credits_reversed, ledger_keys, limit, aged>>
  BY <1>0 DEF ReleaseReservation, ReleaseTransaction
<1>3. reserved_included[r] \in Nat /\ reserved_purchased[r] \in Nat
  BY DEF TypeOK
<1>4. included_reserved' \in Nat /\ purchased_reserved' \in Nat
  <2>1. IncludedReservedWithout(X) \in Nat /\ PurchasedReservedWithout(X) \in Nat
    BY <1>1, ExpiryTypes
  <2>2. included_reserved' >= 0 /\ purchased_reserved' >= 0
    BY DEF CheckConstraints
  <2> QED BY <1>2, <1>3, <2>1, <2>2
<1>5. credits_reserved' \in [Lots -> Nat]
  BY <1>1, <1>2, ExpiryTypes
<1>6. /\ status' \in [Requests -> Terminal \cup {"none", "reserved"}]
      /\ \A q \in Requests \ {r} :
           status'[q] \in {"none", "reserved"} => status'[q] = status[q]
  BY <1>1, <1>2, LiveWith DEF Terminal
<1>7. NotYetSettled'
  <2>1. status'[r] = "released" /\ settled_purchased' = settled_purchased
    BY <1>2 DEF StatusWith, chargeVars
  <2> QED BY <1>6, <2>1 DEF NotYetSettled
<1>8. posted' \in [included : Int, purchased : Int,
                   included_reserved : Int, purchased_reserved : Int]
  BY <1>1, <1>2, <1>3, PostTypes
<1> QED BY <1>2, <1>4, <1>5, <1>6, <1>7, <1>8 DEF TypeOK, holdVars, chargeVars

(* What a claim holds.                                                     *)
LEMMA HoldTypes ==
  ASSUME TypeOK, NEW X \in SUBSET Requests, NEW e \in Nat, NEW s \in BOOLEAN
  PROVE  Hold(X, e, s).included \in Nat /\ Hold(X, e, s).purchased \in Nat
<1>1. CASE limit = Unlimited \/ s
  BY <1>1 DEF Hold
<1>2. CASE ~(limit = Unlimited \/ s)
  <2>1. /\ limit \in Nat /\ monthly_used \in Nat /\ IncludedReservedWithout(X) \in Nat
    BY <1>2, LedgerAssumption, ExpiryTypes DEF TypeOK
  <2>2. IncludedAvailable(IncludedReservedWithout(X)) \in Nat
    BY <2>1 DEF IncludedAvailable, Monus
  <2>3. PICK i : i = Least(e, IncludedAvailable(IncludedReservedWithout(X)))
    OBVIOUS
  <2>4. i \in Nat /\ e - i \in Nat
    BY <2>2, <2>3 DEF Least
  <2>5. Hold(X, e, s) = [included |-> i, purchased |-> e - i]
    BY <1>2, <2>3 DEF Hold
  <2> QED BY <2>4, <2>5
<1> QED BY <1>1, <1>2

(* A claim.                                                                *)
LEMMA ClaimTypes ==
  ASSUME TypeOK, NotYetSettled, NEW r \in Requests, NEW e \in Nat, NEW s \in BOOLEAN,
         ClaimCreditReservation(r, e, s)
  PROVE  TypeOK' /\ NotYetSettled'
<1>0. PICK X : X = Stale({})
  OBVIOUS
<1> DEFINE hold == Hold(X, e, s)
           free == [l \in Lots |-> Monus(credits_remaining[l], LotsReservedWithout(X)[l])]
           take == OldestFirst(hold.purchased, free)
<1>1. X \in SUBSET Live /\ X \in SUBSET Requests
  BY <1>0, StaleIsLive DEF Live
<1>2. /\ status[r] = "none"
      /\ included_reserved' = IncludedReservedWithout(X) + hold.included
      /\ purchased_reserved' = PurchasedReservedWithout(X) + hold.purchased
      /\ credits_reserved' = [l \in Lots |-> LotsReservedWithout(X)[l] + take[l]]
      /\ status' = StatusWith(X, r, "reserved")
      /\ reserved_included' = [reserved_included EXCEPT ![r] = hold.included]
      /\ reserved_purchased' = [reserved_purchased EXCEPT ![r] = hold.purchased]
      /\ purchase_allocations' = [purchase_allocations EXCEPT ![r] = take]
      /\ Post(X, 0, 0, hold.included, hold.purchased)
      /\ UNCHANGED <<monthly_period, monthly_used, purchased_balance, chargeVars,
                     credits_granted, credits_remaining, credits_reversed,
                     ledger_keys, limit, aged>>
  BY <1>0 DEF ClaimCreditReservation
<1>3. hold.included \in Nat /\ hold.purchased \in Nat
  BY <1>1, HoldTypes
<1>4. /\ IncludedReservedWithout(X) \in Nat /\ PurchasedReservedWithout(X) \in Nat
      /\ LotsReservedWithout(X) \in [Lots -> Nat]
  BY <1>1, ExpiryTypes
<1>5. take \in [Lots -> Nat]
  <2>1. free \in [Lots -> Nat]
    <3>1. \A a, b \in Nat : Monus(a, b) \in Nat
      BY DEF Monus
    <3>2. credits_remaining \in [Lots -> Nat]
      BY DEF TypeOK
    <3> QED BY <1>4, <3>1, <3>2
  <2> HIDE DEF free, hold
  <2> QED BY <1>3, <2>1, LotsOldestFirst
<1> HIDE DEF take, hold
<1>6. /\ included_reserved' \in Nat /\ purchased_reserved' \in Nat
      /\ credits_reserved' \in [Lots -> Nat]
  BY <1>2, <1>3, <1>4, <1>5
<1>7. /\ reserved_included' \in [Requests -> Nat] /\ reserved_purchased' \in [Requests -> Nat]
      /\ purchase_allocations' \in [Requests -> [Lots -> Nat]]
  BY <1>2, <1>3, <1>5 DEF TypeOK
<1>8. /\ status' \in [Requests -> Terminal \cup {"none", "reserved"}]
      /\ \A q \in Requests \ {r} :
           status'[q] \in {"none", "reserved"} => status'[q] = status[q]
  BY <1>1, <1>2, LiveWith DEF Terminal
<1>9. NotYetSettled'
  BY <1>2, <1>8 DEF NotYetSettled, chargeVars
<1>10. posted' \in [included : Int, purchased : Int,
                    included_reserved : Int, purchased_reserved : Int]
  BY <1>1, <1>2, <1>3, PostTypes
<1> QED BY <1>2, <1>6, <1>7, <1>8, <1>9, <1>10 DEF TypeOK, chargeVars

(* What a settlement charges.                                              *)
LEMMA ChargeTypes ==
  ASSUME TypeOK, NEW r \in Requests, NEW n \in Nat, NEW ir \in Nat, NEW pr \in Nat
  PROVE  LET c == Charge(r, n, ir, pr)
         IN /\ c.included \in Nat /\ c.purchased \in Nat /\ c.unfunded \in Nat
            /\ c.fromHold \in Nat /\ c.fromFree \in Nat
<1>1. CASE limit = Unlimited
  BY <1>1 DEF Charge
<1>2. CASE limit # Unlimited
  <2>1. /\ reserved_included[r] \in Nat /\ reserved_purchased[r] \in Nat
        /\ monthly_used \in Nat /\ purchased_balance \in Nat /\ limit \in Nat
    BY <1>2, LedgerAssumption DEF TypeOK
  <2>2. \A a, b \in Nat : Least(a, b) \in Nat /\ a - Least(a, b) \in Nat /\ Monus(a, b) \in Nat
    BY DEF Least, Monus
  <2>3. PICK hi \in Nat : hi = Least(n, reserved_included[r]) /\ n - hi \in Nat
    BY <2>1, <2>2
  <2>4. PICK hp \in Nat : hp = Least(n - hi, reserved_purchased[r]) /\ n - hi - hp \in Nat
    BY <2>1, <2>2, <2>3
  <2>5. PICK ei \in Nat : /\ ei = Least(n - hi - hp, IncludedAvailable(ir + hi))
                          /\ n - hi - hp - ei \in Nat
    <3>1. IncludedAvailable(ir + hi) \in Nat
      <4>1. monthly_used + (ir + hi) \in Nat
        BY <2>1
      <4> QED BY <2>1, <2>2, <4>1 DEF IncludedAvailable
    <3> QED BY <2>2, <2>4, <3>1
  <2>6. PICK ep \in Nat : /\ ep = Least(n - hi - hp - ei, PurchasedAvailable(pr + hp))
                          /\ n - hi - hp - ei - ep \in Nat
    <3>1. PurchasedAvailable(pr + hp) \in Nat
      <4>1. pr + hp \in Nat
        OBVIOUS
      <4> QED BY <2>1, <2>2, <4>1 DEF PurchasedAvailable
    <3> QED BY <2>2, <2>5, <3>1
  <2>7. Charge(r, n, ir, pr) = [included |-> hi + ei, purchased |-> hp + ep, fromHold |-> hp,
                                fromFree |-> ep, unfunded |-> n - hi - hp - ei - ep]
    BY <1>2, <2>3, <2>4, <2>5, <2>6 DEF Charge
  <2>8. /\ hi + ei \in Nat /\ hp + ep \in Nat
        /\ n - hi - hp - ei - ep \in Nat
    BY <2>6
  <2> QED BY <2>7, <2>8
<1> QED BY <1>1, <1>2

(* A settlement.                                                           *)
LEMMA SettleTypes ==
  ASSUME TypeOK, NotYetSettled, NEW r \in Requests, NEW n \in Nat,
         SettleReservation(r, n), CheckConstraints'
  PROVE  /\ TypeOK' /\ NotYetSettled'
         /\ \A l \in Lots : credits_remaining'[l] <= credits_remaining[l]
<1>0. PICK X : X = Stale({r})
  OBVIOUS
<1> DEFINE ir == IncludedReservedWithout(X) - reserved_included[r]
           pr == PurchasedReservedWithout(X) - reserved_purchased[r]
           charge == Charge(r, n, ir, pr)
           held == OldestFirst(charge.fromHold, purchase_allocations[r])
           kept == [l \in Lots |-> Monus(credits_remaining[l], held[l])]
           resv == LotsReservedWithout(X \cup {r})
           offer == [l \in Lots |-> Monus(kept[l], resv[l])]
           free == OldestFirst(charge.fromFree, offer)
<1>1. X \in SUBSET Live /\ X \in SUBSET Requests /\ X \cup {r} \in SUBSET Requests
      /\ status[r] = "reserved"
  BY <1>0, StaleIsLive DEF Live, SettleReservation
<1>2. /\ included_reserved' = ir /\ purchased_reserved' = pr
      /\ monthly_used' = monthly_used + charge.included
      /\ purchased_balance' = purchased_balance - charge.purchased
      /\ credits_reserved' = resv
      /\ credits_remaining' = [l \in Lots |-> kept[l] - free[l]]
      /\ status' = StatusWith(X, r, SettledStatus(n, charge.unfunded))
      /\ settled_included' = [settled_included EXCEPT ![r] = charge.included]
      /\ settled_purchased' = [settled_purchased EXCEPT ![r] = charge.purchased]
      /\ unfunded_credits' = [unfunded_credits EXCEPT ![r] = charge.unfunded]
      /\ Post(X, -charge.included, -charge.purchased,
              -reserved_included[r], -reserved_purchased[r])
      /\ UNCHANGED <<monthly_period, holdVars, credits_granted, credits_reversed,
                     ledger_keys, limit, aged>>
  BY <1>0 DEF SettleReservation, SettleTransaction
<1>3. reserved_included[r] \in Nat /\ reserved_purchased[r] \in Nat
      /\ purchase_allocations[r] \in [Lots -> Nat]
      /\ monthly_used \in Nat /\ purchased_balance \in Nat
      /\ credits_remaining \in [Lots -> Nat]
  BY DEF TypeOK
<1>4. ir \in Nat /\ pr \in Nat
  <2>1. IncludedReservedWithout(X) \in Nat /\ PurchasedReservedWithout(X) \in Nat
    BY <1>1, ExpiryTypes
  <2>2. included_reserved' >= 0 /\ purchased_reserved' >= 0
    BY DEF CheckConstraints
  <2> QED BY <1>2, <1>3, <2>1, <2>2
<1> HIDE DEF ir, pr
<1>5. /\ charge.included \in Nat /\ charge.purchased \in Nat /\ charge.unfunded \in Nat
      /\ charge.fromHold \in Nat /\ charge.fromFree \in Nat
  BY <1>4, ChargeTypes
<1> HIDE DEF charge
<1>6. resv \in [Lots -> Nat]
  BY <1>1, ExpiryTypes
<1> HIDE DEF resv
<1>m. \A a, b \in Nat : Monus(a, b) \in Nat /\ Monus(a, b) <= a
  BY DEF Monus
<1>7. held \in [Lots -> Nat]
  BY <1>3, <1>5, LotsOldestFirst
<1> HIDE DEF held
<1>8. kept \in [Lots -> Nat] /\ \A l \in Lots : kept[l] <= credits_remaining[l]
  BY <1>3, <1>7, <1>m
<1> HIDE DEF kept
<1>9. offer \in [Lots -> Nat] /\ \A l \in Lots : offer[l] <= kept[l]
  BY <1>6, <1>8, <1>m
<1> HIDE DEF offer
<1>10. free \in [Lots -> Nat] /\ \A l \in Lots : free[l] <= offer[l]
  BY <1>5, <1>9, LotsOldestFirst
<1> HIDE DEF free
<1>11. /\ credits_remaining' \in [Lots -> Nat]
       /\ \A l \in Lots : credits_remaining'[l] <= credits_remaining[l]
  <2>1. \A l \in Lots : /\ kept[l] - free[l] \in Nat
                        /\ kept[l] - free[l] <= credits_remaining[l]
    <3>1. SUFFICES ASSUME NEW l \in Lots
                   PROVE  kept[l] - free[l] \in Nat /\ kept[l] - free[l] <= credits_remaining[l]
      OBVIOUS
    <3>2. /\ kept[l] \in Nat /\ free[l] \in Nat /\ offer[l] \in Nat /\ credits_remaining[l] \in Nat
          /\ free[l] <= offer[l] /\ offer[l] <= kept[l] /\ kept[l] <= credits_remaining[l]
      BY <1>3, <1>8, <1>9, <1>10
    <3> QED BY <3>2
  <2> QED BY <1>2, <2>1
<1>12. purchased_balance' \in Nat /\ monthly_used' \in Nat
  <2>1. purchased_balance' >= 0
    BY DEF CheckConstraints
  <2> QED BY <1>2, <1>3, <1>5, <2>1
<1>13. /\ settled_included' \in [Requests -> Nat] /\ settled_purchased' \in [Requests -> Nat]
       /\ unfunded_credits' \in [Requests -> Nat]
  BY <1>2, <1>5 DEF TypeOK
<1> DEFINE after == SettledStatus(n, charge.unfunded)
<1>14. after \in Terminal
  BY DEF SettledStatus, Terminal
<1>15. status' = StatusWith(X, r, after)
  BY <1>2
<1> HIDE DEF after
<1>16. /\ status' \in [Requests -> Terminal \cup {"none", "reserved"}]
       /\ \A q \in Requests \ {r} :
            status'[q] \in {"none", "reserved"} => status'[q] = status[q]
  BY <1>1, <1>14, <1>15, LiveWith
<1>17. NotYetSettled'
  <2>1. status'[r] \notin {"none", "reserved"}
    BY <1>14, <1>15 DEF StatusWith, Terminal
  <2>2. \A q \in Requests \ {r} : settled_purchased'[q] = settled_purchased[q]
    BY <1>2 DEF TypeOK
  <2> QED BY <1>16, <2>1, <2>2 DEF NotYetSettled
<1>18. posted' \in [included : Int, purchased : Int,
                    included_reserved : Int, purchased_reserved : Int]
  BY <1>1, <1>2, <1>3, <1>5, PostTypes
<1> QED BY <1>2, <1>4, <1>6, <1>11, <1>12, <1>13, <1>16, <1>17, <1>18 DEF TypeOK, holdVars

(* Any operation of the other users of the account; none of them adds to   *)
(* what remains in a lot or touches what was granted and reversed.         *)
LEMMA OperationTypes ==
  ASSUME TypeOK, NotYetSettled, LedgerOperation
  PROVE  /\ TypeOK' /\ NotYetSettled' /\ Conserved
         /\ \A l \in Lots : credits_remaining'[l] <= credits_remaining[l]
<1>0. MaxCredits \in Nat /\ CheckConstraints'
  BY LedgerAssumption DEF LedgerOperation
<1>c. /\ credits_remaining \in [Lots -> Nat]
      /\ credits_remaining' = credits_remaining =>
           \A l \in Lots : credits_remaining'[l] <= credits_remaining[l]
  BY DEF TypeOK
<1>1. CASE ReleaseStaleReservations
  BY <1>1, <1>c, ReleaseStaleTypes, UsesConserve DEF ReleaseStaleReservations
<1>2. CASE Claims
  <2>1. PICK r \in Requests, e \in 1..MaxCredits, s \in BOOLEAN : ClaimCreditReservation(r, e, s)
    BY <1>2 DEF Claims
  <2>2. e \in Nat
    BY <1>0
  <2>3. TypeOK' /\ NotYetSettled'
    BY <2>1, <2>2, ClaimTypes
  <2>4. credits_remaining' = credits_remaining
    BY <2>1 DEF ClaimCreditReservation
  <2> QED BY <1>2, <1>c, <2>3, <2>4, UsesConserve
<1>3. CASE \E r \in Requests : ReleaseReservation(r)
  <2>1. PICK r \in Requests : ReleaseReservation(r)
    BY <1>3
  <2>2. TypeOK' /\ NotYetSettled'
    BY <1>0, <2>1, ReleaseTypes
  <2>3. credits_remaining' = credits_remaining
    BY <2>1 DEF ReleaseReservation, ReleaseTransaction
  <2> QED BY <1>c, <2>1, <2>2, <2>3, UsesConserve
<1>4. CASE Settlements
  <2>1. PICK r \in Requests, n \in 0..MaxCredits : SettleReservation(r, n)
    BY <1>4 DEF Settlements
  <2>2. n \in Nat
    BY <1>0
  <2>3. /\ TypeOK' /\ NotYetSettled'
        /\ \A l \in Lots : credits_remaining'[l] <= credits_remaining[l]
    BY <1>0, <2>1, <2>2, SettleTypes
  <2> QED BY <1>4, <2>3, UsesConserve
<1>5. CASE \E r \in Requests : TtlElapses(r)
  <2>1. PICK r \in Requests : TtlElapses(r)
    BY <1>5
  <2>2. /\ UNCHANGED <<balanceVars, status, holdVars, chargeVars, lotVars, ledgerVars, limit>>
        /\ aged' \subseteq Requests
    BY <2>1 DEF TtlElapses, TypeOK
  <2>3. TypeOK' /\ NotYetSettled' /\ credits_remaining' = credits_remaining
    BY <2>2 DEF TypeOK, NotYetSettled, balanceVars, holdVars, chargeVars, lotVars, ledgerVars
  <2> QED BY <1>5, <1>c, <2>3, UsesConserve
<1> QED BY <1>1, <1>2, <1>3, <1>4, <1>5 DEF LedgerOperation, AccountOperation

-----------------------------------------------------------------------------
(* What the handler does, in terms of the row as it is: the copy is fresh  *)
(* in every column that only handlers write.                               *)

(* Writing a column read fresh sets it.                                    *)
LEMMA WriteFresh ==
  ASSUME NEW c, c = [k \in Lots |-> c[k]], NEW l \in Lots, NEW n
  PROVE  Write(c, l, c[l], n) = [c EXCEPT ![l] = n]
<1>1. CASE n = c[l]
  BY <1>1 DEF Write
<1>2. CASE n # c[l]
  BY <1>2 DEF Write
<1> QED BY <1>1, <1>2

(* The handler of an event runs on a fresh copy of the row of its lot.     *)
LEMMA Handles ==
  ASSUME HookInv, NEW e \in sent, Handle(e)
  PROVE  LET l == e.lot
             row == handling.row
         IN /\ e \in Events /\ l \in Lots /\ handling # Idle /\ handling.event = e
            /\ row \in Copies
            /\ row.status = purchase_status[l] /\ row.granted = credits_granted[l]
            /\ row.reversed = credits_reversed[l] /\ row.refunded = refunded_amount[l]
            /\ row.shortfall = refund_shortfall_credits[l]
            /\ (~overlap => row.remaining = credits_remaining[l]
                            /\ row.reserved = credits_reserved[l])
            /\ \A s : SetStatus(l, row, s) => purchase_status' = [purchase_status EXCEPT ![l] = s]
            /\ processed' = processed \cup {e} /\ handling' = Idle
            /\ UNCHANGED <<stripeVars, overlap>>
            /\ e.kind = "completed_unpaid" => AwaitPayment(l, row)
            /\ e.kind = "async_payment_failed" => MarkFailed(l, row)
            /\ e.kind = "refunded" => RefundPurchase(l, row, e.amount)
            /\ e.kind \in Paying => Fulfil(l, row)
<1>1. /\ handling # Idle /\ handling.event = e
      /\ processed' = processed \cup {e} /\ handling' = Idle
      /\ UNCHANGED <<stripeVars, overlap>>
  BY DEF Handle
<1>2. e \in Events /\ e.lot \in Lots /\ handling.row \in Copies
  BY <1>1 DEF HookInv, Typed, Events
<1>3. LET l == e.lot
          row == handling.row
      IN /\ row.status = purchase_status[l] /\ row.granted = credits_granted[l]
         /\ row.reversed = credits_reversed[l] /\ row.refunded = refunded_amount[l]
         /\ row.shortfall = refund_shortfall_credits[l]
         /\ (~overlap => row.remaining = credits_remaining[l]
                         /\ row.reserved = credits_reserved[l])
  BY <1>1 DEF HookInv, CopyIsRow
<1>4. \A s : SetStatus(e.lot, handling.row, s)
               => purchase_status' = [purchase_status EXCEPT ![e.lot] = s]
  <2>1. purchase_status \in [Lots -> Statuses]
    BY DEF HookInv, Typed
  <2>2. SUFFICES ASSUME NEW s, SetStatus(e.lot, handling.row, s)
                 PROVE  purchase_status' = [purchase_status EXCEPT ![e.lot] = s]
    OBVIOUS
  <2>3. purchase_status' = Write(purchase_status, e.lot, purchase_status[e.lot], s)
    BY <1>3, <2>2 DEF SetStatus
  <2>4. Write(purchase_status, e.lot, purchase_status[e.lot], s)
          = [purchase_status EXCEPT ![e.lot] = s]
    BY <1>2, <2>1, WriteFresh
  <2> QED BY <2>3, <2>4
<1>5. /\ e.kind = "completed_unpaid" => AwaitPayment(e.lot, handling.row)
      /\ e.kind = "async_payment_failed" => MarkFailed(e.lot, handling.row)
      /\ e.kind = "refunded" => RefundPurchase(e.lot, handling.row, e.amount)
      /\ e.kind \in Paying => Fulfil(e.lot, handling.row)
  BY DEF Handle, Paying
<1> QED BY <1>1, <1>2, <1>3, <1>4, <1>5

(* Nothing of the account moves.                                           *)
LEMMA IdleTypes ==
  ASSUME TypeOK, NotYetSettled, UNCHANGED ledger
  PROVE  TypeOK' /\ NotYetSettled'
BY DEF TypeOK, NotYetSettled, ledger, balanceVars, holdVars, chargeVars, lotVars, ledgerVars

(* A grant.                                                                *)
LEMMA GrantTypes ==
  ASSUME TypeOK, NotYetSettled, NEW l \in Lots, NEW c \in Nat, AddPurchasedCredits(l, c)
  PROVE  TypeOK' /\ NotYetSettled'
<1>0. PICK X : X = Stale({})
  OBVIOUS
<1>1. X \in SUBSET Live /\ X \in SUBSET Requests
  BY <1>0, StaleIsLive DEF Live
<1>2. /\ ExpireOnly(X) /\ Post(X, 0, c, 0, 0)
      /\ purchased_balance' = purchased_balance + c
      /\ credits_granted' = [credits_granted EXCEPT ![l] = c]
      /\ credits_remaining' = [credits_remaining EXCEPT ![l] = c]
      /\ UNCHANGED <<monthly_period, monthly_used, holdVars, chargeVars,
                     credits_reversed, limit, aged>>
  BY <1>0 DEF AddPurchasedCredits
<1>3. /\ included_reserved' \in Nat /\ purchased_reserved' \in Nat
      /\ credits_reserved' \in [Lots -> Nat]
      /\ status' \in [Requests -> Terminal \cup {"none", "reserved"}]
      /\ NotYetSettled'
  BY <1>1, <1>2, ExpireOnlyTypes DEF chargeVars
<1>4. posted' \in [included : Int, purchased : Int,
                   included_reserved : Int, purchased_reserved : Int]
  BY <1>1, <1>2, PostTypes
<1>5. /\ purchased_balance' \in Nat
      /\ credits_granted' \in [Lots -> Nat] /\ credits_remaining' \in [Lots -> Nat]
  BY <1>2 DEF TypeOK
<1> QED BY <1>2, <1>3, <1>4, <1>5 DEF TypeOK, holdVars, chargeVars

(* The balance side of a refund, when the lot's columns keep their types.  *)
LEMMA TakeBackTypes ==
  ASSUME TypeOK, NotYetSettled, NEW l \in Lots, NEW row \in Copies, NEW t \in Nat, NEW key,
         TakeBack(l, row, t, key), CheckConstraints',
         credits_remaining' \in [Lots -> Nat], credits_reversed' \in [Lots -> Nat]
  PROVE  TypeOK' /\ NotYetSettled'
<1>0. PICK X : X = Stale({})
  OBVIOUS
<1>1. X \in SUBSET Live /\ X \in SUBSET Requests
  BY <1>0, StaleIsLive DEF Live
<1>2. /\ included_reserved' = IncludedReservedWithout(X)
      /\ purchased_reserved' = PurchasedReservedWithout(X)
      /\ credits_reserved' = LotsReservedAround(l, row, X)
      /\ status' = StatusExpired(X)
      /\ purchased_balance' = purchased_balance - t
      /\ Post(X, 0, -t, 0, 0)
      /\ UNCHANGED <<monthly_period, monthly_used, holdVars, chargeVars,
                     credits_granted, limit, aged>>
  BY <1>0 DEF TakeBack
<1>3. /\ included_reserved' \in Nat /\ purchased_reserved' \in Nat
      /\ LotsReservedWithout(X) \in [Lots -> Nat]
  BY <1>1, <1>2, ExpiryTypes
<1>4. credits_reserved' \in [Lots -> Nat]
  <2>1. /\ row.reserved \in Nat /\ LotHeld(X, l) \in Nat /\ credits_reserved \in [Lots -> Nat]
    BY <1>1, HeldSplit DEF Copies, TypeOK
  <2>2. Monus(row.reserved, LotHeld(X, l)) \in Nat
    BY <2>1 DEF Monus
  <2>3. Write(credits_reserved, l, row.reserved, Monus(row.reserved, LotHeld(X, l)))[l] \in Nat
    BY <2>1, <2>2 DEF Write
  <2> QED BY <1>2, <1>3, <2>3 DEF LotsReservedAround
<1>5. purchased_balance' \in Nat
  <2>1. purchased_balance' >= 0
    BY DEF CheckConstraints
  <2> QED BY <1>2, <2>1 DEF TypeOK
<1>6. /\ status' \in [Requests -> Terminal \cup {"none", "reserved"}]
      /\ \A q \in Requests : status'[q] \in {"none", "reserved"} => status'[q] = status[q]
  BY <1>1, <1>2, LiveExpired
<1>7. NotYetSettled'
  BY <1>2, <1>6 DEF NotYetSettled, chargeVars
<1>8. posted' \in [included : Int, purchased : Int,
                   included_reserved : Int, purchased_reserved : Int]
  <2>1. -t \in Int
    OBVIOUS
  <2> QED BY <1>1, <1>2, <2>1, PostTypes
<1> QED BY <1>2, <1>3, <1>4, <1>5, <1>6, <1>7, <1>8 DEF TypeOK, holdVars, chargeVars

-----------------------------------------------------------------------------
(* The effect of each handler.                                             *)

(* A confirmed payment grants a lot once, all but what was reversed.       *)
Fulfilled(l) ==
  LET c == Monus(PackSize, credits_reversed[l])
      s == IF refunded_amount[l] > 0 THEN "partially_refunded" ELSE "paid"
  IN /\ credits_granted' = [credits_granted EXCEPT ![l] = c]
     /\ purchased_balance' = purchased_balance + c
     /\ credits_remaining' = IF c > 0 THEN [credits_remaining EXCEPT ![l] = c]
                             ELSE credits_remaining
     /\ UNCHANGED <<credits_reversed, settled_purchased>>
     /\ purchase_status' = [purchase_status EXCEPT ![l] = s]

LEMMA FulfilEffect ==
  ASSUME HookInv, NEW e \in sent, Apply(e), e.kind \in Paying
  PROVE  /\ TypeOK' /\ NotYetSettled' /\ UNCHANGED <<refunded_amount, refund_shortfall_credits>>
         /\ \/ /\ credits_granted[e.lot] > 0 \/ purchase_status[e.lot] = "refunded"
               /\ UNCHANGED <<ledger, rowVars>>
            \/ /\ credits_granted[e.lot] = 0 /\ purchase_status[e.lot] # "refunded"
               /\ Fulfilled(e.lot)
<1> DEFINE l == e.lot
           row == handling.row
           c == Monus(PackSize, credits_reversed[l])
           s == IF refunded_amount[l] > 0 THEN "partially_refunded" ELSE "paid"
<1>1. /\ l \in Lots /\ Fulfil(l, row)
      /\ row.status = purchase_status[l] /\ row.granted = credits_granted[l]
      /\ row.reversed = credits_reversed[l] /\ row.refunded = refunded_amount[l]
      /\ \A x : SetStatus(l, row, x) => purchase_status' = [purchase_status EXCEPT ![l] = x]
  BY Handles DEF Apply
<1>2. /\ TypeOK /\ NotYetSettled
      /\ credits_granted \in [Lots -> Nat] /\ credits_reversed \in [Lots -> Nat]
  BY DEF HookInv, Typed, TypeOK
<1> HIDE DEF l, row
<1>3. CASE AlreadyFulfilled(row)
  <2>1. UNCHANGED <<ledger, rowVars>>
    BY <1>1, <1>3 DEF Fulfil
  <2>2. TypeOK' /\ NotYetSettled'
    BY <1>2, <2>1, IdleTypes
  <2>3. credits_granted[l] > 0 \/ purchase_status[l] = "refunded"
    BY <1>1, <1>3 DEF AlreadyFulfilled
  <2> QED BY <2>1, <2>2, <2>3 DEF l, rowVars
<1>4. CASE ~AlreadyFulfilled(row)
  <2>1. /\ IF c > 0 THEN AddPurchasedCredits(l, c) ELSE UNCHANGED ledger
        /\ SetStatus(l, row, s)
        /\ UNCHANGED <<refunded_amount, refund_shortfall_credits>>
    BY <1>1, <1>4 DEF Fulfil, CreditsToGrant
  <2>2. /\ credits_granted[l] = 0 /\ purchase_status[l] # "refunded"
    BY <1>1, <1>2, <1>4 DEF AlreadyFulfilled
  <2>3. c \in Nat
    BY <1>1, <1>2, PurchaseAssumption DEF Monus
  <2>4. purchase_status' = [purchase_status EXCEPT ![l] = s]
    BY <1>1, <2>1
  <2> HIDE DEF c, s
  <2>5. CASE c > 0
    <3>1. AddPurchasedCredits(l, c)
      BY <2>1, <2>5
    <3>2. TypeOK' /\ NotYetSettled'
      BY <1>1, <1>2, <2>3, <3>1, GrantTypes
    <3>3. /\ credits_granted' = [credits_granted EXCEPT ![l] = c]
          /\ purchased_balance' = purchased_balance + c
          /\ credits_remaining' = [credits_remaining EXCEPT ![l] = c]
          /\ UNCHANGED <<credits_reversed, settled_purchased>>
      BY <3>1 DEF AddPurchasedCredits, chargeVars
    <3> QED BY <2>1, <2>2, <2>4, <2>5, <3>2, <3>3 DEF Fulfilled, c, s, l
  <2>6. CASE ~(c > 0)
    <3>1. UNCHANGED ledger /\ c = 0
      BY <2>1, <2>3, <2>6
    <3>2. TypeOK' /\ NotYetSettled'
      BY <1>2, <3>1, IdleTypes
    <3>3. /\ UNCHANGED <<credits_granted, purchased_balance, credits_remaining,
                         credits_reversed, settled_purchased>>
      BY <3>1 DEF ledger, balanceVars, lotVars, chargeVars
    <3>4. credits_granted = [credits_granted EXCEPT ![l] = c]
      BY <1>1, <1>2, <2>2, <3>1
    <3>5. purchased_balance = purchased_balance + c
      BY <1>2, <3>1 DEF TypeOK
    <3> QED BY <2>1, <2>2, <2>4, <2>6, <3>2, <3>3, <3>4, <3>5 DEF Fulfilled, c, s, l
  <2> QED BY <2>5, <2>6
<1> QED BY <1>3, <1>4

(* A refund takes v credits back and flags x, as many together as the      *)
(* larger refund adds; it takes them from the balance if they were granted. *)
Refunded(l, amount, v, x) ==
  /\ v + x = Monus(TargetReversal(amount), credits_reversed[l] + refund_shortfall_credits[l])
  /\ x > 0 => credits_granted[l] > 0
  /\ credits_reversed' = [credits_reversed EXCEPT ![l] = @ + v]
  /\ refund_shortfall_credits' = [refund_shortfall_credits EXCEPT ![l] = @ + x]
  /\ purchased_balance' = purchased_balance - (IF credits_granted[l] > 0 THEN v ELSE 0)
  /\ UNCHANGED <<credits_granted, settled_purchased>>
  /\ refunded_amount' = [refunded_amount EXCEPT ![l] = LargerRefund(@, amount)]
  /\ purchase_status' = [purchase_status EXCEPT
       ![l] = RefundStatus(refunded_amount'[l], refund_shortfall_credits'[l])]

(* The credits a refund takes are natural numbers, and no more than wanted. *)
LEMMA TakenBounds ==
  ASSUME TypeOK, NEW row \in Copies, NEW wanted \in Nat, NEW taken, NEW key,
         taken = IF Reversible(row, wanted) > 0 /\ NotPosted(key)
                 THEN Least(Reversible(row, wanted),
                            PurchasedAvailable(PurchasedReservedWithout(Stale({}))))
                 ELSE 0
  PROVE  /\ taken \in Nat /\ taken <= wanted /\ taken <= row.remaining
         /\ taken > 0 => taken <= row.remaining - row.reserved
         /\ taken <= PurchasedAvailable(PurchasedReservedWithout(Stale({})))
<1>1. PICK a : a = PurchasedAvailable(PurchasedReservedWithout(Stale({})))
  OBVIOUS
<1>2. a \in Nat
  <2>1. Stale({}) \in SUBSET Requests
    BY StaleIsLive DEF Live
  <2>2. PurchasedReservedWithout(Stale({})) \in Nat /\ purchased_balance \in Nat
    BY <2>1, ExpiryTypes DEF TypeOK
  <2> QED BY <1>1, <2>2 DEF PurchasedAvailable, Monus
<1>3. PICK n : n = Reversible(row, wanted)
  OBVIOUS
<1>4. /\ row.remaining \in Nat /\ row.reserved \in Nat
      /\ n = Least(wanted, Monus(row.remaining, row.reserved))
  BY <1>3 DEF Copies, Reversible
<1>5. /\ n \in Nat /\ n <= wanted /\ n <= row.remaining
      /\ n > 0 => n <= row.remaining - row.reserved
  BY <1>4 DEF Least, Monus
<1>6. CASE n > 0 /\ NotPosted(key)
  <2>1. taken = Least(n, a)
    BY <1>1, <1>3, <1>6
  <2> QED BY <1>1, <1>2, <1>4, <1>5, <1>6, <2>1 DEF Least
<1>7. CASE ~(n > 0 /\ NotPosted(key))
  <2>1. taken = 0
    BY <1>3, <1>7
  <2> QED BY <1>1, <1>2, <1>4, <2>1
<1> QED BY <1>6, <1>7

(* A refund whose lot was not granted yet.                                 *)
LEMMA WithholdEffect ==
  ASSUME HookInv, NEW e \in sent, Apply(e), e.kind = "refunded",
         NEW w \in Nat, Withhold(e.lot, handling.row, w, e.amount)
  PROVE  /\ TypeOK' /\ NotYetSettled' /\ purchased_balance' = purchased_balance
         /\ credits_reversed' = [credits_reversed EXCEPT ![e.lot] = @ + w]
         /\ UNCHANGED <<credits_granted, credits_remaining, refund_shortfall_credits,
                        settled_purchased>>
<1> DEFINE l == e.lot
           row == handling.row
<1>1. /\ l \in Lots /\ row \in Copies /\ row.reversed = credits_reversed[l] /\ CheckConstraints'
  BY Handles DEF Apply
<1>2. /\ TypeOK /\ NotYetSettled
      /\ credits_remaining \in [Lots -> Nat] /\ credits_reversed \in [Lots -> Nat]
      /\ purchased_balance \in Nat
  BY DEF HookInv, Typed, TypeOK
<1>3. /\ TakeBack(l, row, 0, <<"refund", l, e.amount>>)
      /\ credits_reversed' = Write(credits_reversed, l, row.reversed, row.reversed + w)
      /\ UNCHANGED <<credits_remaining, refund_shortfall_credits>>
  BY DEF Withhold
<1> HIDE DEF l, row
<1>4. credits_reversed' = [credits_reversed EXCEPT ![l] = @ + w]
  <2>1. Write(credits_reversed, l, credits_reversed[l], credits_reversed[l] + w)
          = [credits_reversed EXCEPT ![l] = @ + w]
    BY <1>1, <1>2, WriteFresh
  <2> QED BY <1>1, <1>3, <2>1
<1>5. credits_reversed' \in [Lots -> Nat] /\ credits_remaining' \in [Lots -> Nat]
  BY <1>1, <1>2, <1>3, <1>4
<1>6. TypeOK' /\ NotYetSettled'
  BY <1>1, <1>2, <1>3, <1>5, TakeBackTypes
<1>7. purchased_balance' = purchased_balance /\ UNCHANGED <<credits_granted, settled_purchased>>
  BY <1>2, <1>3 DEF TakeBack, chargeVars
<1> QED BY <1>3, <1>4, <1>6, <1>7 DEF l

(* What a refund takes from a granted lot, and the balance it leaves.      *)
Taken(row, w, key) ==
  IF Reversible(row, w) > 0 /\ NotPosted(key)
  THEN Least(Reversible(row, w), PurchasedAvailable(PurchasedReservedWithout(Stale({}))))
  ELSE 0

LEMMA ReverseEffect ==
  ASSUME HookInv, NEW e \in sent, Apply(e), e.kind = "refunded",
         NEW w \in Nat, Reverse(e.lot, handling.row, w, e.amount)
  PROVE  LET l == e.lot
             row == handling.row
             t == Taken(row, w, <<"refund", l, e.amount>>)
         IN /\ TypeOK' /\ NotYetSettled'
            /\ t \in Nat /\ w - t \in Nat
            /\ purchased_balance' = purchased_balance - t
            /\ credits_reversed' = [credits_reversed EXCEPT ![l] = @ + t]
            /\ credits_remaining' = Write(credits_remaining, l, row.remaining, row.remaining - t)
            /\ refund_shortfall_credits' = [refund_shortfall_credits EXCEPT ![l] = @ + (w - t)]
            /\ UNCHANGED <<credits_granted, settled_purchased>>
<1> DEFINE l == e.lot
           row == handling.row
           key == <<"refund", l, e.amount>>
           n == Reversible(row, w)
           t == Taken(row, w, key)
<1>1. /\ l \in Lots /\ row \in Copies /\ row.reversed = credits_reversed[l]
      /\ row.shortfall = refund_shortfall_credits[l] /\ CheckConstraints'
  BY Handles DEF Apply
<1>2. /\ TypeOK /\ NotYetSettled
      /\ credits_remaining \in [Lots -> Nat] /\ credits_reversed \in [Lots -> Nat]
      /\ refund_shortfall_credits \in [Lots -> Nat]
      /\ purchased_balance \in Nat
  BY DEF HookInv, Typed, TypeOK
<1>3. /\ IF n > 0 THEN TakeBack(l, row, t, key)
         ELSE UNCHANGED <<balanceVars, status, holdVars, chargeVars, credits_granted,
                          credits_reserved, ledgerVars, limit, aged>>
      /\ credits_remaining' = Write(credits_remaining, l, row.remaining, row.remaining - t)
      /\ credits_reversed' = Write(credits_reversed, l, row.reversed, row.reversed + t)
      /\ refund_shortfall_credits' =
           [refund_shortfall_credits EXCEPT ![l] = row.shortfall + w - t]
  BY DEF Reverse, Taken
<1>4. /\ t \in Nat /\ t <= w /\ t <= row.remaining
  BY <1>1, <1>2, TakenBounds DEF Taken
<1>w. w - t \in Nat
  <2>1. PICK u \in Nat : u = t /\ u <= w
    BY <1>4
  <2>2. w - u \in Nat
    BY <2>1
  <2> QED BY <2>1, <2>2
<1>z. n > 0 \/ t = 0
  BY DEF Taken
<1> HIDE DEF t, n, key, l, row
<1>5. credits_reversed' = [credits_reversed EXCEPT ![l] = @ + t]
  <2>1. Write(credits_reversed, l, credits_reversed[l], credits_reversed[l] + t)
          = [credits_reversed EXCEPT ![l] = @ + t]
    BY <1>1, <1>2, WriteFresh
  <2> QED BY <1>1, <1>3, <2>1
<1>6. credits_reversed' \in [Lots -> Nat]
  BY <1>1, <1>2, <1>4, <1>5
<1>7. credits_remaining' \in [Lots -> Nat]
  <2>1. row.remaining \in Nat /\ row.remaining - t \in Nat
    BY <1>1, <1>4 DEF Copies
  <2> QED BY <1>1, <1>2, <1>3, <2>1 DEF Write
<1>8. refund_shortfall_credits' = [refund_shortfall_credits EXCEPT ![l] = @ + (w - t)]
  <2>1. refund_shortfall_credits[l] \in Nat
    BY <1>1, <1>2
  <2>2. row.shortfall + w - t = refund_shortfall_credits[l] + (w - t)
    BY <1>1, <1>4, <2>1
  <2> QED BY <1>3, <2>2
<1>9. CASE n > 0
  <2>1. TakeBack(l, row, t, key)
    BY <1>3, <1>9
  <2>2. TypeOK' /\ NotYetSettled'
    BY <1>1, <1>2, <1>4, <1>6, <1>7, <2>1, TakeBackTypes
  <2>3. purchased_balance' = purchased_balance - t /\ UNCHANGED <<credits_granted, settled_purchased>>
    BY <2>1 DEF TakeBack, chargeVars
  <2> QED BY <1>3, <1>4, <1>5, <1>8, <1>w, <2>2, <2>3 DEF l, row, t, key
<1>10. CASE ~(n > 0)
  <2>1. /\ t = 0
        /\ UNCHANGED <<balanceVars, status, holdVars, chargeVars, credits_granted,
                       credits_reserved, ledgerVars, limit, aged>>
    BY <1>3, <1>10, <1>z
  <2>2. TypeOK' /\ NotYetSettled'
    BY <1>2, <1>6, <1>7, <2>1 DEF TypeOK, NotYetSettled, balanceVars, holdVars, chargeVars, ledgerVars
  <2>3. purchased_balance' = purchased_balance - t /\ UNCHANGED <<credits_granted, settled_purchased>>
    BY <1>2, <2>1 DEF balanceVars, chargeVars
  <2> QED BY <1>3, <1>4, <1>5, <1>8, <1>w, <2>2, <2>3 DEF l, row, t, key
<1> QED BY <1>9, <1>10

(* Any refund.                                                             *)
LEMMA RefundEffect ==
  ASSUME HookInv, NEW e \in sent, Apply(e), e.kind = "refunded"
  PROVE  /\ TypeOK' /\ NotYetSettled'
         /\ \E v, x \in Nat : Refunded(e.lot, e.amount, v, x)
<1> DEFINE l == e.lot
           row == handling.row
           w == IncrementalReversal(row, e.amount)
           r == LargerRefund(refunded_amount[l], e.amount)
<1>1. /\ l \in Lots /\ row \in Copies /\ RefundPurchase(l, row, e.amount)
      /\ row.granted = credits_granted[l] /\ row.reversed = credits_reversed[l]
      /\ row.refunded = refunded_amount[l] /\ row.shortfall = refund_shortfall_credits[l]
      /\ \A x : SetStatus(l, row, x) => purchase_status' = [purchase_status EXCEPT ![l] = x]
  BY Handles DEF Apply
<1>2. /\ TypeOK /\ NotYetSettled /\ l \in Lots
      /\ credits_granted \in [Lots -> Nat] /\ credits_reversed \in [Lots -> Nat]
      /\ refund_shortfall_credits \in [Lots -> Nat] /\ purchased_balance \in Nat
      /\ refunded_amount \in [Lots -> 0..Price]
  BY <1>1 DEF HookInv, Typed, TypeOK
<1>3. /\ \/ w = 0 /\ UNCHANGED <<ledger, refund_shortfall_credits>>
         \/ w > 0 /\ row.granted = 0 /\ Withhold(l, row, w, e.amount)
         \/ w > 0 /\ row.granted > 0 /\ Reverse(l, row, w, e.amount)
      /\ refunded_amount' = [refunded_amount EXCEPT ![l] = r]
      /\ SetStatus(l, row, RefundStatus(r, refund_shortfall_credits'[l]))
  BY <1>1 DEF RefundPurchase, RefundedSoFar
<1>4. w = Monus(TargetReversal(e.amount), credits_reversed[l] + refund_shortfall_credits[l])
  BY <1>1 DEF IncrementalReversal
<1>5. w \in Nat
  <2>1. e.amount \in Nat
    <3>1. e \in Events
      BY Handles DEF Apply
    <3> QED BY <3>1, PurchaseAssumption DEF Events
  <2>2. TargetReversal(e.amount) \in Nat
    BY <2>1, TargetGrows
  <2> QED BY <1>2, <1>4, <2>2 DEF Monus
<1>6. /\ refunded_amount' = [refunded_amount EXCEPT ![l] = LargerRefund(@, e.amount)]
      /\ purchase_status' = [purchase_status EXCEPT
           ![l] = RefundStatus(refunded_amount'[l], refund_shortfall_credits'[l])]
  <2>1. refunded_amount'[l] = r
    BY <1>2, <1>3
  <2>2. purchase_status' = [purchase_status EXCEPT
           ![l] = RefundStatus(r, refund_shortfall_credits'[l])]
    BY <1>1, <1>3
  <2> QED BY <1>3, <2>1, <2>2
<1> HIDE DEF w, r
<1>7. CASE w = 0 /\ UNCHANGED <<ledger, refund_shortfall_credits>>
  <2>1. TypeOK' /\ NotYetSettled'
    BY <1>2, <1>7, IdleTypes
  <2>2. UNCHANGED <<credits_granted, credits_reversed, purchased_balance, settled_purchased,
                    refund_shortfall_credits>>
    BY <1>7 DEF ledger, balanceVars, lotVars, chargeVars
  <2>3. /\ [credits_reversed EXCEPT ![l] = @ + 0] = credits_reversed
        /\ [refund_shortfall_credits EXCEPT ![l] = @ + 0] = refund_shortfall_credits
        /\ purchased_balance - (IF credits_granted[l] > 0 THEN 0 ELSE 0) = purchased_balance
    BY <1>2
  <2>4. Refunded(l, e.amount, 0, 0)
    BY <1>4, <1>6, <1>7, <2>2, <2>3 DEF Refunded
  <2> QED BY <2>1, <2>4
<1>8. CASE row.granted = 0 /\ Withhold(l, row, w, e.amount)
  <2>1. /\ TypeOK' /\ NotYetSettled' /\ purchased_balance' = purchased_balance
        /\ credits_reversed' = [credits_reversed EXCEPT ![l] = @ + w]
        /\ UNCHANGED <<credits_granted, credits_remaining, refund_shortfall_credits,
                       settled_purchased>>
    BY <1>5, <1>8, WithholdEffect
  <2>2. /\ [refund_shortfall_credits EXCEPT ![l] = @ + 0] = refund_shortfall_credits
        /\ purchased_balance - (IF credits_granted[l] > 0 THEN w ELSE 0) = purchased_balance
    BY <1>1, <1>2, <1>8
  <2>3. w + 0 = w
    BY <1>5
  <2>4. Refunded(l, e.amount, w, 0)
    BY <1>4, <1>6, <2>1, <2>2, <2>3 DEF Refunded
  <2> QED BY <1>5, <2>1, <2>4
<1>9. CASE row.granted > 0 /\ Reverse(l, row, w, e.amount)
  <2>1. PICK t : t = Taken(row, w, <<"refund", l, e.amount>>)
    OBVIOUS
  <2>2. /\ TypeOK' /\ NotYetSettled'
        /\ t \in Nat /\ w - t \in Nat
        /\ purchased_balance' = purchased_balance - t
        /\ credits_reversed' = [credits_reversed EXCEPT ![l] = @ + t]
        /\ refund_shortfall_credits' = [refund_shortfall_credits EXCEPT ![l] = @ + (w - t)]
        /\ UNCHANGED <<credits_granted, settled_purchased>>
    BY <1>5, <1>9, <2>1, ReverseEffect
  <2>3. t + (w - t) = w /\ credits_granted[l] > 0
    BY <1>1, <1>5, <1>9, <2>2
  <2>4. Refunded(l, e.amount, t, w - t)
    BY <1>4, <1>6, <2>2, <2>3 DEF Refunded
  <2> QED BY <2>2, <2>4
<1> QED BY <1>3, <1>7, <1>8, <1>9

(* What any event's handler leaves alone, and the types it keeps.          *)
LEMMA ApplyEffect ==
  ASSUME HookInv, NEW e \in sent, Apply(e)
  PROVE  /\ e.lot \in Lots /\ e.kind \in Kinds
         /\ processed' = processed \cup {e} /\ handling' = Idle
         /\ UNCHANGED <<payment, stripe_refunded, sent, overlap>>
         /\ TypeOK' /\ NotYetSettled'
         /\ \/ /\ e.kind = "completed_unpaid"
               /\ UNCHANGED <<ledger, refunded_amount, refund_shortfall_credits>>
               /\ purchase_status' = [purchase_status EXCEPT ![e.lot] =
                    IF @ \in {"creating", "pending"} THEN "pending_payment" ELSE @]
            \/ /\ e.kind = "async_payment_failed"
               /\ UNCHANGED <<ledger, refunded_amount, refund_shortfall_credits>>
               /\ purchase_status' = [purchase_status EXCEPT ![e.lot] =
                    IF credits_granted[e.lot] = 0 /\ @ # "refunded" THEN "failed" ELSE @]
            \/ e.kind = "refunded" /\ \E v, x \in Nat : Refunded(e.lot, e.amount, v, x)
            \/ /\ e.kind \in Paying /\ UNCHANGED <<refunded_amount, refund_shortfall_credits>>
               /\ \/ /\ credits_granted[e.lot] > 0 \/ purchase_status[e.lot] = "refunded"
                     /\ UNCHANGED <<ledger, rowVars>>
                  \/ /\ credits_granted[e.lot] = 0 /\ purchase_status[e.lot] # "refunded"
                     /\ Fulfilled(e.lot)
<1>1. /\ e \in Events /\ e.lot \in Lots
      /\ handling.row.status = purchase_status[e.lot]
      /\ handling.row.granted = credits_granted[e.lot]
      /\ \A s : SetStatus(e.lot, handling.row, s)
                  => purchase_status' = [purchase_status EXCEPT ![e.lot] = s]
      /\ processed' = processed \cup {e} /\ handling' = Idle /\ UNCHANGED <<stripeVars, overlap>>
      /\ e.kind = "completed_unpaid" => AwaitPayment(e.lot, handling.row)
      /\ e.kind = "async_payment_failed" => MarkFailed(e.lot, handling.row)
  BY Handles DEF Apply
<1>2. e.kind \in Kinds /\ UNCHANGED <<payment, stripe_refunded, sent, overlap>>
  BY <1>1 DEF Events, stripeVars
<1>3. TypeOK /\ NotYetSettled
  BY DEF HookInv, Typed
<1>4. CASE e.kind = "completed_unpaid"
  <2>1. /\ SetStatus(e.lot, handling.row,
                     IF purchase_status[e.lot] \in {"creating", "pending"} THEN "pending_payment"
                     ELSE purchase_status[e.lot])
        /\ UNCHANGED <<ledger, refunded_amount, refund_shortfall_credits>>
    BY <1>1, <1>4 DEF AwaitPayment
  <2>2. purchase_status' = [purchase_status EXCEPT ![e.lot] =
             IF @ \in {"creating", "pending"} THEN "pending_payment" ELSE @]
    BY <1>1, <2>1
  <2>3. TypeOK' /\ NotYetSettled'
    BY <1>3, <2>1, IdleTypes
  <2> QED BY <1>1, <1>2, <1>4, <2>1, <2>2, <2>3
<1>5. CASE e.kind = "async_payment_failed"
  <2>1. /\ SetStatus(e.lot, handling.row,
                     IF credits_granted[e.lot] = 0 /\ purchase_status[e.lot] # "refunded" THEN "failed"
                     ELSE purchase_status[e.lot])
        /\ UNCHANGED <<ledger, refunded_amount, refund_shortfall_credits>>
    BY <1>1, <1>5 DEF MarkFailed
  <2>2. purchase_status' = [purchase_status EXCEPT ![e.lot] =
             IF credits_granted[e.lot] = 0 /\ @ # "refunded" THEN "failed" ELSE @]
    BY <1>1, <2>1
  <2>3. TypeOK' /\ NotYetSettled'
    BY <1>3, <2>1, IdleTypes
  <2> QED BY <1>1, <1>2, <1>5, <2>1, <2>2, <2>3
<1>6. CASE e.kind = "refunded"
  BY <1>1, <1>2, <1>6, RefundEffect
<1>7. CASE e.kind \in Paying
  BY <1>1, <1>2, <1>7, FulfilEffect
<1> QED BY <1>2, <1>4, <1>5, <1>6, <1>7 DEF Kinds, Paying

-----------------------------------------------------------------------------
(* The invariant holds at first and is preserved, conjunct by conjunct.    *)

LEMMA InitHookInv == InitPurchases => HookInv
<1> SUFFICES ASSUME InitPurchases PROVE HookInv
  OBVIOUS
<1>1. TypeOK /\ NotYetSettled
  BY InitInv DEF InitPurchases, IInv, Books
<1>2. Price \in Nat /\ 0 \in 0..Price
  BY PurchaseAssumption
<1>3. Typed
  BY <1>1, <1>2, PurchaseAssumption DEF InitPurchases, Typed, Statuses, Payments
<1>4. EventsTell /\ CopyIsRow
  BY DEF InitPurchases, EventsTell, CopyIsRow
<1>5. RowsRight
  <2>1. ASSUME NEW l \in Lots PROVE RefundedRight(l) /\ StatusRight(l)
    <3>1. /\ credits_reversed[l] = 0 /\ credits_granted[l] = 0 /\ refunded_amount[l] = 0
          /\ refund_shortfall_credits[l] = 0 /\ stripe_refunded[l] = 0
          /\ purchase_status[l] = "none" /\ payment[l] = "none" /\ processed = {}
      BY <2>1 DEF InitPurchases, Init
    <3>2. TargetReversal(0) = 0
      BY TargetGrows
    <3> QED BY <3>1, <3>2 DEF RefundedRight, StatusRight, Done, Unsettled
  <2> QED BY <2>1 DEF RowsRight
<1> QED BY <1>3, <1>4, <1>5 DEF HookInv

(* The steps that leave the account alone.                                 *)
Checkouts == \E l \in Lots : CreateCheckout(l) \/ CheckoutReady(l) \/ CheckoutFailed(l)
Stripe ==
  \/ \E l \in Lots : Pay(l)
  \/ \E l \in Lots, n \in 1..Price : RefundCharge(l, n)
  \/ \E e \in sent : SendAgain(e)

(* A lot whose checkout was not answered has no event, and nothing done.   *)
LEMMA NewLot ==
  ASSUME HookInv, NEW l \in Lots, purchase_status[l] \in {"none", "creating"}
  PROVE  /\ payment[l] = "none" /\ refunded_amount[l] = 0
         /\ \A K : ~Done(l, K)
         /\ \A e \in sent : e.lot # l
<1>1. payment[l] = "none"
  BY DEF HookInv, RowsRight, StatusRight
<1>2. \A e \in sent : e.lot # l
  <2>1. SUFFICES ASSUME NEW e \in sent, e.lot = l PROVE FALSE
    OBVIOUS
  <2>2. e.kind \in Kinds
    BY DEF HookInv, Typed, Events
  <2>3. /\ e.kind \in Paying => payment[l] = "paid"
        /\ e.kind = "completed_unpaid" => payment[l] \in {"processing", "paid", "failed"}
        /\ e.kind = "async_payment_failed" => payment[l] = "failed"
        /\ e.kind = "refunded" => stripe_refunded[l] > 0
    <3>1. e.kind = "refunded" => e.amount \in 1..stripe_refunded[l]
      BY <2>1 DEF HookInv, EventsTell
    <3>2. stripe_refunded[l] \in Nat
      BY PurchaseAssumption DEF HookInv, Typed
    <3> QED BY <2>1, <3>1, <3>2 DEF HookInv, EventsTell
  <2>4. stripe_refunded[l] > 0 => payment[l] = "paid"
    BY DEF HookInv, EventsTell
  <2> QED BY <1>1, <2>2, <2>3, <2>4 DEF Kinds, Paying
<1>3. \A K : ~Done(l, K)
  BY <1>2 DEF HookInv, Typed, Done
<1>4. refunded_amount[l] = 0
  <2>1. refunded_amount[l] \in Nat /\ stripe_refunded[l] \in Nat
    BY PurchaseAssumption DEF HookInv, Typed
  <2>2. refunded_amount[l] > 0
          => purchase_status[l] = RefundStatus(refunded_amount[l], refund_shortfall_credits[l])
    BY DEF HookInv, RowsRight, StatusRight
  <2> QED BY <2>1, <2>2 DEF RefundStatus
<1> QED BY <1>1, <1>2, <1>3, <1>4

(* Every step keeps the types.                                             *)
LEMMA TypedNext ==
  ASSUME HookInv, [NextPurchases]_purchases
  PROVE  Typed'
<1>1. /\ Typed /\ TypeOK /\ NotYetSettled /\ Price \in Nat /\ Price >= 1
  BY PurchaseAssumption DEF HookInv, Typed
<1>2. CASE LedgerOperation
  <2>1. TypeOK' /\ NotYetSettled' /\ UNCHANGED <<rowVars, stripeVars, hookVars>>
    BY <1>1, <1>2, OperationTypes DEF LedgerOperation, AccountOperation
  <2> QED BY <1>1, <2>1 DEF Typed, rowVars, stripeVars, hookVars
<1>3. CASE Checkouts
  <2>1. /\ UNCHANGED <<ledger, refunded_amount, refund_shortfall_credits, stripe_refunded,
                       sent, hookVars>>
        /\ purchase_status' \in [Lots -> Statuses] /\ payment' \in [Lots -> Payments]
    BY <1>1, <1>3 DEF Checkouts, CreateCheckout, CheckoutReady, CheckoutFailed, Typed,
                      stripeVars, Statuses, Payments
  <2>2. TypeOK' /\ NotYetSettled'
    BY <1>1, <2>1, IdleTypes
  <2> QED BY <1>1, <2>1, <2>2 DEF Typed, hookVars
<1>4. CASE Stripe
  <2>1. UNCHANGED <<ledger, rowVars, hookVars>>
    BY <1>4 DEF Stripe, Pay, StripeMoves, RefundCharge, SendAgain
  <2>2. TypeOK' /\ NotYetSettled'
    BY <1>1, <2>1, IdleTypes
  <2>3. /\ payment' \in [Lots -> Payments] /\ stripe_refunded' \in [Lots -> 0..Price]
        /\ sent' \subseteq Events /\ sent \subseteq sent'
    <3>0. \A l \in Lots, kind \in Kinds, n \in 0..Price : Event(kind, l, n) \in Events
      BY DEF Event, Events
    <3>1. CASE \E l \in Lots : Pay(l)
      <4>1. PICK l \in Lots, from, to \in Payments, kind \in Kinds : StripeMoves(l, from, to, kind)
        BY <3>1 DEF Pay, Payments, Kinds
      <4>2. Event(kind, l, 0) \in Events
        BY <1>1, <3>0
      <4> QED BY <1>1, <4>1, <4>2 DEF StripeMoves, Typed
    <3>2. CASE \E l \in Lots, n \in 1..Price : RefundCharge(l, n)
      <4>1. PICK l \in Lots, n \in 1..Price : RefundCharge(l, n)
        BY <3>2
      <4>2. n \in 0..Price /\ "refunded" \in Kinds
        BY <1>1 DEF Kinds
      <4>3. Event("refunded", l, n) \in Events
        BY <3>0, <4>2
      <4> QED BY <1>1, <4>1, <4>2, <4>3 DEF RefundCharge, Typed
    <3>3. CASE \E e \in sent : SendAgain(e)
      BY <1>1, <3>3 DEF SendAgain, Typed, Events
    <3> QED BY <1>4, <3>1, <3>2, <3>3 DEF Stripe
  <2> QED BY <1>1, <2>1, <2>2, <2>3 DEF Typed, rowVars, hookVars
<1>5. CASE \E e \in sent : Deliver(e)
  <2>1. PICK e \in sent : Deliver(e)
    BY <1>5
  <2>2. /\ UNCHANGED <<ledger, rowVars, stripeVars, processed, overlap>>
        /\ handling' = [event |-> e, row |-> ReadRow(e.lot)]
    BY <2>1 DEF Deliver
  <2>3. TypeOK' /\ NotYetSettled'
    BY <1>1, <2>2, IdleTypes
  <2>4. ReadRow(e.lot) \in Copies
    <3>1. e.lot \in Lots
      BY <1>1 DEF Typed, Events
    <3> QED BY <1>1, <3>1 DEF ReadRow, Copies, Typed, TypeOK
  <2> QED BY <1>1, <2>2, <2>3, <2>4 DEF Typed, rowVars, stripeVars
<1>6. CASE Abort
  <2>1. UNCHANGED <<ledger, rowVars, stripeVars, processed, overlap>> /\ handling' = Idle
    BY <1>6 DEF Abort
  <2>2. TypeOK' /\ NotYetSettled'
    BY <1>1, <2>1, IdleTypes
  <2> QED BY <1>1, <2>1, <2>2 DEF Typed, rowVars, stripeVars
<1>7. CASE UNCHANGED purchases
  <2>1. TypeOK' /\ NotYetSettled'
    BY <1>1, <1>7, IdleTypes DEF purchases
  <2> QED BY <1>1, <1>7, <2>1 DEF Typed, purchases, rowVars, stripeVars, hookVars
<1>8. CASE \E e \in sent : Apply(e)
  <2>1. PICK e \in sent : Apply(e)
    BY <1>8
  <2>2. /\ e.lot \in Lots
        /\ processed' = processed \cup {e} /\ handling' = Idle
        /\ UNCHANGED <<payment, stripe_refunded, sent, overlap>>
        /\ TypeOK' /\ NotYetSettled'
    BY <2>1, ApplyEffect
  <2>3. /\ purchase_status' \in [Lots -> Statuses] /\ refunded_amount' \in [Lots -> 0..Price]
        /\ refund_shortfall_credits' \in [Lots -> Nat]
    <3>1. CASE e.kind \in {"completed_unpaid", "async_payment_failed"}
      BY <1>1, <2>1, <3>1, ApplyEffect DEF Typed, Statuses, Paying
    <3>2. CASE e.kind = "refunded"
      <4>1. PICK v, x \in Nat : Refunded(e.lot, e.amount, v, x)
        BY <2>1, <3>2, ApplyEffect DEF Paying
      <4>2. LargerRefund(refunded_amount[e.lot], e.amount) \in 0..Price
        <5>1. e.amount \in 0..Price /\ refunded_amount[e.lot] \in 0..Price
          BY <1>1, <2>2 DEF Typed, Events
        <5> QED BY <5>1 DEF LargerRefund
      <4>3. /\ refunded_amount' \in [Lots -> 0..Price]
            /\ refund_shortfall_credits' \in [Lots -> Nat]
        BY <1>1, <2>2, <4>1, <4>2 DEF Typed, Refunded
      <4>4. \A a, b : RefundStatus(a, b) \in Statuses
        BY DEF RefundStatus, Statuses
      <4> QED BY <1>1, <4>1, <4>3, <4>4 DEF Typed, Refunded
    <3>3. CASE e.kind \in Paying
      BY <1>1, <2>1, <3>3, ApplyEffect DEF Typed, Statuses, Paying, Fulfilled, rowVars
    <3> QED BY <2>1, <3>1, <3>2, <3>3, ApplyEffect DEF Kinds, Paying
  <2> QED BY <1>1, <2>2, <2>3 DEF Typed
<1> QED BY <1>2, <1>3, <1>4, <1>5, <1>6, <1>7, <1>8 DEF NextPurchases, Checkouts, Stripe

(* Stripe's events keep telling the payments.                              *)
LEMMA EventsTellNext ==
  ASSUME HookInv, [NextPurchases]_purchases
  PROVE  EventsTell'
<1>1. /\ EventsTell /\ sent \subseteq Events
      /\ payment \in [Lots -> Payments] /\ stripe_refunded \in [Lots -> 0..Price]
      /\ Price \in Nat
  BY PurchaseAssumption DEF HookInv, Typed
<1>2. CASE UNCHANGED <<payment, stripe_refunded, sent>>
  BY <1>1, <1>2 DEF EventsTell, Sent
<1>3. CASE Checkouts
  <2>1. PICK l \in Lots : CreateCheckout(l) \/ CheckoutReady(l) \/ CheckoutFailed(l)
    BY <1>3 DEF Checkouts
  <2>2. CASE CheckoutReady(l)
    <3>1. /\ payment[l] = "none" /\ \A e \in sent : e.lot # l
      BY <2>2, NewLot DEF CheckoutReady
    <3>2. /\ payment' = [payment EXCEPT ![l] = "open"] /\ UNCHANGED <<stripe_refunded, sent>>
      BY <2>2 DEF CheckoutReady
    <3> QED BY <1>1, <3>1, <3>2 DEF EventsTell, Sent, Events
  <2> QED BY <1>2, <2>1, <2>2 DEF CreateCheckout, CheckoutFailed, stripeVars
<1>4. ASSUME NEW l \in Lots, Pay(l)
      PROVE  EventsTell'
  <2>1. PICK from, to \in Payments, kind \in Kinds :
          /\ StripeMoves(l, from, to, kind)
          /\ \/ from = "open" /\ to = "paid" /\ kind = "completed_paid"
             \/ from = "open" /\ to = "processing" /\ kind = "completed_unpaid"
             \/ from = "processing" /\ to = "paid" /\ kind = "async_payment_succeeded"
             \/ from = "processing" /\ to = "failed" /\ kind = "async_payment_failed"
    BY <1>4 DEF Pay, Payments, Kinds
  <2>2. /\ payment[l] = from /\ payment' = [payment EXCEPT ![l] = to]
        /\ sent' = sent \cup {Event(kind, l, 0)} /\ UNCHANGED stripe_refunded
    BY <2>1 DEF StripeMoves
  <2>3. stripe_refunded[l] = 0
    BY <1>1, <2>1, <2>2 DEF EventsTell
  <2>4. ASSUME NEW e \in sent'
        PROVE  /\ e.kind \in Paying => payment'[e.lot] = "paid"
               /\ e.kind = "completed_unpaid" => payment'[e.lot] \in {"processing", "paid", "failed"}
               /\ e.kind = "async_payment_failed" => payment'[e.lot] = "failed"
               /\ e.kind = "refunded" => e.amount \in 1..stripe_refunded'[e.lot]
    <3>1. CASE e = Event(kind, l, 0)
      BY <1>1, <2>1, <2>2, <3>1 DEF Event, Paying, Kinds
    <3>2. CASE e \in sent /\ e.lot # l
      BY <1>1, <2>2, <3>2 DEF EventsTell, Events
    <3>3. CASE e \in sent /\ e.lot = l
      <4>1. e.kind = "completed_unpaid" /\ from = "processing"
        <5>1. e.kind \in Kinds
          BY <1>1, <3>3 DEF Events
        <5> QED BY <1>1, <2>1, <2>2, <2>3, <3>3, <5>1 DEF EventsTell, Kinds, Paying
      <4> QED BY <1>1, <2>1, <2>2, <3>3, <4>1 DEF Paying
    <3> QED BY <2>2, <2>4, <3>1, <3>2, <3>3
  <2>5. ASSUME NEW k \in Lots
        PROVE  /\ payment'[k] = "paid" => Sent(k, Paying)'
               /\ payment'[k] = "failed" => Sent(k, {"async_payment_failed"})'
               /\ payment'[k] = "processing" => Sent(k, {"completed_unpaid"})'
    <3>1. CASE k = l
      <4>1. /\ Event(kind, l, 0) \in sent'
            /\ Event(kind, l, 0).lot = l /\ Event(kind, l, 0).kind = kind
        BY <2>2 DEF Event
      <4>2. \A K : kind \in K => Sent(l, K)'
        BY <4>1 DEF Sent
      <4>3. /\ to = "paid" => Sent(l, Paying)'
            /\ to = "failed" => Sent(l, {"async_payment_failed"})'
            /\ to = "processing" => Sent(l, {"completed_unpaid"})'
        BY <2>1, <4>2 DEF Paying
      <4> QED BY <1>1, <2>2, <3>1, <4>3
    <3>2. CASE k # l
      <4>1. payment'[k] = payment[k] /\ \A K : Sent(k, K) => Sent(k, K)'
        BY <1>1, <2>2, <3>2 DEF Sent
      <4> QED BY <1>1, <4>1 DEF EventsTell
    <3> QED BY <3>1, <3>2
  <2>6. ASSUME NEW k \in Lots, stripe_refunded'[k] > 0
        PROVE  /\ payment'[k] = "paid"
               /\ \E e \in sent' : e.lot = k /\ e.kind = "refunded" /\ e.amount = stripe_refunded'[k]
    <3>1. k # l
      BY <2>2, <2>3, <2>6
    <3> QED BY <1>1, <2>2, <2>6, <3>1 DEF EventsTell
  <2> QED BY <2>4, <2>5, <2>6 DEF EventsTell
<1>5. ASSUME NEW l \in Lots, NEW n \in 1..Price, RefundCharge(l, n)
      PROVE  EventsTell'
  <2>1. /\ payment[l] = "paid" /\ n > stripe_refunded[l]
        /\ stripe_refunded' = [stripe_refunded EXCEPT ![l] = n]
        /\ sent' = sent \cup {Event("refunded", l, n)} /\ UNCHANGED payment
    BY <1>5 DEF RefundCharge
  <2>2. \A k \in Lots : stripe_refunded[k] \in Nat /\ stripe_refunded'[k] \in Nat
                        /\ stripe_refunded[k] <= stripe_refunded'[k]
    BY <1>1, <2>1
  <2>3. ASSUME NEW e \in sent'
        PROVE  /\ e.kind \in Paying => payment'[e.lot] = "paid"
               /\ e.kind = "completed_unpaid" => payment'[e.lot] \in {"processing", "paid", "failed"}
               /\ e.kind = "async_payment_failed" => payment'[e.lot] = "failed"
               /\ e.kind = "refunded" => e.amount \in 1..stripe_refunded'[e.lot]
    <3>1. CASE e = Event("refunded", l, n)
      BY <1>1, <2>1, <3>1 DEF Event, Paying
    <3>2. CASE e \in sent
      <4>1. e.lot \in Lots
        BY <1>1, <3>2 DEF Events
      <4>2. e.kind = "refunded" => e.amount \in 1..stripe_refunded'[e.lot]
        BY <1>1, <2>2, <3>2, <4>1 DEF EventsTell
      <4> QED BY <1>1, <2>1, <3>2, <4>2 DEF EventsTell
    <3> QED BY <2>1, <2>3, <3>1, <3>2
  <2>4. \A K : \A k \in Lots : Sent(k, K) => Sent(k, K)'
    BY <2>1 DEF Sent
  <2>5. ASSUME NEW k \in Lots, stripe_refunded'[k] > 0
        PROVE  /\ payment'[k] = "paid"
               /\ \E e \in sent' : e.lot = k /\ e.kind = "refunded" /\ e.amount = stripe_refunded'[k]
    <3>1. CASE k = l
      <4>1. /\ Event("refunded", l, n) \in sent' /\ Event("refunded", l, n).lot = l
            /\ Event("refunded", l, n).kind = "refunded" /\ Event("refunded", l, n).amount = n
        BY <2>1 DEF Event
      <4>2. stripe_refunded'[l] = n /\ payment'[l] = "paid"
        BY <1>1, <2>1
      <4> QED BY <3>1, <4>1, <4>2
    <3>2. CASE k # l
      BY <1>1, <2>1, <2>5, <3>2 DEF EventsTell
    <3> QED BY <3>1, <3>2
  <2> QED BY <1>1, <2>1, <2>3, <2>4, <2>5 DEF EventsTell
<1>6. ASSUME NEW d \in sent, SendAgain(d)
      PROVE  EventsTell'
  <2>1. sent' = sent \cup {[d EXCEPT !.again = TRUE]} /\ UNCHANGED <<payment, stripe_refunded>>
    BY <1>6 DEF SendAgain
  <2>2. \A e \in sent' : \E o \in sent : e.kind = o.kind /\ e.lot = o.lot /\ e.amount = o.amount
    BY <1>1, <2>1 DEF Events
  <2>3. ASSUME NEW e \in sent'
        PROVE  /\ e.kind \in Paying => payment'[e.lot] = "paid"
               /\ e.kind = "completed_unpaid" => payment'[e.lot] \in {"processing", "paid", "failed"}
               /\ e.kind = "async_payment_failed" => payment'[e.lot] = "failed"
               /\ e.kind = "refunded" => e.amount \in 1..stripe_refunded'[e.lot]
    BY <1>1, <2>1, <2>2, <2>3 DEF EventsTell
  <2>4. \A K : \A k \in Lots : Sent(k, K) => Sent(k, K)'
    BY <2>1 DEF Sent
  <2> QED BY <1>1, <2>1, <2>3, <2>4 DEF EventsTell
<1>7. CASE Stripe
  BY <1>4, <1>5, <1>6, <1>7 DEF Stripe
<1>8. CASE LedgerOperation \/ Abort \/ UNCHANGED purchases \/ \E e \in sent : Deliver(e) \/ Apply(e)
  BY <1>2, <1>8 DEF LedgerOperation, AccountOperation, Abort, purchases, Deliver, Apply, Handle, stripeVars
<1> QED BY <1>3, <1>7, <1>8 DEF NextPurchases, Checkouts, Stripe

(* The copy stays the row.                                                 *)
LEMMA CopyNext ==
  ASSUME HookInv, [NextPurchases]_purchases
  PROVE  CopyIsRow'
<1>1. /\ CopyIsRow /\ TypeOK /\ NotYetSettled /\ sent \subseteq Events /\ overlap \in BOOLEAN
      /\ purchase_status \in [Lots -> Statuses]
      /\ handling # Idle => handling.event \in sent /\ handling.event.lot \in Lots
  BY DEF HookInv, Typed, Events
<1>2. CASE LedgerOperation
  <2>1. /\ UNCHANGED <<purchase_status, refunded_amount, refund_shortfall_credits, handling, overlap>>
        /\ overlap \/ handling = Idle
    BY <1>2 DEF LedgerOperation, AccountOperation, rowVars, hookVars
  <2>2. UNCHANGED <<credits_granted, credits_reversed>>
    BY <1>1, <1>2, OperationTypes DEF Conserved
  <2> QED BY <1>1, <2>1, <2>2 DEF CopyIsRow
<1>3. CASE Checkouts
  <2>1. PICK l \in Lots : CreateCheckout(l) \/ CheckoutReady(l) \/ CheckoutFailed(l)
    BY <1>3 DEF Checkouts
  <2>2. /\ purchase_status[l] \in {"none", "creating"}
        /\ UNCHANGED <<ledger, refunded_amount, refund_shortfall_credits, handling, overlap>>
        /\ \A k \in Lots \ {l} : purchase_status'[k] = purchase_status[k]
    BY <1>1, <2>1 DEF CreateCheckout, CheckoutReady, CheckoutFailed, hookVars
  <2>3. handling # Idle => handling.event.lot # l
    BY <1>1, <2>2, NewLot
  <2> QED BY <1>1, <2>2, <2>3 DEF CopyIsRow, ledger, lotVars
<1>4. CASE Stripe \/ UNCHANGED purchases
  <2>1. UNCHANGED <<ledger, rowVars, hookVars>>
    BY <1>4 DEF Stripe, Pay, StripeMoves, RefundCharge, SendAgain, purchases
  <2> QED BY <1>1, <2>1 DEF CopyIsRow, ledger, lotVars, rowVars, hookVars
<1>5. CASE \E e \in sent : Deliver(e)
  <2>1. PICK e \in sent : Deliver(e)
    BY <1>5
  <2>2. /\ UNCHANGED <<ledger, rowVars, overlap>>
        /\ handling' = [event |-> e, row |-> ReadRow(e.lot)]
    BY <2>1 DEF Deliver
  <2> QED BY <2>2 DEF CopyIsRow, ReadRow, ledger, lotVars, rowVars
<1>6. CASE Abort \/ \E e \in sent : Apply(e)
  <2>1. handling' = Idle
    BY <1>6 DEF Abort, Apply, Handle
  <2> QED BY <2>1 DEF CopyIsRow
<1> QED BY <1>2, <1>3, <1>4, <1>5, <1>6 DEF NextPurchases, Checkouts, Stripe

(* A step that leaves a lot's columns, payment and processed events alone   *)
(* keeps what they say right.                                              *)
LEMMA RowKept ==
  ASSUME HookInv, NEW l \in Lots,
         credits_reversed'[l] = credits_reversed[l], credits_granted'[l] = credits_granted[l],
         refund_shortfall_credits'[l] = refund_shortfall_credits[l],
         refunded_amount'[l] = refunded_amount[l], purchase_status'[l] = purchase_status[l],
         stripe_refunded'[l] \in Nat, stripe_refunded[l] <= stripe_refunded'[l],
         (payment'[l] = "none") <=> (payment[l] = "none"),
         \A e \in Events : e.lot = l => (e \in processed' <=> e \in processed),
         processed' \subseteq Events
  PROVE  (RefundedRight(l) /\ StatusRight(l))'
<1>1. /\ RefundedRight(l) /\ StatusRight(l) /\ processed \subseteq Events
      /\ refunded_amount[l] \in Nat /\ stripe_refunded[l] \in Nat
  BY PurchaseAssumption DEF HookInv, RowsRight, Typed
<1>2. \A K : Done(l, K)' <=> Done(l, K)
  BY <1>1 DEF Done
<1>3. TargetReversal(refunded_amount[l])' = TargetReversal(refunded_amount[l])
  BY DEF TargetReversal
<1>4. RefundedRight(l)'
  <2>1. refunded_amount'[l] <= stripe_refunded'[l]
    BY <1>1 DEF RefundedRight
  <2>2. \A e \in processed' : e.lot = l /\ e.kind = "refunded" => e.amount <= refunded_amount'[l]
    BY <1>1 DEF RefundedRight
  <2> QED BY <1>1, <1>2, <1>3, <2>1, <2>2 DEF RefundedRight
<1>5. StatusRight(l)'
  <2>1. RefundStatus(refunded_amount[l], refund_shortfall_credits[l])'
          = RefundStatus(refunded_amount[l], refund_shortfall_credits[l])
    BY DEF RefundStatus
  <2> QED BY <1>1, <1>2, <2>1 DEF StatusRight
<1> QED BY <1>4, <1>5

(* What the events of a lot say when one of them is handled.               *)
LEMMA HandledLot ==
  ASSUME HookInv, NEW e \in sent, NEW l, l = e.lot, processed' = processed \cup {e},
         UNCHANGED <<payment, stripe_refunded>>
  PROVE  /\ l \in Lots /\ e \in Events
         /\ RefundedRight(l) /\ StatusRight(l)
         /\ payment[l] # "none" /\ purchase_status[l] \notin {"none", "creating"}
         /\ \A K : Done(l, K)' <=> Done(l, K) \/ e.kind \in K
         /\ credits_granted[l] \in Nat /\ credits_reversed[l] \in Nat
         /\ refund_shortfall_credits[l] \in Nat /\ refunded_amount[l] \in Nat
         /\ stripe_refunded[l] \in Nat
         /\ \A d \in processed : d.kind \in Paying => payment[d.lot] = "paid"
<1>1. l \in Lots /\ e \in Events
  BY DEF HookInv, Typed, Events
<1>2. purchase_status[l] \notin {"none", "creating"}
  BY <1>1, NewLot
<1>3. payment[l] # "none"
  <2>1. e.kind \in Kinds
    BY <1>1 DEF Events
  <2>2. e.kind = "refunded" => stripe_refunded[l] > 0
    <3>1. e.kind = "refunded" => e.amount \in 1..stripe_refunded[l]
      BY DEF HookInv, EventsTell
    <3>2. stripe_refunded[l] \in Nat
      BY <1>1, PurchaseAssumption DEF HookInv, Typed
    <3> QED BY <3>1, <3>2
  <2> QED BY <1>1, <2>1, <2>2 DEF Kinds, Paying, HookInv, EventsTell
<1>4. \A K : Done(l, K)' <=> Done(l, K) \/ e.kind \in K
  BY DEF Done
<1>5. /\ credits_granted[l] \in Nat /\ credits_reversed[l] \in Nat
      /\ refund_shortfall_credits[l] \in Nat /\ refunded_amount[l] \in Nat
      /\ stripe_refunded[l] \in Nat
  BY <1>1, PurchaseAssumption DEF HookInv, Typed, TypeOK
<1>6. \A d \in processed : d.kind \in Paying => payment[d.lot] = "paid"
  BY DEF HookInv, Typed, EventsTell
<1> QED BY <1>1, <1>2, <1>3, <1>4, <1>5, <1>6 DEF HookInv, RowsRight

(* A checkout that is not paid yet, handled.                               *)
LEMMA AwaitedRow ==
  ASSUME HookInv, NEW e \in sent, Apply(e), e.kind = "completed_unpaid"
  PROVE  (RefundedRight(e.lot) /\ StatusRight(e.lot))'
<1> DEFINE l == e.lot
<1>1. /\ processed' = processed \cup {e} /\ UNCHANGED <<payment, stripe_refunded>>
      /\ UNCHANGED <<ledger, refunded_amount, refund_shortfall_credits>>
      /\ purchase_status' = [purchase_status EXCEPT ![l] =
           IF @ \in {"creating", "pending"} THEN "pending_payment" ELSE @]
  BY ApplyEffect DEF Paying
<1>2. /\ l \in Lots /\ RefundedRight(l) /\ StatusRight(l)
      /\ payment[l] # "none" /\ purchase_status[l] \notin {"none", "creating"}
      /\ \A K : Done(l, K)' <=> Done(l, K) \/ e.kind \in K
  BY <1>1, HandledLot
<1>3. UNCHANGED <<credits_granted, credits_reversed>>
  BY <1>1 DEF ledger, lotVars
<1>4. /\ Done(l, Paying)' <=> Done(l, Paying)
      /\ Done(l, {"async_payment_failed"})' <=> Done(l, {"async_payment_failed"})
      /\ Done(l, {"completed_unpaid"})'
  BY <1>2 DEF Paying
<1>5. purchase_status'[l] =
        IF purchase_status[l] = "pending" THEN "pending_payment" ELSE purchase_status[l]
  BY <1>1, <1>2 DEF HookInv, Typed
<1> HIDE DEF l
<1>6. RefundedRight(l)'
  BY <1>1, <1>2, <1>3, <1>4 DEF RefundedRight, TargetReversal
<1>7. StatusRight(l)'
  BY <1>1, <1>2, <1>4, <1>5 DEF StatusRight, RefundStatus, Unsettled
<1> QED BY <1>6, <1>7 DEF l

(* A payment that failed, handled.                                         *)
LEMMA FailedRow ==
  ASSUME HookInv, NEW e \in sent, Apply(e), e.kind = "async_payment_failed"
  PROVE  (RefundedRight(e.lot) /\ StatusRight(e.lot))'
<1> DEFINE l == e.lot
<1>1. /\ processed' = processed \cup {e} /\ UNCHANGED <<payment, stripe_refunded>>
      /\ UNCHANGED <<ledger, refunded_amount, refund_shortfall_credits>>
      /\ purchase_status' = [purchase_status EXCEPT ![l] =
           IF credits_granted[l] = 0 /\ @ # "refunded" THEN "failed" ELSE @]
  BY ApplyEffect DEF Paying
<1>2. /\ l \in Lots /\ RefundedRight(l) /\ StatusRight(l)
      /\ \A K : Done(l, K)' <=> Done(l, K) \/ e.kind \in K
      /\ credits_granted[l] \in Nat /\ refunded_amount[l] \in Nat /\ stripe_refunded[l] \in Nat
      /\ \A d \in processed : d.kind \in Paying => payment[d.lot] = "paid"
  BY <1>1, HandledLot
<1>3. UNCHANGED <<credits_granted, credits_reversed>>
  BY <1>1 DEF ledger, lotVars
<1>4. payment[l] = "failed"
  BY DEF HookInv, EventsTell
<1>5. stripe_refunded[l] = 0 /\ refunded_amount[l] = 0
  <2>1. ~(stripe_refunded[l] > 0)
    BY <1>2, <1>4 DEF HookInv, EventsTell
  <2> QED BY <1>2, <2>1 DEF RefundedRight
<1>6. ~Done(l, Paying) /\ credits_granted[l] = 0
  <2>1. ~Done(l, Paying)
    BY <1>2, <1>4 DEF Done
  <2> QED BY <1>2, <2>1 DEF RefundedRight
<1>7. /\ ~Done(l, Paying)' /\ Done(l, {"async_payment_failed"})'
  BY <1>2, <1>6 DEF Paying
<1>8. purchase_status[l] # "refunded"
  BY <1>2, <1>5, <1>6 DEF StatusRight, Unsettled
<1>9. purchase_status'[l] = "failed"
  BY <1>1, <1>2, <1>6, <1>8 DEF HookInv, Typed
<1> HIDE DEF l
<1>10. RefundedRight(l)'
  BY <1>1, <1>2, <1>3, <1>6 DEF RefundedRight, TargetReversal
<1>11. StatusRight(l)'
  BY <1>1, <1>5, <1>7, <1>9 DEF StatusRight
<1> QED BY <1>10, <1>11 DEF l

(* A refund, handled: the columns are those of the larger refund.          *)
LEMMA RefundedRow ==
  ASSUME HookInv, NEW e \in sent, Apply(e), e.kind = "refunded"
  PROVE  (RefundedRight(e.lot) /\ StatusRight(e.lot))'
<1> DEFINE l == e.lot
           a == e.amount
           r == LargerRefund(refunded_amount[l], a)
<1>1. /\ processed' = processed \cup {e} /\ UNCHANGED <<payment, stripe_refunded>>
      /\ \E v, x \in Nat : Refunded(l, a, v, x)
  BY ApplyEffect DEF Paying
<1>2. PICK v, x \in Nat : Refunded(l, a, v, x)
  BY <1>1
<1>3. /\ l \in Lots /\ RefundedRight(l) /\ StatusRight(l)
      /\ payment[l] # "none" /\ purchase_status[l] \notin {"none", "creating"}
      /\ \A K : Done(l, K)' <=> Done(l, K) \/ e.kind \in K
      /\ credits_granted[l] \in Nat /\ credits_reversed[l] \in Nat
      /\ refund_shortfall_credits[l] \in Nat /\ refunded_amount[l] \in Nat
      /\ stripe_refunded[l] \in Nat
  BY <1>1, HandledLot
<1>4. a \in Nat /\ a > 0 /\ a <= stripe_refunded[l]
  <2>1. a \in 1..stripe_refunded[l]
    BY DEF HookInv, EventsTell
  <2> QED BY <1>3, <2>1
<1>5. /\ credits_granted \in [Lots -> Nat] /\ credits_reversed \in [Lots -> Nat]
      /\ refund_shortfall_credits \in [Lots -> Nat] /\ refunded_amount \in [Lots -> 0..Price]
      /\ purchase_status \in [Lots -> Statuses]
  BY DEF HookInv, Typed, TypeOK
<1>6. /\ r \in Nat /\ r > 0 /\ r <= stripe_refunded[l] /\ a <= r /\ refunded_amount[l] <= r
      /\ r = a \/ r = refunded_amount[l]
  BY <1>3, <1>4 DEF LargerRefund, RefundedRight
<1>7. /\ refunded_amount'[l] = r
      /\ credits_reversed'[l] = credits_reversed[l] + v
      /\ refund_shortfall_credits'[l] = refund_shortfall_credits[l] + x
      /\ credits_granted'[l] = credits_granted[l]
  BY <1>2, <1>3, <1>5 DEF Refunded
<1>8. purchase_status'[l] = RefundStatus(r, refund_shortfall_credits'[l])
  BY <1>2, <1>3, <1>5, <1>7 DEF Refunded
<1>9. credits_reversed'[l] + refund_shortfall_credits'[l] = TargetReversal(r)
  <2>1. PICK S \in Nat : S = credits_reversed[l] + refund_shortfall_credits[l]
    BY <1>3
  <2>2. S = TargetReversal(refunded_amount[l]) /\ v + x = Monus(TargetReversal(a), S)
    BY <1>2, <1>3, <2>1 DEF RefundedRight, Refunded
  <2>3. /\ TargetReversal(a) \in Nat /\ TargetReversal(r) \in Nat
        /\ TargetReversal(a) <= TargetReversal(r) /\ S <= TargetReversal(r)
        /\ TargetReversal(r) = TargetReversal(a) \/ TargetReversal(r) = S
    BY <1>3, <1>4, <1>6, <2>2, TargetGrows
  <2>4. S + (v + x) = TargetReversal(r)
    BY <2>2, <2>3 DEF Monus
  <2> QED BY <1>3, <1>7, <2>1, <2>4
<1> HIDE DEF r, l, a
<1>10. RefundedRight(l)'
  <2>1. TargetReversal(refunded_amount'[l]) = TargetReversal(refunded_amount[l])'
    BY DEF TargetReversal
  <2>2. \A d \in processed' : d.lot = l /\ d.kind = "refunded" => d.amount <= refunded_amount'[l]
    <3>1. processed \subseteq Events
      BY DEF HookInv, Typed
    <3>2. ASSUME NEW d \in processed, d.lot = l, d.kind = "refunded"
          PROVE  d.amount <= r
      <4>1. d.amount \in Nat /\ d.amount <= refunded_amount[l]
        BY <1>3, <3>1, <3>2, PurchaseAssumption DEF RefundedRight, Events
      <4> QED BY <1>3, <1>6, <4>1
    <3> QED BY <1>1, <1>6, <1>7, <3>2 DEF a
  <2>3. refund_shortfall_credits'[l] > 0 => credits_granted'[l] > 0
    BY <1>2, <1>3, <1>7 DEF RefundedRight, Refunded
  <2>4. credits_granted'[l] > 0 => Done(l, Paying)'
    BY <1>3, <1>7 DEF RefundedRight
  <2> QED BY <1>1, <1>6, <1>7, <1>9, <2>1, <2>2, <2>3, <2>4 DEF RefundedRight
<1>11. StatusRight(l)'
  <2>1. RefundStatus(refunded_amount'[l], refund_shortfall_credits'[l])
          = RefundStatus(refunded_amount[l], refund_shortfall_credits[l])'
    BY DEF RefundStatus
  <2>2. purchase_status'[l] \notin {"none", "creating"}
    BY <1>8 DEF RefundStatus
  <2> QED BY <1>6, <1>7, <1>8, <2>1, <2>2 DEF StatusRight
<1> QED BY <1>10, <1>11 DEF l

(* A confirmed payment, handled.                                           *)
LEMMA FulfilledRow ==
  ASSUME HookInv, NEW e \in sent, Apply(e), e.kind \in Paying
  PROVE  (RefundedRight(e.lot) /\ StatusRight(e.lot))'
<1> DEFINE l == e.lot
<1>1. /\ processed' = processed \cup {e} /\ UNCHANGED <<payment, stripe_refunded>>
      /\ UNCHANGED <<refunded_amount, refund_shortfall_credits>>
  BY ApplyEffect DEF Paying
<1>2. /\ l \in Lots /\ RefundedRight(l) /\ StatusRight(l)
      /\ payment[l] # "none" /\ purchase_status[l] \notin {"none", "creating"}
      /\ \A K : Done(l, K)' <=> Done(l, K) \/ e.kind \in K
      /\ credits_granted[l] \in Nat /\ refund_shortfall_credits[l] \in Nat
      /\ refunded_amount[l] \in Nat
  BY <1>1, HandledLot
<1>3. Done(l, Paying)' /\ e.kind # "refunded"
  BY <1>2 DEF Paying
<1>4. /\ credits_granted \in [Lots -> Nat] /\ purchase_status \in [Lots -> Statuses]
  BY DEF HookInv, Typed, TypeOK
<1>5. UNCHANGED credits_reversed
  BY FulfilEffect DEF Fulfilled, ledger, lotVars
<1> HIDE DEF l
<1>6. RefundedRight(l)'
  <2>1. refund_shortfall_credits[l] > 0 => credits_granted'[l] > 0
    <3>1. refund_shortfall_credits[l] > 0 => credits_granted[l] > 0
      BY <1>2 DEF RefundedRight
    <3>2. credits_granted[l] > 0 => UNCHANGED credits_granted
      BY <1>2, FulfilEffect DEF ledger, lotVars, l
    <3> QED BY <3>1, <3>2
  <2> QED BY <1>1, <1>2, <1>3, <1>5, <2>1 DEF RefundedRight, TargetReversal
<1>7. StatusRight(l)'
  <2>1. CASE UNCHANGED rowVars /\ (credits_granted[l] > 0 \/ purchase_status[l] = "refunded")
    <3>1. refunded_amount[l] = 0 => purchase_status[l] = "paid"
      BY <1>2, <2>1 DEF StatusRight, RefundedRight, Unsettled
    <3> QED BY <1>1, <1>2, <1>3, <2>1, <3>1 DEF StatusRight, RefundStatus, rowVars
  <2>2. CASE credits_granted[l] = 0 /\ purchase_status[l] # "refunded" /\ Fulfilled(l)
    <3>1. purchase_status'[l] = IF refunded_amount[l] > 0 THEN "partially_refunded" ELSE "paid"
      BY <1>2, <1>4, <2>2 DEF Fulfilled
    <3>2. refund_shortfall_credits[l] = 0
      BY <1>2, <2>2 DEF RefundedRight
    <3>3. refunded_amount[l] > 0 => refunded_amount[l] # Price
      BY <1>2, <2>2, <3>2 DEF StatusRight, RefundStatus
    <3> QED BY <1>1, <1>2, <1>3, <3>1, <3>2, <3>3 DEF StatusRight, RefundStatus
  <2> QED BY <2>1, <2>2, FulfilEffect DEF l
<1> QED BY <1>6, <1>7 DEF l

(* What is right of the rows stays right.                                  *)
LEMMA RowsNext ==
  ASSUME HookInv, [NextPurchases]_purchases
  PROVE  RowsRight'
<1>1. /\ TypeOK /\ NotYetSettled /\ RowsRight
      /\ processed \subseteq sent /\ sent \subseteq Events /\ processed \subseteq Events
      /\ purchase_status \in [Lots -> Statuses] /\ payment \in [Lots -> Payments]
      /\ stripe_refunded \in [Lots -> Nat]
      /\ refunded_amount \in [Lots -> 0..Price] /\ refund_shortfall_credits \in [Lots -> Nat]
      /\ credits_granted \in [Lots -> Nat] /\ credits_reversed \in [Lots -> Nat]
  BY PurchaseAssumption DEF HookInv, Typed, TypeOK
<1>2. CASE UNCHANGED <<credits_reversed, credits_granted, rowVars, payment, stripe_refunded, processed>>
  BY <1>1, <1>2 DEF RowsRight, RefundedRight, StatusRight, Done, TargetReversal, RefundStatus, rowVars
<1>3. CASE LedgerOperation
  <2>1. UNCHANGED <<credits_granted, credits_reversed>>
    BY <1>1, <1>3, OperationTypes DEF Conserved
  <2> QED BY <1>2, <1>3, <2>1 DEF LedgerOperation, AccountOperation, stripeVars, hookVars
<1>4. ASSUME NEW l \in Lots, CreateCheckout(l) \/ CheckoutReady(l) \/ CheckoutFailed(l)
      PROVE  RowsRight'
  <2>1. /\ purchase_status[l] \in {"none", "creating"}
        /\ UNCHANGED <<ledger, refunded_amount, refund_shortfall_credits, stripe_refunded, processed>>
        /\ \A k \in Lots \ {l} : purchase_status'[k] = purchase_status[k] /\ payment'[k] = payment[k]
        /\ \/ purchase_status'[l] \in {"creating", "checkout_failed"} /\ payment'[l] = payment[l]
           \/ purchase_status'[l] = "pending" /\ payment'[l] = "open"
    BY <1>1, <1>4 DEF CreateCheckout, CheckoutReady, CheckoutFailed, hookVars, stripeVars
  <2>2. UNCHANGED <<credits_granted, credits_reversed>>
    BY <2>1 DEF ledger, lotVars
  <2>3. ASSUME NEW k \in Lots, k # l
        PROVE  RefundedRight(k)' /\ StatusRight(k)'
    BY <1>1, <2>1, <2>2, <2>3, RowKept
  <2>4. /\ payment[l] = "none" /\ refunded_amount[l] = 0 /\ \A K : ~Done(l, K)
        /\ RefundedRight(l)
    BY <1>1, <2>1, NewLot DEF RowsRight
  <2>5. RefundedRight(l)'
    BY <2>1, <2>2, <2>4 DEF RefundedRight, Done, TargetReversal
  <2>6. StatusRight(l)'
    <3>1. \A K : ~Done(l, K)'
      BY <2>1, <2>4 DEF Done
    <3> QED BY <2>1, <2>4, <3>1 DEF StatusRight, Unsettled
  <2> QED BY <2>3, <2>5, <2>6 DEF RowsRight
<1>5. ASSUME NEW l \in Lots, Pay(l)
      PROVE  RowsRight'
  <2>1. PICK from, to \in Payments : /\ from # "none" /\ to # "none" /\ payment[l] = from
                                     /\ payment' = [payment EXCEPT ![l] = to]
    BY <1>5 DEF Pay, StripeMoves, Payments
  <2>2. UNCHANGED <<ledger, rowVars, stripe_refunded, processed>>
    BY <1>5 DEF Pay, StripeMoves, hookVars
  <2>3. UNCHANGED <<credits_granted, credits_reversed>>
    BY <2>2 DEF ledger, lotVars
  <2>4. ASSUME NEW k \in Lots
        PROVE  RefundedRight(k)' /\ StatusRight(k)'
    <3>1. (payment'[k] = "none") <=> (payment[k] = "none")
      BY <1>1, <2>1
    <3>2. stripe_refunded'[k] \in Nat /\ stripe_refunded[k] <= stripe_refunded'[k]
      BY <1>1, <2>2
    <3> QED BY <1>1, <2>2, <2>3, <3>1, <3>2, RowKept DEF rowVars
  <2> QED BY <2>4 DEF RowsRight
<1>6. ASSUME NEW l \in Lots, NEW n \in 1..Price, RefundCharge(l, n)
      PROVE  RowsRight'
  <2>1. /\ n > stripe_refunded[l] /\ stripe_refunded' = [stripe_refunded EXCEPT ![l] = n]
        /\ UNCHANGED <<ledger, rowVars, payment, processed>>
    BY <1>6 DEF RefundCharge, hookVars
  <2>2. UNCHANGED <<credits_granted, credits_reversed>>
    BY <2>1 DEF ledger, lotVars
  <2>3. ASSUME NEW k \in Lots
        PROVE  RefundedRight(k)' /\ StatusRight(k)'
    <3>1. stripe_refunded'[k] \in Nat /\ stripe_refunded[k] <= stripe_refunded'[k]
      BY <1>1, <2>1
    <3> QED BY <1>1, <2>1, <2>2, <3>1, RowKept DEF rowVars
  <2> QED BY <2>3 DEF RowsRight
<1>7. CASE Abort \/ UNCHANGED purchases \/ \E e \in sent : SendAgain(e) \/ Deliver(e)
  <2>1. UNCHANGED <<ledger, rowVars, payment, stripe_refunded, processed>>
    BY <1>7 DEF Abort, SendAgain, Deliver, purchases, stripeVars, hookVars
  <2> QED BY <1>2, <2>1 DEF ledger, lotVars
<1>8. ASSUME NEW e \in sent, Apply(e)
      PROVE  RowsRight'
  <2>1. /\ e.lot \in Lots /\ e.kind \in Kinds /\ processed' = processed \cup {e}
        /\ UNCHANGED <<payment, stripe_refunded>>
    BY <1>8, ApplyEffect
  <2>2. (RefundedRight(e.lot) /\ StatusRight(e.lot))'
    BY <1>8, <2>1, AwaitedRow, FailedRow, RefundedRow, FulfilledRow DEF Kinds, Paying
  <2>3. ASSUME NEW k \in Lots, k # e.lot
        PROVE  RefundedRight(k)' /\ StatusRight(k)'
    <3>1. /\ credits_reversed'[k] = credits_reversed[k] /\ credits_granted'[k] = credits_granted[k]
          /\ refund_shortfall_credits'[k] = refund_shortfall_credits[k]
          /\ refunded_amount'[k] = refunded_amount[k] /\ purchase_status'[k] = purchase_status[k]
      <4>1. CASE e.kind \in {"completed_unpaid", "async_payment_failed"}
        BY <1>1, <1>8, <2>3, <4>1, ApplyEffect DEF Paying, ledger, lotVars
      <4>2. CASE e.kind = "refunded"
        <5>1. PICK v, x \in Nat : Refunded(e.lot, e.amount, v, x)
          BY <1>8, <4>2, RefundEffect
        <5> QED BY <1>1, <2>1, <2>3, <5>1 DEF Refunded
      <4>3. CASE e.kind \in Paying
        BY <1>1, <1>8, <2>1, <2>3, <4>3, FulfilEffect DEF Fulfilled, ledger, lotVars, rowVars
      <4> QED BY <2>1, <4>1, <4>2, <4>3 DEF Kinds, Paying
    <3>2. /\ stripe_refunded'[k] \in Nat /\ stripe_refunded[k] <= stripe_refunded'[k]
          /\ (payment'[k] = "none") <=> (payment[k] = "none")
      BY <1>1, <2>1
    <3>3. /\ processed' \subseteq Events
          /\ \A d \in Events : d.lot = k => (d \in processed' <=> d \in processed)
      BY <1>1, <2>1, <2>3
    <3> QED BY <3>1, <3>2, <3>3, RowKept
  <2> QED BY <2>2, <2>3 DEF RowsRight
<1> QED BY <1>3, <1>4, <1>5, <1>6, <1>7, <1>8 DEF NextPurchases

(* The inductive invariant: the events tell what Stripe did, the copy is    *)
(* the row, and the rows are what the processed events make of them.        *)
THEOREM HookInvariance == SpecPurchases => []HookInv
<1>1. HookInv /\ [NextPurchases]_purchases => HookInv'
  BY TypedNext, EventsTellNext, CopyNext, RowsNext DEF HookInv
<1> QED BY <1>1, InitHookInv, PTL DEF SpecPurchases

(* PurchasesTypeOK: no refund is recorded beyond the price, and no more is  *)
(* ever flagged for review than the pack.                                  *)
THEOREM PurchasesTypeCorrect == SpecPurchases => []PurchasesTypeOK
<1>1. HookInv => PurchasesTypeOK
  <2> SUFFICES ASSUME HookInv PROVE PurchasesTypeOK
    OBVIOUS
  <2>1. ASSUME NEW l \in Lots PROVE refund_shortfall_credits[l] \in 0..PackSize
    <3>1. credits_reversed[l] \in Nat /\ refund_shortfall_credits[l] \in Nat
          /\ refunded_amount[l] \in 0..Price
      BY DEF HookInv, Typed, TypeOK
    <3>2. credits_reversed[l] + refund_shortfall_credits[l] = TargetReversal(refunded_amount[l])
      BY DEF HookInv, RowsRight, RefundedRight
    <3>3. TargetReversal(refunded_amount[l]) \in 0..PackSize
      BY <3>1, TargetOfPrice
    <3> QED BY <3>1, <3>2, <3>3, PurchaseAssumption
  <2> QED BY <2>1 DEF PurchasesTypeOK, HookInv, Typed
<1> QED BY <1>1, HookInvariance, PTL

(* When all of a lot's events have been processed, what Stripe sent is done. *)
LEMMA QuietDone ==
  ASSUME NEW l \in Lots, Quiet(l), NEW K, Sent(l, K)
  PROVE  Done(l, K)
BY DEF Quiet, Sent, Done

(* RefundsHandled: a refund is handled once, whatever the order and the     *)
(* number of its deliveries, and when all the events of a lot have been     *)
(* processed its status is what Stripe says of the payment.                 *)
THEOREM RefundsAreHandled == SpecPurchases => []RefundsHandled
<1>1. HookInv => RefundsHandled
  <2> SUFFICES ASSUME HookInv PROVE RefundsHandled
    OBVIOUS
  <2>1. ASSUME NEW l \in Lots, Quiet(l)
        PROVE  CASE payment[l] = "paid" /\ stripe_refunded[l] = 0 -> purchase_status[l] = "paid"
                 [] payment[l] = "paid" /\ stripe_refunded[l] > 0 ->
                      purchase_status[l] =
                        RefundStatus(stripe_refunded[l], refund_shortfall_credits[l])
                 [] payment[l] = "processing" -> purchase_status[l] = "pending_payment"
                 [] payment[l] = "failed"     -> purchase_status[l] = "failed"
                 [] OTHER -> TRUE
    <3>1. /\ RefundedRight(l) /\ StatusRight(l)
          /\ refunded_amount[l] \in Nat /\ stripe_refunded[l] \in Nat
          /\ refunded_amount[l] <= stripe_refunded[l]
      BY PurchaseAssumption DEF HookInv, RowsRight, Typed, RefundedRight
    <3>2. /\ payment[l] = "paid" => Done(l, Paying)
          /\ payment[l] = "failed" => Done(l, {"async_payment_failed"})
          /\ payment[l] = "processing" => Done(l, {"completed_unpaid"})
      BY <2>1, QuietDone DEF HookInv, EventsTell
    <3>3. /\ payment[l] # "paid" => ~Done(l, Paying) /\ stripe_refunded[l] = 0
          /\ payment[l] # "failed" => ~Done(l, {"async_payment_failed"})
      <4>1. Done(l, Paying) => payment[l] = "paid"
        BY DEF HookInv, Typed, EventsTell, Done
      <4>2. stripe_refunded[l] > 0 => payment[l] = "paid"
        BY DEF HookInv, EventsTell
      <4>3. Done(l, {"async_payment_failed"}) => payment[l] = "failed"
        BY DEF HookInv, Typed, EventsTell, Done
      <4> QED BY <3>1, <4>1, <4>2, <4>3
    <3>4. ASSUME stripe_refunded[l] > 0 PROVE refunded_amount[l] = stripe_refunded[l]
      <4>1. PICK e \in sent : e.lot = l /\ e.kind = "refunded" /\ e.amount = stripe_refunded[l]
        BY <3>4 DEF HookInv, EventsTell
      <4>2. e \in processed
        BY <2>1, <4>1 DEF Quiet
      <4>3. stripe_refunded[l] <= refunded_amount[l]
        BY <3>1, <4>1, <4>2 DEF RefundedRight
      <4> QED BY <3>1, <4>3
    <3>5. CASE payment[l] = "paid" /\ stripe_refunded[l] = 0
      <4>1. purchase_status[l] = "paid"
        BY <3>1, <3>2, <3>5 DEF StatusRight
      <4> QED BY <3>5, <4>1
    <3>6. CASE payment[l] = "paid" /\ stripe_refunded[l] > 0
      <4>1. purchase_status[l] = RefundStatus(stripe_refunded[l], refund_shortfall_credits[l])
        BY <3>1, <3>4, <3>6 DEF StatusRight
      <4> QED BY <3>6, <4>1
    <3>7. CASE payment[l] = "processing"
      <4>1. purchase_status[l] = "pending_payment"
        BY <3>1, <3>2, <3>3, <3>7 DEF StatusRight
      <4> QED BY <3>7, <4>1
    <3>8. CASE payment[l] = "failed"
      <4>1. purchase_status[l] = "failed"
        BY <3>1, <3>2, <3>3, <3>8 DEF StatusRight
      <4> QED BY <3>8, <4>1
    <3> QED BY <3>1, <3>5, <3>6, <3>7, <3>8
  <2>2. \A l \in Lots : RefundedRight(l)
    BY DEF HookInv, RowsRight
  <2> QED BY <2>1, <2>2 DEF RefundsHandled, RefundedRight
<1> QED BY <1>1, HookInvariance, PTL

-----------------------------------------------------------------------------
(* The account of the packs.                                               *)

PacksBalance ==
  PackSize * Cardinality(Granted)
    = purchased_balance + Part(credits_reversed, Granted) + Total(settled_purchased)

(* What the balance of the packs counts are natural numbers.               *)
LEMMA PackTypes ==
  ASSUME TypeOK
  PROVE  /\ Granted \in SUBSET Lots /\ IsFiniteSet(Granted) /\ Cardinality(Granted) \in Nat
         /\ Part(credits_reversed, Granted) \in Nat
         /\ Total(settled_purchased) \in Nat /\ purchased_balance \in Nat
         /\ PackSize \in Nat
<1>1. Granted \in SUBSET Lots
  BY DEF Granted
<1>2. IsFiniteSet(Granted) /\ Cardinality(Granted) \in Nat
  BY <1>1, FiniteLots, FS_Subset, FS_CardinalityType
<1>3. Part(credits_reversed, Granted) \in Nat
  <2>1. [l \in Granted |-> credits_reversed[l]] \in [Granted -> Nat]
    BY <1>1 DEF TypeOK
  <2> QED BY <1>2, <2>1, TotalType DEF Part
<1>4. Total(settled_purchased) \in Nat /\ purchased_balance \in Nat
  BY LedgerAssumption, TotalType DEF TypeOK
<1> QED BY <1>1, <1>2, <1>3, <1>4, PurchaseAssumption

(* A grant adds a pack: what a refund took before it, and the rest.        *)
LEMMA FulfilledBalance ==
  ASSUME TypeOK, TypeOK', PacksBalance, NEW l \in Lots, credits_granted[l] = 0, Fulfilled(l)
  PROVE  PacksBalance'
<1>1. /\ Granted \in SUBSET Lots /\ IsFiniteSet(Granted) /\ Cardinality(Granted) \in Nat
      /\ Part(credits_reversed, Granted) \in Nat
      /\ Total(settled_purchased) \in Nat /\ purchased_balance \in Nat
      /\ PackSize \in Nat /\ PackSize > 0
      /\ credits_granted \in [Lots -> Nat] /\ credits_reversed \in [Lots -> Nat]
  BY PackTypes, PurchaseAssumption DEF TypeOK
<1>2. PICK c : c = Monus(PackSize, credits_reversed[l])
  OBVIOUS
<1>3. /\ credits_granted' = [credits_granted EXCEPT ![l] = c]
      /\ purchased_balance' = purchased_balance + c
      /\ UNCHANGED <<credits_reversed, settled_purchased>>
  BY <1>2 DEF Fulfilled
<1>4. c \in Nat
  BY <1>1, <1>2 DEF Monus
<1>5. CASE c = 0
  <2>1. Granted' = Granted /\ purchased_balance' = purchased_balance
    BY <1>1, <1>3, <1>5 DEF Granted
  <2> QED BY <1>3, <2>1 DEF PacksBalance, Part
<1>6. CASE c > 0
  <2>1. c + credits_reversed[l] = PackSize
    BY <1>1, <1>2, <1>6 DEF Monus
  <2>2. Granted' = Granted \cup {l} /\ l \in Lots \ Granted
    BY <1>1, <1>3, <1>6 DEF Granted
  <2>3. Cardinality(Granted') = Cardinality(Granted) + 1
    BY <1>1, <2>2, FS_AddElement
  <2>4. Part(credits_reversed, Granted') = credits_reversed[l] + Part(credits_reversed, Granted)
    BY <1>1, <2>2, FiniteLots, PartInsert
  <2>5. PackSize * (Cardinality(Granted) + 1) = PackSize * Cardinality(Granted) + PackSize
    BY <1>1
  <2>6. credits_reversed[l] \in Nat
    BY <1>1
  <2>7. Part(credits_reversed, Granted)' = Part(credits_reversed, Granted')
    BY <1>3 DEF Part
  <2>8. PackSize * Cardinality(Granted') = PackSize * Cardinality(Granted) + PackSize
    BY <2>3, <2>5
  <2>9. PackSize * Cardinality(Granted') =
          purchased_balance' + Part(credits_reversed, Granted') + Total(settled_purchased)
    BY <1>1, <1>3, <1>4, <2>1, <2>4, <2>6, <2>8 DEF PacksBalance
  <2> QED BY <1>3, <2>7, <2>9 DEF PacksBalance
<1> QED BY <1>4, <1>5, <1>6

(* A refund of a granted pack takes its credits out of the balance.        *)
LEMMA RefundedBalance ==
  ASSUME TypeOK, TypeOK', PacksBalance, NEW l \in Lots, NEW a, NEW v \in Nat, NEW x \in Nat,
         Refunded(l, a, v, x)
  PROVE  PacksBalance'
<1>1. /\ Granted \in SUBSET Lots /\ IsFiniteSet(Granted)
      /\ Part(credits_reversed, Granted) \in Nat
      /\ Total(settled_purchased) \in Nat /\ purchased_balance \in Nat
      /\ credits_granted \in [Lots -> Nat] /\ credits_reversed \in [Lots -> Nat]
  BY PackTypes DEF TypeOK
<1>2. /\ credits_reversed' = [credits_reversed EXCEPT ![l] = @ + v]
      /\ purchased_balance' = purchased_balance - (IF credits_granted[l] > 0 THEN v ELSE 0)
      /\ UNCHANGED <<credits_granted, settled_purchased>>
  BY DEF Refunded
<1>3. Granted' = Granted
  BY <1>2 DEF Granted
<1>4. CASE l \in Granted
  <2>1. purchased_balance' = purchased_balance - v
    BY <1>2, <1>4 DEF Granted
  <2>2. /\ Part(credits_reversed, Granted)
             = credits_reversed[l] + Part(credits_reversed, Granted \ {l})
        /\ Part(credits_reversed, Granted \ {l}) \in Nat /\ credits_reversed[l] \in Nat
    BY <1>1, <1>4, FiniteLots, PartMember
  <2>3. credits_reversed' \in [Lots -> Nat] /\ credits_reversed'[l] = credits_reversed[l] + v
    BY <1>1, <1>2
  <2>4. Part(credits_reversed', Granted)
          = credits_reversed'[l] + Part(credits_reversed', Granted \ {l})
    BY <1>1, <1>4, <2>3, FiniteLots, PartMember
  <2>5. [k \in Granted \ {l} |-> credits_reversed'[k]] = [k \in Granted \ {l} |-> credits_reversed[k]]
    BY <1>1, <1>2
  <2>6. Part(credits_reversed', Granted \ {l}) = Part(credits_reversed, Granted \ {l})
    BY <2>5 DEF Part
  <2>7. Part(credits_reversed', Granted) = Part(credits_reversed, Granted) + v
    BY <2>2, <2>3, <2>4, <2>6
  <2>8. purchased_balance' + Part(credits_reversed', Granted) + Total(settled_purchased)
          = purchased_balance + Part(credits_reversed, Granted) + Total(settled_purchased)
    BY <1>1, <2>1, <2>7
  <2>9. Part(credits_reversed, Granted)' = Part(credits_reversed', Granted)
    BY <1>3 DEF Part
  <2> QED BY <1>2, <1>3, <2>8, <2>9 DEF PacksBalance
<1>5. CASE l \notin Granted
  <2>1. purchased_balance' = purchased_balance
    BY <1>1, <1>2, <1>5 DEF Granted
  <2>2. [k \in Granted |-> credits_reversed'[k]] = [k \in Granted |-> credits_reversed[k]]
    BY <1>1, <1>2, <1>5
  <2>3. Part(credits_reversed, Granted)' = Part(credits_reversed, Granted)
    BY <1>3, <2>2 DEF Part
  <2> QED BY <1>2, <1>3, <2>1, <2>3 DEF PacksBalance
<1> QED BY <1>4, <1>5

(* Every step keeps the balance of the packs.                              *)
LEMMA PacksNext ==
  ASSUME HookInv, PacksBalance, [NextPurchases]_purchases
  PROVE  PacksBalance'
<1>1. TypeOK /\ NotYetSettled /\ TypeOK'
  BY TypedNext DEF HookInv, Typed
<1>2. CASE UNCHANGED <<credits_granted, credits_reversed, purchased_balance, settled_purchased>>
  <2>1. Granted' = Granted /\ Part(credits_reversed, Granted)' = Part(credits_reversed, Granted)
    BY <1>2 DEF Granted, Part
  <2> QED BY <1>2, <2>1 DEF PacksBalance
<1>3. CASE LedgerOperation
  <2>1. Conserved
    BY <1>1, <1>3, OperationTypes
  <2>2. Granted' = Granted /\ Part(credits_reversed, Granted)' = Part(credits_reversed, Granted)
    BY <2>1 DEF Conserved, Granted, Part
  <2>3. /\ Total(settled_purchased) \in Nat /\ purchased_balance \in Nat
        /\ Part(credits_reversed, Granted) \in Nat
    BY <1>1, PackTypes
  <2>4. Total(settled_purchased)' = Total(settled_purchased')
        /\ Total(settled_purchased') \in Nat /\ purchased_balance' \in Nat
    BY <1>1, LedgerAssumption, TotalType DEF TypeOK, Total
  <2>5. purchased_balance' + Part(credits_reversed, Granted) + Total(settled_purchased')
          = purchased_balance + Part(credits_reversed, Granted) + Total(settled_purchased)
    BY <2>1, <2>3, <2>4 DEF Conserved
  <2> QED BY <2>2, <2>4, <2>5 DEF PacksBalance
<1>4. CASE Checkouts \/ Stripe \/ Abort \/ UNCHANGED purchases \/ \E e \in sent : Deliver(e)
  <2>1. UNCHANGED ledger
    BY <1>4 DEF Checkouts, CreateCheckout, CheckoutReady, CheckoutFailed, Stripe, Pay, StripeMoves,
                RefundCharge, SendAgain, Abort, Deliver, purchases
  <2> QED BY <1>2, <2>1 DEF ledger, balanceVars, lotVars, chargeVars
<1>5. ASSUME NEW e \in sent, Apply(e)
      PROVE  PacksBalance'
  <2>1. e.lot \in Lots /\ e.kind \in Kinds
    BY <1>5, ApplyEffect
  <2>2. CASE e.kind \in {"completed_unpaid", "async_payment_failed"}
    <3>1. UNCHANGED ledger
      BY <1>5, <2>2, ApplyEffect DEF Paying
    <3> QED BY <1>2, <3>1 DEF ledger, balanceVars, lotVars, chargeVars
  <2>3. CASE e.kind = "refunded"
    <3>1. PICK v, x \in Nat : Refunded(e.lot, e.amount, v, x)
      BY <1>5, <2>3, RefundEffect
    <3> QED BY <1>1, <2>1, <3>1, RefundedBalance
  <2>4. CASE e.kind \in Paying
    <3>1. CASE UNCHANGED <<ledger, rowVars>>
      BY <1>2, <3>1 DEF ledger, balanceVars, lotVars, chargeVars
    <3>2. CASE credits_granted[e.lot] = 0 /\ Fulfilled(e.lot)
      BY <1>1, <2>1, <3>2, FulfilledBalance
    <3> QED BY <1>5, <2>4, <3>1, <3>2, FulfilEffect
  <2> QED BY <2>1, <2>2, <2>3, <2>4 DEF Kinds, Paying
<1> QED BY <1>3, <1>4, <1>5 DEF NextPurchases, Checkouts, Stripe

(* PackAccounted: a pack is granted once, when it is paid for, and every   *)
(* credit of the packs is in the balance, taken back or used.              *)
THEOREM PacksAreAccounted == SpecPurchases => []PackAccounted
<1>1. InitPurchases => PacksBalance
  <2> SUFFICES ASSUME InitPurchases PROVE PacksBalance
    OBVIOUS
  <2>0. /\ purchased_balance = 0 /\ settled_purchased = [r \in Requests |-> 0]
        /\ credits_granted = [l \in Lots |-> 0]
    BY DEF InitPurchases, Init, Zero
  <2>1. Granted = {} /\ purchased_balance = 0 /\ settled_purchased = [r \in Requests |-> 0]
    BY <2>0 DEF Granted
  <2>2. Total(settled_purchased) = 0
    BY <2>1, TotalZero
  <2>3. Part(credits_reversed, Granted) = 0
    <3>1. [l \in {} |-> credits_reversed[l]] = [l \in {} |-> 0]
      OBVIOUS
    <3>2. Total([l \in {} |-> 0]) = 0
      BY TotalZero
    <3> QED BY <2>1, <3>1, <3>2 DEF Part
  <2>4. PackSize * 0 = 0
    BY PurchaseAssumption
  <2>5. Cardinality(Granted) = 0
    BY <2>1, FS_EmptySet
  <2> QED BY <2>1, <2>2, <2>3, <2>4, <2>5 DEF PacksBalance
<1>2. HookInv /\ PacksBalance /\ [NextPurchases]_purchases => PacksBalance'
  BY PacksNext
<1>3. HookInv /\ PacksBalance => PackAccounted
  <2> SUFFICES ASSUME HookInv, PacksBalance PROVE PackAccounted
    OBVIOUS
  <2>1. ASSUME NEW l \in Granted PROVE payment[l] = "paid"
    <3>1. l \in Lots /\ Done(l, Paying)
      BY DEF Granted, HookInv, RowsRight, RefundedRight
    <3> QED BY <3>1 DEF HookInv, Typed, EventsTell, Done
  <2> QED BY <2>1 DEF PackAccounted, PacksBalance, Part
<1>4. SpecPurchases => []PacksBalance
  BY <1>1, <1>2, HookInvariance, PTL DEF SpecPurchases
<1> QED BY <1>3, <1>4, HookInvariance, PTL

-----------------------------------------------------------------------------
(* The books, when no operation steps inside a handler.                    *)

(* What may still be spent of a granted pack, and what refunds took of it. *)
PacksWorth == \A l \in Granted : credits_remaining[l] + credits_reversed[l] <= PackSize

Sound == ~overlap => Books /\ PacksWorth

(* The other users of the account keep the books.                          *)
LEMMA OperationBooks ==
  ASSUME Books, AccountOperation
  PROVE  Books'
<1>0. MaxCredits \in Nat
  BY LedgerAssumption
<1>1. CASE ReleaseStaleReservations
  BY <1>1, ReleaseStaleInv
<1>2. CASE Claims
  <2>1. PICK r \in Requests, e \in 1..MaxCredits, s \in BOOLEAN : ClaimCreditReservation(r, e, s)
    BY <1>2 DEF Claims
  <2>2. e \in Nat
    BY <1>0
  <2> QED BY <2>1, <2>2, ClaimInv
<1>3. CASE \E r \in Requests : ReleaseReservation(r)
  BY <1>3, ReleaseInv
<1>4. CASE Settlements
  <2>1. PICK r \in Requests, n \in 0..MaxCredits : SettleReservation(r, n)
    BY <1>4 DEF Settlements
  <2>2. n \in Nat
    BY <1>0
  <2> QED BY <2>1, <2>2, SettleInv
<1>5. CASE \E r \in Requests : TtlElapses(r)
  <2>1. /\ UNCHANGED <<balanceVars, status, holdVars, chargeVars, lotVars, ledgerVars>>
        /\ limit' \in Limits /\ aged' \subseteq Requests
    BY <1>5 DEF TtlElapses, Books, TypeOK
  <2> QED BY <2>1, SameBooks
<1> QED BY <1>1, <1>2, <1>3, <1>4, <1>5 DEF AccountOperation

(* With a fresh copy the handler expires what the expiry does.             *)
LEMMA AroundIsWithout ==
  ASSUME TypeOK, NEW l \in Lots, NEW row, row.reserved = credits_reserved[l],
         NEW X \in SUBSET Requests
  PROVE  LotsReservedAround(l, row, X) = LotsReservedWithout(X)
<1>1. PICK m : m = Monus(credits_reserved[l], LotHeld(X, l))
  OBVIOUS
<1>2. LotsReservedWithout(X) \in [Lots -> Nat] /\ LotsReservedWithout(X)[l] = m
  BY <1>1, ExpiryTypes DEF LotsReservedWithout
<1>3. Write(credits_reserved, l, credits_reserved[l], m)[l] = m
  BY DEF Write, TypeOK
<1>4. LotsReservedAround(l, row, X) = [LotsReservedWithout(X) EXCEPT ![l] = m]
  BY <1>1, <1>3 DEF LotsReservedAround
<1> QED BY <1>2, <1>4

(* The balance side of a refund on a fresh copy, with its lot's column.    *)
LEMMA TakeBackBooks ==
  ASSUME Books, NEW l \in Lots, NEW row, row.reserved = credits_reserved[l],
         NEW t \in Nat, NEW key, \A k \in Lots : key # <<"purchase_grant", k>>,
         TakeBack(l, row, t, key),
         credits_remaining' = [credits_remaining EXCEPT ![l] = @ - t],
         credits_reversed' \in [Lots -> Nat],
         t <= credits_remaining[l] - credits_reserved[l],
         t <= PurchasedAvailable(PurchasedReservedWithout(Stale({})))
  PROVE  Books'
<1>0. PICK X : X = Stale({})
  OBVIOUS
<1>1. TypeOK /\ X \in SUBSET Live /\ X \in SUBSET Requests
  BY <1>0, StaleIsLive DEF Books, Live
<1>2. LotsReservedAround(l, row, X) = LotsReservedWithout(X)
  BY <1>1, AroundIsWithout
<1>3. /\ ExpireOnly(X) /\ Post(X, 0, -t, 0, 0)
      /\ purchased_balance' = purchased_balance - t
      /\ ledger_keys' = ledger_keys \cup {key}
      /\ UNCHANGED <<monthly_period, monthly_used, holdVars, chargeVars,
                     credits_granted, limit, aged>>
  BY <1>0, <1>2 DEF TakeBack, ExpireOnly
<1>4. t <= purchased_balance - PurchasedReservedWithout(X)
  <2>1. /\ PurchasedReservedWithout(X) \in Nat /\ PurchasedHeld(X) \in Nat
        /\ purchased_reserved = PurchasedReservedWithout(X) + PurchasedHeld(X)
    BY <1>1, Expiry
  <2>2. purchased_balance \in Nat /\ purchased_reserved <= purchased_balance
    BY <1>1 DEF Books, ReservedIsCovered, TypeOK
  <2>3. PurchasedAvailable(PurchasedReservedWithout(X))
          = purchased_balance - PurchasedReservedWithout(X)
    BY <2>1, <2>2 DEF PurchasedAvailable, Monus
  <2> QED BY <1>0, <2>3
<1> QED BY <1>1, <1>3, <1>4, TakeBackInv

(* Leaving the account alone keeps the books.                              *)
LEMMA IdleSound ==
  ASSUME Books, PacksWorth, UNCHANGED ledger
  PROVE  Books' /\ PacksWorth'
<1>1. /\ UNCHANGED <<balanceVars, status, holdVars, chargeVars, lotVars, ledgerVars>>
      /\ limit' \in Limits /\ aged' \subseteq Requests
  BY DEF ledger, Books, TypeOK
<1>2. Books'
  BY <1>1, SameBooks
<1> QED BY <1>2 DEF PacksWorth, Granted, ledger, lotVars

(* A refund on a fresh copy keeps the books, and what it takes of a pack   *)
(* cannot be spent.                                                        *)
LEMMA RefundSound ==
  ASSUME HookInv, ~overlap, Books, PacksWorth, NEW e \in sent, Handle(e), e.kind = "refunded"
  PROVE  Books' /\ PacksWorth'
<1> DEFINE l == e.lot
           row == handling.row
           w == IncrementalReversal(row, e.amount)
           key == <<"refund", l, e.amount>>
<1>1. /\ l \in Lots /\ row \in Copies /\ RefundPurchase(l, row, e.amount)
      /\ row.granted = credits_granted[l] /\ row.reversed = credits_reversed[l]
      /\ row.shortfall = refund_shortfall_credits[l]
      /\ row.remaining = credits_remaining[l] /\ row.reserved = credits_reserved[l]
      /\ e \in Events
  BY Handles
<1>2. /\ TypeOK /\ credits_granted \in [Lots -> Nat] /\ credits_reversed \in [Lots -> Nat]
      /\ credits_remaining \in [Lots -> Nat] /\ credits_reserved \in [Lots -> Nat]
      /\ refund_shortfall_credits \in [Lots -> Nat]
      /\ credits_reserved[l] <= credits_remaining[l]
  BY <1>1 DEF Books, ReservedIsCovered, HookInv, Typed, TypeOK
<1>3. w \in Nat
  <2>1. e.amount \in Nat
    BY <1>1, PurchaseAssumption DEF Events
  <2>2. TargetReversal(e.amount) \in Nat
    BY <2>1, TargetGrows
  <2> QED BY <1>1, <1>2, <2>2 DEF IncrementalReversal, Monus
<1>4. \/ w = 0 /\ UNCHANGED <<ledger, refund_shortfall_credits>>
      \/ row.granted = 0 /\ Withhold(l, row, w, e.amount)
      \/ row.granted > 0 /\ Reverse(l, row, w, e.amount)
  BY <1>1 DEF RefundPurchase
<1>k. \A k \in Lots : key # <<"purchase_grant", k>>
  OBVIOUS
<1> HIDE DEF w, key
<1>5. CASE UNCHANGED ledger
  BY <1>5, IdleSound
<1>6. CASE row.granted = 0 /\ Withhold(l, row, w, e.amount)
  <2>1. /\ credits_reversed' = [credits_reversed EXCEPT ![l] = @ + w]
        /\ UNCHANGED <<credits_granted, credits_remaining>>
    <3>1. Write(credits_reversed, l, credits_reversed[l], credits_reversed[l] + w)
            = [credits_reversed EXCEPT ![l] = @ + w]
      BY <1>1, <1>2, WriteFresh
    <3> QED BY <1>1, <1>6, <3>1 DEF Withhold, TakeBack
  <2>2. TakeBack(l, row, 0, key)
    BY <1>6 DEF Withhold, key
  <2>3. /\ credits_remaining' = [credits_remaining EXCEPT ![l] = @ - 0]
        /\ credits_reversed' \in [Lots -> Nat]
        /\ 0 <= credits_remaining[l] - credits_reserved[l]
    BY <1>1, <1>2, <1>3, <2>1
  <2>4. 0 <= PurchasedAvailable(PurchasedReservedWithout(Stale({})))
    <3>1. Stale({}) \in SUBSET Requests
      BY <1>2, StaleIsLive DEF Live
    <3>2. PurchasedReservedWithout(Stale({})) \in Nat /\ purchased_balance \in Nat
      BY <1>2, <3>1, ExpiryTypes DEF TypeOK
    <3> QED BY <3>2 DEF PurchasedAvailable, Monus
  <2>5. Books'
    BY <1>1, <1>k, <2>2, <2>3, <2>4, TakeBackBooks
  <2>6. PacksWorth'
    <3>0. credits_granted[l] = 0
      BY <1>1, <1>6
    <3>1. l \notin Granted /\ Granted' = Granted
      BY <2>1, <3>0 DEF Granted
    <3>2. \A k \in Granted : credits_reversed'[k] = credits_reversed[k]
      BY <1>2, <2>1, <3>1 DEF Granted
    <3> QED BY <2>1, <3>1, <3>2 DEF PacksWorth
  <2> QED BY <2>5, <2>6
<1>7. CASE row.granted > 0 /\ Reverse(l, row, w, e.amount)
  <2>1. PICK t : t = Taken(row, w, key)
    OBVIOUS
  <2>2. /\ t \in Nat
        /\ credits_reversed' = [credits_reversed EXCEPT ![l] = @ + t]
        /\ credits_remaining' = Write(credits_remaining, l, row.remaining, row.remaining - t)
        /\ UNCHANGED credits_granted
    <3>1. t \in Nat
      BY <1>1, <1>2, <1>3, <2>1, TakenBounds DEF Taken
    <3>2. Write(credits_reversed, l, credits_reversed[l], credits_reversed[l] + t)
            = [credits_reversed EXCEPT ![l] = @ + t]
      BY <1>1, <1>2, WriteFresh
    <3> QED BY <1>1, <1>7, <2>1, <3>1, <3>2 DEF Reverse, Taken, TakeBack, key
  <2>3. credits_remaining' = [credits_remaining EXCEPT ![l] = @ - t]
    <3>1. Write(credits_remaining, l, credits_remaining[l], credits_remaining[l] - t)
            = [credits_remaining EXCEPT ![l] = credits_remaining[l] - t]
      BY <1>1, <1>2, WriteFresh
    <3> QED BY <1>1, <2>2, <3>1
  <2>4. /\ t <= row.remaining
        /\ t > 0 => t <= row.remaining - row.reserved
        /\ t <= PurchasedAvailable(PurchasedReservedWithout(Stale({})))
    BY <1>1, <1>2, <1>3, <2>1, TakenBounds DEF Taken
  <2>5. t <= credits_remaining[l] - credits_reserved[l]
    BY <1>1, <1>2, <2>2, <2>4
  <2>6. Books'
    <3>1. CASE Reversible(row, w) > 0
      <4>1. TakeBack(l, row, t, key)
        BY <1>7, <2>1, <3>1 DEF Reverse, Taken, key
      <4>2. credits_reversed' \in [Lots -> Nat]
        BY <1>1, <1>2, <2>2
      <4> QED BY <1>1, <1>k, <2>2, <2>3, <2>4, <2>5, <4>1, <4>2, TakeBackBooks
    <3>2. CASE ~(Reversible(row, w) > 0)
      <4>1. t = 0
        BY <2>1, <3>2 DEF Taken
      <4>2. UNCHANGED <<balanceVars, status, holdVars, chargeVars, credits_granted,
                        credits_reserved, ledgerVars, limit, aged>>
        BY <1>7, <3>2 DEF Reverse
      <4>3. UNCHANGED <<credits_remaining, credits_reversed>>
        <5>1. /\ [credits_remaining EXCEPT ![l] = @ - 0] = credits_remaining
              /\ [credits_reversed EXCEPT ![l] = @ + 0] = credits_reversed
          BY <1>1, <1>2
        <5> QED BY <2>2, <2>3, <4>1, <5>1
      <4>4. UNCHANGED lotVars /\ limit' \in Limits /\ aged' \subseteq Requests
        BY <1>2, <4>2, <4>3 DEF lotVars, TypeOK
      <4> QED BY <4>2, <4>4, SameBooks
    <3> QED BY <3>1, <3>2
  <2>7. PacksWorth'
    <3>1. Granted' = Granted /\ PackSize \in Nat
      BY <2>2, PurchaseAssumption DEF Granted
    <3>2. ASSUME NEW k \in Granted
          PROVE  credits_remaining'[k] + credits_reversed'[k] = credits_remaining[k] + credits_reversed[k]
      <4>1. CASE k = l
        <5>1. /\ credits_remaining'[l] = credits_remaining[l] - t
              /\ credits_reversed'[l] = credits_reversed[l] + t
          BY <1>1, <1>2, <2>2, <2>3
        <5>2. credits_remaining[l] \in Nat /\ credits_reversed[l] \in Nat
          BY <1>1, <1>2
        <5> QED BY <2>2, <4>1, <5>1, <5>2
      <4>2. CASE k # l
        BY <1>1, <1>2, <2>2, <2>3, <4>2 DEF Granted
      <4> QED BY <4>1, <4>2
    <3> QED BY <3>1, <3>2 DEF PacksWorth
  <2> QED BY <2>6, <2>7
<1> QED BY <1>4, <1>5, <1>6, <1>7

(* So does a confirmed payment.                                            *)
LEMMA FulfilSound ==
  ASSUME HookInv, Books, PacksWorth, NEW e \in sent, Handle(e), e.kind \in Paying
  PROVE  Books' /\ PacksWorth'
<1> DEFINE l == e.lot
           row == handling.row
           c == Monus(PackSize, credits_reversed[l])
<1>1. /\ l \in Lots /\ Fulfil(l, row) /\ row.reversed = credits_reversed[l]
  BY Handles
<1>2. /\ TypeOK /\ credits_granted \in [Lots -> Nat] /\ credits_reversed \in [Lots -> Nat]
      /\ credits_remaining \in [Lots -> Nat]
      /\ PackSize \in Nat
  BY PurchaseAssumption DEF Books, TypeOK
<1>3. c \in Nat /\ (c > 0 => c + credits_reversed[l] = PackSize)
  BY <1>1, <1>2 DEF Monus
<1>4. UNCHANGED ledger \/ (c > 0 /\ AddPurchasedCredits(l, c))
  BY <1>1 DEF Fulfil, CreditsToGrant
<1> HIDE DEF c, l
<1>5. CASE UNCHANGED ledger
  BY <1>5, IdleSound
<1>6. CASE c > 0 /\ AddPurchasedCredits(l, c)
  <2>1. Books'
    BY <1>1, <1>3, <1>6, AddPurchasedInv
  <2>2. /\ credits_granted' = [credits_granted EXCEPT ![l] = c]
        /\ credits_remaining' = [credits_remaining EXCEPT ![l] = c]
        /\ UNCHANGED credits_reversed
    BY <1>6 DEF AddPurchasedCredits
  <2>3. ASSUME NEW k \in Granted'
        PROVE  credits_remaining'[k] + credits_reversed'[k] <= PackSize
    <3>1. CASE k = l
      BY <1>1, <1>2, <1>3, <1>6, <2>2, <3>1
    <3>2. CASE k # l
      <4>1. k \in Granted /\ k \in Lots
        BY <1>2, <2>2, <2>3, <3>2 DEF Granted
      <4> QED BY <1>2, <2>2, <3>2, <4>1 DEF PacksWorth
    <3> QED BY <3>1, <3>2
  <2> QED BY <2>1, <2>3 DEF PacksWorth
<1> QED BY <1>4, <1>5, <1>6

(* And the handler of any event.                                           *)
LEMMA HandleSound ==
  ASSUME HookInv, ~overlap, Books, PacksWorth, NEW e \in sent, Handle(e)
  PROVE  Books' /\ PacksWorth'
<1>1. /\ e.kind \in Kinds
      /\ e.kind = "completed_unpaid" => AwaitPayment(e.lot, handling.row)
      /\ e.kind = "async_payment_failed" => MarkFailed(e.lot, handling.row)
  BY Handles DEF Events
<1>2. CASE e.kind \in {"completed_unpaid", "async_payment_failed"}
  <2>1. UNCHANGED ledger
    BY <1>1, <1>2 DEF AwaitPayment, MarkFailed
  <2> QED BY <2>1, IdleSound
<1>3. CASE e.kind = "refunded"
  BY <1>3, RefundSound
<1>4. CASE e.kind \in Paying
  BY <1>4, FulfilSound
<1> QED BY <1>1, <1>2, <1>3, <1>4 DEF Kinds, Paying

(* The books are right at first.                                           *)
LEMMA InitSound == InitPurchases => Sound
<1> SUFFICES ASSUME InitPurchases PROVE Books /\ PacksWorth
  BY DEF Sound
<1>1. Books /\ credits_granted = [l \in Lots |-> 0]
  BY InitInv DEF InitPurchases, IInv, Init
<1>2. Granted = {}
  BY <1>1 DEF Granted
<1> QED BY <1>1, <1>2 DEF PacksWorth

(* Whether operations may step inside a handler never changes.             *)
LEMMA OverlapStays ==
  ASSUME [NextPurchases]_purchases
  PROVE  overlap' = overlap
<1>1. ASSUME NEW e \in sent, Apply(e) PROVE overlap' = overlap
  BY <1>1 DEF Apply, Handle
<1> QED BY <1>1 DEF NextPurchases, CreateCheckout, CheckoutReady, CheckoutFailed, Pay, StripeMoves,
                    RefundCharge, SendAgain, Deliver, Abort, LedgerOperation, AccountOperation,
                    purchases, hookVars

(* Every step keeps the books.                                             *)
LEMMA SoundNext ==
  ASSUME HookInv, Sound, [NextPurchases]_purchases
  PROVE  Sound'
<1>0. overlap' = overlap
  BY OverlapStays
<1> SUFFICES ASSUME ~overlap PROVE Books' /\ PacksWorth'
  BY <1>0 DEF Sound
<1>1. Books /\ PacksWorth
  BY DEF Sound
<1>3. CASE LedgerOperation
  <2>1. Books'
    BY <1>1, <1>3, OperationBooks DEF LedgerOperation
  <2>2. /\ UNCHANGED <<credits_granted, credits_reversed>>
        /\ \A l \in Lots : credits_remaining'[l] <= credits_remaining[l]
    BY <1>3, OperationTypes DEF HookInv, Typed, Conserved
  <2>3. /\ credits_remaining \in [Lots -> Nat] /\ credits_remaining' \in [Lots -> Nat]
        /\ credits_reversed \in [Lots -> Nat] /\ PackSize \in Nat
    BY <1>1, <2>1, PurchaseAssumption DEF Books, TypeOK
  <2>4. Granted' = Granted /\ Granted \subseteq Lots
    BY <2>2 DEF Granted
  <2>5. ASSUME NEW l \in Granted
        PROVE  credits_remaining'[l] + credits_reversed[l] <= PackSize
    <3>1. /\ credits_remaining[l] \in Nat /\ credits_remaining'[l] \in Nat
          /\ credits_reversed[l] \in Nat /\ credits_remaining'[l] <= credits_remaining[l]
          /\ credits_remaining[l] + credits_reversed[l] <= PackSize
      BY <1>1, <2>2, <2>3, <2>4 DEF PacksWorth
    <3> QED BY <2>3, <3>1
  <2> QED BY <2>1, <2>2, <2>4, <2>5 DEF PacksWorth
<1>4. CASE Checkouts \/ Stripe \/ Abort \/ UNCHANGED purchases \/ \E e \in sent : Deliver(e)
  <2>1. UNCHANGED ledger
    BY <1>4 DEF Checkouts, CreateCheckout, CheckoutReady, CheckoutFailed, Stripe, Pay, StripeMoves,
                RefundCharge, SendAgain, Abort, Deliver, purchases
  <2> QED BY <1>1, <2>1, IdleSound
<1>5. ASSUME NEW e \in sent, Apply(e)
      PROVE  Books' /\ PacksWorth'
  BY <1>1, <1>5, HandleSound DEF Apply
<1> QED BY <1>3, <1>4, <1>5 DEF NextPurchases, Checkouts, Stripe

(* RefundedCreditsGone: unless an operation steps inside the handler, the  *)
(* lots sum to the balance and what refunds took back cannot be spent.     *)
THEOREM RefundedCreditsAreGone == SpecPurchases => []RefundedCreditsGone
<1>1. InitPurchases => Sound
  BY InitSound
<1>2. HookInv /\ Sound /\ [NextPurchases]_purchases => Sound'
  BY SoundNext
<1>3. HookInv /\ Sound => RefundedCreditsGone
  <2> SUFFICES ASSUME HookInv, Books, PacksWorth, NEW l \in Granted
               PROVE  credits_remaining[l] <= PackSize - TargetReversal(refunded_amount[l])
                                                + refund_shortfall_credits[l]
    BY DEF Sound, RefundedCreditsGone, Books
  <2>1. l \in Lots
    BY DEF Granted
  <2>2. credits_remaining[l] + credits_reversed[l] <= PackSize
    BY DEF PacksWorth
  <2>3. credits_reversed[l] + refund_shortfall_credits[l] = TargetReversal(refunded_amount[l])
    BY <2>1 DEF HookInv, RowsRight, RefundedRight
  <2>4. /\ credits_remaining[l] \in Nat /\ credits_reversed[l] \in Nat
        /\ refund_shortfall_credits[l] \in Nat /\ PackSize \in Nat
    BY <2>1, PurchaseAssumption DEF HookInv, Typed, TypeOK
  <2> QED BY <2>2, <2>3, <2>4
<1>4. SpecPurchases => []Sound
  BY <1>1, <1>2, HookInvariance, PTL DEF SpecPurchases
<1> QED BY <1>3, <1>4, HookInvariance, PTL

-----------------------------------------------------------------------------
(* The CHECK constraints.                                                  *)

(* The same system with nothing tested at a commit.                        *)
NextWithoutChecks ==
  \/ Checkouts
  \/ Stripe
  \/ \E e \in sent : Deliver(e) \/ Handle(e)
  \/ Abort
  \/ AccountOperation

SpecWithoutChecks == InitPurchases /\ [][NextWithoutChecks]_purchases

(* What the books say meets the constraints.                               *)
LEMMA BooksMeetChecks ==
  ASSUME Books'
  PROVE  CheckConstraints'
<1>1. /\ included_reserved' \in Nat /\ purchased_reserved' \in Nat /\ purchased_balance' \in Nat
      /\ credits_remaining' \in [Lots -> Nat]
  BY DEF Books, TypeOK
<1>2. /\ purchased_reserved' <= purchased_balance'
      /\ \A l \in Lots : credits_reserved'[l] <= credits_remaining'[l]
  BY DEF Books, ReservedIsCovered
<1> QED BY <1>1, <1>2 DEF CheckConstraints

(* Unless an operation steps inside a handler, no commit of the webhook or  *)
(* of the account ever meets a CHECK constraint: without them the system   *)
(* has the same behaviours, so no event is rolled back by its own writes.  *)
THEOREM ChecksNeverBite == SpecWithoutChecks /\ ~overlap => SpecPurchases
<1> DEFINE J == ~overlap /\ HookInv /\ Books /\ PacksWorth
<1>1. InitPurchases /\ ~overlap => J
  BY InitHookInv, InitSound DEF Sound
<1>2. ASSUME J, [NextWithoutChecks]_purchases
      PROVE  [NextPurchases]_purchases
  <2>1. ASSUME NEW e \in sent, Handle(e) PROVE Apply(e)
    <3>1. Books'
      BY <1>2, <2>1, HandleSound
    <3> QED BY <2>1, <3>1, BooksMeetChecks DEF Apply
  <2>2. ASSUME AccountOperation PROVE LedgerOperation
    <3>1. Books'
      BY <1>2, <2>2, OperationBooks
    <3> QED BY <2>2, <3>1, BooksMeetChecks DEF LedgerOperation
  <2> QED BY <1>2, <2>1, <2>2 DEF NextWithoutChecks, NextPurchases, Checkouts, Stripe
<1>3. ASSUME J, [NextPurchases]_purchases
      PROVE  J'
  <2>1. HookInv'
    BY <1>3, TypedNext, EventsTellNext, CopyNext, RowsNext DEF HookInv
  <2>2. Sound' /\ overlap' = overlap
    BY <1>3, SoundNext, OverlapStays DEF Sound
  <2> QED BY <1>3, <2>1, <2>2 DEF Sound
<1> HIDE DEF J
<1>4. J /\ [NextWithoutChecks]_purchases => [NextPurchases]_purchases
  BY <1>2
<1>5. J /\ [NextPurchases]_purchases => J'
  BY <1>3
<1> QED BY <1>1, <1>4, <1>5, PTL DEF SpecWithoutChecks, SpecPurchases

-----------------------------------------------------------------------------
(* The account seen as a prepaid wallet, whether or not operations step    *)
(* inside a handler.  Then the lots no longer agree with the balance, but  *)
(* the counters still are the sums of the live holds, and what a commit    *)
(* may not break, the constraint on the balance, keeps them covered.       *)

Held == HoldsMatchReservations /\ purchased_reserved <= purchased_balance

(* Expiring reservations takes their holds out of the counters.            *)
LEMMA ExpiryHeld ==
  ASSUME TypeOK, HoldsMatchReservations, NEW X, X = Stale({}), status' = StatusExpired(X),
         included_reserved' = IncludedReservedWithout(X),
         purchased_reserved' = PurchasedReservedWithout(X),
         UNCHANGED <<reserved_included, reserved_purchased>>
  PROVE  HoldsMatchReservations'
<1>1. X \in SUBSET Live
  BY StaleIsLive
<1>2. Live' = Live \ X
  BY <1>1, LiveExpired
<1>3. /\ included_reserved' = IncludedHeld(Live \ X)
      /\ purchased_reserved' = PurchasedHeld(Live \ X)
  BY <1>1, CounterExpiry
<1> QED BY <1>2, <1>3, CountersAfter

(* Ending r takes its hold out as well.                                    *)
LEMMA EndHeld ==
  ASSUME TypeOK, HoldsMatchReservations, NEW r \in Requests, status[r] = "reserved",
         NEW X, X = Stale({r}), NEW s \in Terminal, status' = StatusWith(X, r, s),
         included_reserved' = IncludedReservedWithout(X) - reserved_included[r],
         purchased_reserved' = PurchasedReservedWithout(X) - reserved_purchased[r],
         UNCHANGED <<reserved_included, reserved_purchased>>
  PROVE  HoldsMatchReservations'
<1>1. X \in SUBSET Live /\ r \in Live \ X
  BY StaleIsLive DEF Live
<1>2. Live' = Live \ (X \cup {r})
  BY <1>1, LiveWith DEF Terminal
<1>3. /\ included_reserved' = IncludedHeld(Live \ (X \cup {r}))
      /\ purchased_reserved' = PurchasedHeld(Live \ (X \cup {r}))
  BY <1>1, CounterOfMember
<1> QED BY <1>2, <1>3, CountersAfter

(* Leaving the account alone keeps the counters.                           *)
LEMMA IdleHeld ==
  ASSUME Held, UNCHANGED <<balanceVars, status, holdVars>>
  PROVE  Held'
BY DEF Held, HoldsMatchReservations, IncludedHeld, PurchasedHeld, Live, balanceVars, holdVars

(* Every operation of the account keeps the counters, and is a step of the *)
(* wallet.                                                                 *)
LEMMA OperationHeld ==
  ASSUME Counters, AccountOperation
  PROVE  HoldsMatchReservations' /\ [Wallet!Next]_(Wallet!wallet)
<1>0. TypeOK /\ HoldsMatchReservations /\ MaxCredits \in Nat
  BY LedgerAssumption DEF Counters
<1>1. CASE ReleaseStaleReservations
  <2>1. HoldsMatchReservations'
    BY <1>0, <1>1, ExpiryHeld DEF ReleaseStaleReservations, ExpireOnly, holdVars
  <2> QED BY <1>1, <2>1, WalletReleaseStale
<1>2. CASE Claims
  <2>1. PICK r \in Requests, e \in 1..MaxCredits, s \in BOOLEAN : ClaimCreditReservation(r, e, s)
    BY <1>2 DEF Claims
  <2>2. e \in Nat
    BY <1>0
  <2> QED BY <2>1, <2>2, ClaimCounters, WalletClaim
<1>3. CASE \E r \in Requests : ReleaseReservation(r)
  <2>1. PICK r \in Requests : ReleaseReservation(r)
    BY <1>3
  <2>2. PICK X : X = Stale({r})
    OBVIOUS
  <2>3. /\ status[r] = "reserved" /\ status' = StatusWith(X, r, "released")
        /\ included_reserved' = IncludedReservedWithout(X) - reserved_included[r]
        /\ purchased_reserved' = PurchasedReservedWithout(X) - reserved_purchased[r]
        /\ UNCHANGED <<reserved_included, reserved_purchased>>
        /\ "released" \in Terminal
    BY <2>1, <2>2 DEF ReleaseReservation, ReleaseTransaction, holdVars, Terminal
  <2>4. HoldsMatchReservations'
    BY <1>0, <2>2, <2>3, EndHeld
  <2> QED BY <2>1, <2>4, WalletRelease
<1>4. CASE Settlements
  <2>1. PICK r \in Requests, n \in 0..MaxCredits : SettleReservation(r, n)
    BY <1>4 DEF Settlements
  <2>2. PICK X : X = Stale({r})
    OBVIOUS
  <2>3. PICK s : /\ s \in Terminal /\ status' = StatusWith(X, r, s) /\ status[r] = "reserved"
                 /\ included_reserved' = IncludedReservedWithout(X) - reserved_included[r]
                 /\ purchased_reserved' = PurchasedReservedWithout(X) - reserved_purchased[r]
                 /\ UNCHANGED <<reserved_included, reserved_purchased>>
    BY <2>1, <2>2 DEF SettleReservation, SettleTransaction, SettledStatus, holdVars, Terminal
  <2>4. HoldsMatchReservations'
    BY <1>0, <2>2, <2>3, EndHeld
  <2>5. n \in Nat
    BY <1>0
  <2> QED BY <2>1, <2>4, <2>5, WalletSettle
<1>5. CASE \E r \in Requests : TtlElapses(r)
  <2>1. UNCHANGED <<balanceVars, status, holdVars, chargeVars>>
    BY <1>5 DEF TtlElapses
  <2>2. HoldsMatchReservations'
    BY <2>1, IdleHeld DEF Held, Counters
  <2> QED BY <2>1, <2>2 DEF Wallet!wallet, balanceVars, holdVars, chargeVars
<1> QED BY <1>1, <1>2, <1>3, <1>4, <1>5 DEF AccountOperation

(* The balance side of a refund withdraws from the wallet.                 *)
LEMMA TakeBackHeld ==
  ASSUME Counters, NEW l \in Lots, NEW row, NEW t \in Nat, NEW key, TakeBack(l, row, t, key),
         t <= PurchasedAvailable(PurchasedReservedWithout(Stale({})))
  PROVE  HoldsMatchReservations' /\ Wallet!Next
<1>0. PICK X : X = Stale({})
  OBVIOUS
<1>1. /\ status' = StatusExpired(X)
      /\ included_reserved' = IncludedReservedWithout(X)
      /\ purchased_reserved' = PurchasedReservedWithout(X)
      /\ purchased_balance' = purchased_balance - t
      /\ UNCHANGED <<reserved_included, reserved_purchased, settled_purchased>>
  BY <1>0 DEF TakeBack, holdVars, chargeVars
<1>2. HoldsMatchReservations'
  BY <1>0, <1>1, ExpiryHeld DEF Counters
<1>3. Wallet!Next
  BY <1>0, <1>1, WalletTake
<1> QED BY <1>2, <1>3

(* A refund withdraws what it takes, or leaves the wallet alone.           *)
LEMMA RefundHeld ==
  ASSUME HookInv, Counters, NEW e \in sent, Handle(e), e.kind = "refunded"
  PROVE  HoldsMatchReservations' /\ [Wallet!Next]_(Wallet!wallet)
<1> DEFINE l == e.lot
           row == handling.row
           key == <<"refund", l, e.amount>>
<1>w. PICK w : w = IncrementalReversal(row, e.amount)
  OBVIOUS
<1>1. /\ l \in Lots /\ row \in Copies /\ e.amount \in Nat
      /\ \/ w = 0 /\ UNCHANGED ledger
         \/ w > 0 /\ Withhold(l, row, w, e.amount)
         \/ w > 0 /\ Reverse(l, row, w, e.amount)
  BY <1>w, Handles, PurchaseAssumption DEF RefundPurchase, Events
<1>2. TypeOK
  BY DEF Counters
<1>3. w \in Nat
  BY <1>w, <1>1, TargetGrows DEF IncrementalReversal, Copies, Monus
<1> HIDE DEF l, row
<1>4. ASSUME UNCHANGED <<balanceVars, status, holdVars, chargeVars>>
      PROVE  HoldsMatchReservations' /\ [Wallet!Next]_(Wallet!wallet)
  <2>1. HoldsMatchReservations'
    BY <1>4, IdleHeld DEF Held, Counters
  <2> QED BY <1>4, <2>1 DEF Wallet!wallet, balanceVars, holdVars, chargeVars
<1>5. CASE w = 0 /\ UNCHANGED ledger
  BY <1>4, <1>5 DEF ledger
<1>6. CASE Withhold(l, row, w, e.amount)
  <2>1. TakeBack(l, row, 0, key)
    BY <1>6 DEF Withhold
  <2>2. 0 <= PurchasedAvailable(PurchasedReservedWithout(Stale({})))
    <3>1. Stale({}) \in SUBSET Requests
      BY <1>2, StaleIsLive DEF Live
    <3>2. PurchasedReservedWithout(Stale({})) \in Nat /\ purchased_balance \in Nat
      BY <1>2, <3>1, ExpiryTypes DEF TypeOK
    <3> QED BY <3>2 DEF PurchasedAvailable, Monus
  <2> QED BY <1>1, <2>1, <2>2, TakeBackHeld
<1>7. CASE Reverse(l, row, w, e.amount)
  <2>1. PICK t : t = Taken(row, w, key)
    OBVIOUS
  <2>2. /\ t \in Nat /\ t <= PurchasedAvailable(PurchasedReservedWithout(Stale({})))
    BY <1>1, <1>2, <1>3, <2>1, TakenBounds DEF Taken
  <2>3. \/ TakeBack(l, row, t, key)
        \/ UNCHANGED <<balanceVars, status, holdVars, chargeVars>>
    BY <1>7, <2>1 DEF Reverse, Taken
  <2>4. CASE TakeBack(l, row, t, key)
    BY <1>1, <2>2, <2>4, TakeBackHeld
  <2> QED BY <1>4, <2>3, <2>4
<1> QED BY <1>1, <1>5, <1>6, <1>7

(* A confirmed payment is a deposit, or leaves the wallet alone.           *)
LEMMA FulfilHeld ==
  ASSUME HookInv, Counters, NEW e \in sent, Handle(e), e.kind \in Paying
  PROVE  HoldsMatchReservations' /\ [Wallet!Next]_(Wallet!wallet)
<1> DEFINE l == e.lot
           row == handling.row
<1>c. PICK c : c = CreditsToGrant(row)
  OBVIOUS
<1>1. /\ l \in Lots /\ row \in Copies /\ Fulfil(l, row)
  BY Handles
<1>2. c \in Nat
  BY <1>c, <1>1, PurchaseAssumption DEF CreditsToGrant, Copies, Monus
<1> HIDE DEF l, row
<1>3. AddPurchasedCredits(l, c) \/ UNCHANGED ledger
  BY <1>c, <1>1 DEF Fulfil
<1>4. CASE AddPurchasedCredits(l, c)
  <2>1. HoldsMatchReservations'
    BY <1>4, ExpiryHeld DEF Counters, AddPurchasedCredits, ExpireOnly, holdVars
  <2> QED BY <1>1, <1>2, <1>4, <2>1, WalletGrant
<1>5. CASE UNCHANGED ledger
  <2>1. UNCHANGED <<balanceVars, status, holdVars, chargeVars>>
    BY <1>5 DEF ledger
  <2>2. HoldsMatchReservations'
    BY <2>1, IdleHeld DEF Held, Counters
  <2> QED BY <2>1, <2>2 DEF Wallet!wallet, balanceVars, holdVars, chargeVars
<1> QED BY <1>3, <1>4, <1>5

(* Every step of the system keeps the counters and is a step of the wallet *)
(* or leaves it alone.                                                     *)
LEMMA HeldNext ==
  ASSUME HookInv, Held, [NextPurchases]_purchases
  PROVE  Held' /\ [Wallet!Next]_(Wallet!wallet)
<1>1. Counters
  BY DEF Counters, Held, HookInv, Typed
<1>2. ASSUME UNCHANGED ledger
      PROVE  Held' /\ [Wallet!Next]_(Wallet!wallet)
  <2>1. UNCHANGED <<balanceVars, status, holdVars, chargeVars>>
    BY <1>2 DEF ledger
  <2>2. Held'
    BY <2>1, IdleHeld
  <2> QED BY <2>1, <2>2 DEF Wallet!wallet, balanceVars, holdVars, chargeVars
<1>3. CASE LedgerOperation
  BY <1>1, <1>3, OperationHeld DEF LedgerOperation, CheckConstraints, Held
<1>4. CASE Checkouts \/ Stripe \/ Abort \/ UNCHANGED purchases \/ \E e \in sent : Deliver(e)
  <2>1. UNCHANGED ledger
    BY <1>4 DEF Checkouts, CreateCheckout, CheckoutReady, CheckoutFailed, Stripe, Pay, StripeMoves,
                RefundCharge, SendAgain, Abort, Deliver, purchases
  <2> QED BY <1>2, <2>1
<1>5. ASSUME NEW e \in sent, Apply(e)
      PROVE  Held' /\ [Wallet!Next]_(Wallet!wallet)
  <2>1. /\ Handle(e) /\ purchased_reserved' <= purchased_balance'
    BY <1>5 DEF Apply, CheckConstraints
  <2>2. /\ e.kind \in Kinds
        /\ e.kind = "completed_unpaid" => AwaitPayment(e.lot, handling.row)
        /\ e.kind = "async_payment_failed" => MarkFailed(e.lot, handling.row)
    BY <2>1, Handles DEF Events
  <2>3. CASE e.kind \in {"completed_unpaid", "async_payment_failed"}
    <3>1. UNCHANGED ledger
      BY <2>2, <2>3 DEF AwaitPayment, MarkFailed
    <3> QED BY <1>2, <3>1
  <2>4. CASE e.kind = "refunded"
    BY <1>1, <2>1, <2>4, RefundHeld DEF Held
  <2>5. CASE e.kind \in Paying
    BY <1>1, <2>1, <2>5, FulfilHeld DEF Held
  <2> QED BY <2>2, <2>3, <2>4, <2>5 DEF Kinds, Paying
<1> QED BY <1>3, <1>4, <1>5 DEF NextPurchases, Checkouts, Stripe

(* The account with the webhook on top of it still implements the prepaid  *)
(* wallet, also when operations step inside a handler: grants and refunds  *)
(* computed from a stale copy of the lot never take purchased credits that *)
(* a live request holds, and each request opens and closes once.           *)
THEOREM PurchasesImplementWallet == SpecPurchases => ImplementsWallet
<1>1. InitPurchases => Held /\ Wallet!Init
  <2>1. ASSUME Init PROVE Held /\ Wallet!Init
    <3>1. Books
      BY <2>1, InitInv DEF IInv
    <3> QED BY <2>1, <3>1, WalletInit DEF Books, Held, ReservedIsCovered
  <2> QED BY <2>1 DEF InitPurchases
<1>2. HookInv /\ Held /\ [NextPurchases]_purchases
        => Held' /\ [Wallet!Next]_(Wallet!wallet)
  BY HeldNext
<1> QED BY <1>1, <1>2, HookInvariance, PTL DEF SpecPurchases, ImplementsWallet, Wallet!Spec

(* A handler charges no request and ends none but the stale ones.          *)
LEMMA HandleCharges ==
  ASSUME HookInv, NEW e \in sent, Handle(e)
  PROVE  /\ UNCHANGED chargeVars
         /\ UNCHANGED status \/ status' = StatusExpired(Stale({}))
<1> DEFINE l == e.lot
           row == handling.row
<1>1. /\ e.kind \in Kinds
      /\ e.kind = "completed_unpaid" => AwaitPayment(l, row)
      /\ e.kind = "async_payment_failed" => MarkFailed(l, row)
      /\ e.kind = "refunded" => RefundPurchase(l, row, e.amount)
      /\ e.kind \in Paying => Fulfil(l, row)
  BY Handles DEF Events
<1> HIDE DEF l, row
<1>2. CASE UNCHANGED ledger
  BY <1>2 DEF ledger
<1>3. CASE RefundPurchase(l, row, e.amount)
  <2>1. PICK w : UNCHANGED ledger \/ Withhold(l, row, w, e.amount) \/ Reverse(l, row, w, e.amount)
    BY <1>3 DEF RefundPurchase
  <2>2. ASSUME NEW t, NEW key, TakeBack(l, row, t, key)
        PROVE  UNCHANGED chargeVars /\ status' = StatusExpired(Stale({}))
    BY <2>2 DEF TakeBack
  <2>3. CASE Withhold(l, row, w, e.amount)
    BY <2>2, <2>3 DEF Withhold
  <2>4. CASE Reverse(l, row, w, e.amount)
    <3>1. PICK t, key : \/ TakeBack(l, row, t, key)
                        \/ UNCHANGED <<balanceVars, status, holdVars, chargeVars>>
      BY <2>4 DEF Reverse
    <3> QED BY <2>2, <3>1
  <2> QED BY <1>2, <2>1, <2>3, <2>4
<1>4. CASE Fulfil(l, row)
  <2>1. UNCHANGED ledger \/ AddPurchasedCredits(l, CreditsToGrant(row))
    BY <1>4 DEF Fulfil
  <2> QED BY <1>2, <2>1 DEF AddPurchasedCredits, ExpireOnly
<1>5. AwaitPayment(l, row) \/ MarkFailed(l, row) => UNCHANGED ledger
  BY DEF AwaitPayment, MarkFailed
<1> QED BY <1>1, <1>2, <1>3, <1>4, <1>5 DEF Kinds, Paying

(* The webhook neither charges a request nor touches one that has ended,   *)
(* also when operations step inside its handlers: with it on top of the    *)
(* account a request is still billed at most once.                         *)
THEOREM PurchasesChargeOnce == SpecPurchases => ChargedOnce
<1>1. ASSUME HookInv, [NextPurchases]_purchases
      PROVE  [ChargeKept]_ledger
  <2>1. TypeOK
    BY <1>1 DEF HookInv, Typed
  <2>2. CASE UNCHANGED ledger
    BY <2>2
  <2>3. CASE LedgerOperation
    <3>1. Next
      BY <2>3 DEF LedgerOperation, AccountOperation, Next
    <3> QED BY <2>1, <3>1, StepKeepsCharges
  <2>4. ASSUME NEW e \in sent, Apply(e) PROVE ChargeKept
    <3>1. /\ UNCHANGED <<settled_included, settled_purchased>>
          /\ UNCHANGED status \/ status' = StatusExpired(Stale({}))
      BY <1>1, <2>4, HandleCharges DEF Apply, chargeVars
    <3>2. \A r \in Requests : status[r] \in Terminal => r \notin Stale({})
      BY DEF Stale, Terminal
    <3> QED BY <3>1, <3>2 DEF ChargeKept, StatusExpired
  <2>5. CASE Checkouts \/ Stripe \/ Abort \/ UNCHANGED purchases \/ \E e \in sent : Deliver(e)
    BY <2>5 DEF Checkouts, CreateCheckout, CheckoutReady, CheckoutFailed, Stripe, Pay, StripeMoves,
                RefundCharge, SendAgain, Abort, Deliver, purchases
  <2> QED BY <1>1, <2>3, <2>4, <2>5 DEF NextPurchases, Checkouts, Stripe
<1>2. HookInv /\ [NextPurchases]_purchases => [ChargeKept]_ledger
  BY <1>1
<1>3. SpecPurchases => [][ChargeKept]_ledger
  BY <1>2, HookInvariance, PTL DEF SpecPurchases
<1> QED BY <1>3 DEF ChargedOnce, ChargeKept
=============================================================================
