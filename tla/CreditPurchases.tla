-------------------------- MODULE CreditPurchases --------------------------
(***************************************************************************)
(* Credit packs sold through Stripe Checkout, and the webhook that grants  *)
(* and takes back their credits (backend/app/services/billing_service.py), *)
(* on top of the credit account of CreditLedger.                           *)
(*                                                                         *)
(* The webhook endpoint runs on the event loop, so one handler runs at a   *)
(* time.  It reads the purchase row first (Deliver) and takes the          *)
(* company's credit lock later (Apply), and the session never refreshes    *)
(* the row: what the handler writes, it computes from that copy.  Between  *)
(* the two, the endpoints that run in the thread pool may claim, settle,   *)
(* release and expire; overlap, fixed at the start, says whether they do.   *)
(***************************************************************************)
EXTENDS CreditLedger

CONSTANTS
  PackSize,    \* credits of the pack
  Price,       \* what the customer pays for it
  Overlaps,    \* the values of overlap a run starts with
  Idle         \* no handler is running

ASSUME PurchaseAssumption ==
  /\ PackSize \in Nat \ {0}
  /\ Price \in Nat \ {0}
  /\ Overlaps \subseteq BOOLEAN

VARIABLES
  purchase_status,           \* AICreditPurchase.status, "none" if no row
  refunded_amount,
  refund_shortfall_credits,
  payment,                   \* the payment at Stripe
  stripe_refunded,           \* amount Stripe has refunded so far
  sent,                      \* events Stripe sends, in no order, until 200
  processed,                 \* rows of stripe_webhook_events
  handling,                  \* the running handler: its event and its copy
  overlap                    \* ledger operations may step inside a handler

rowVars    == <<purchase_status, refunded_amount, refund_shortfall_credits>>
stripeVars == <<payment, stripe_refunded, sent>>
hookVars   == <<processed, handling, overlap>>
purchases  == <<ledger, rowVars, stripeVars, hookVars>>

InitPurchases ==
  /\ Init
  /\ purchase_status = [l \in Lots |-> "none"]
  /\ refunded_amount = [l \in Lots |-> 0]
  /\ refund_shortfall_credits = [l \in Lots |-> 0]
  /\ payment = [l \in Lots |-> "none"]
  /\ stripe_refunded = [l \in Lots |-> 0]
  /\ sent = {} /\ processed = {} /\ handling = Idle
  /\ overlap \in Overlaps

-----------------------------------------------------------------------------
(* create_credit_checkout: the row is committed before Stripe is called; a *)
(* crash in between leaves it "creating".                                  *)

CreateCheckout(l) ==
  /\ purchase_status[l] = "none"
  /\ \A k \in 1..(l - 1) : purchase_status[k] # "none"
  /\ purchase_status' = [purchase_status EXCEPT ![l] = "creating"]
  /\ UNCHANGED <<ledger, refunded_amount, refund_shortfall_credits,
                 stripeVars, hookVars>>

CheckoutReady(l) ==
  /\ purchase_status[l] = "creating"
  /\ purchase_status' = [purchase_status EXCEPT ![l] = "pending"]
  /\ payment' = [payment EXCEPT ![l] = "open"]
  /\ UNCHANGED <<ledger, refunded_amount, refund_shortfall_credits,
                 stripe_refunded, sent, hookVars>>

CheckoutFailed(l) ==
  /\ purchase_status[l] = "creating"
  /\ purchase_status' = [purchase_status EXCEPT ![l] = "checkout_failed"]
  /\ UNCHANGED <<ledger, refunded_amount, refund_shortfall_credits,
                 stripeVars, hookVars>>

-----------------------------------------------------------------------------
(* Stripe.  An event carries its kind, its lot and, for a refund, the       *)
(* cumulative amount; `again` tells apart two events of the same content.   *)

Event(kind, l, amount) == [kind |-> kind, lot |-> l, amount |-> amount, again |-> FALSE]

StripeMoves(l, from, to, kind) ==
  /\ payment[l] = from
  /\ payment' = [payment EXCEPT ![l] = to]
  /\ sent' = sent \cup {Event(kind, l, 0)}
  /\ UNCHANGED <<ledger, rowVars, stripe_refunded, hookVars>>

Pay(l) == \/ StripeMoves(l, "open", "paid", "completed_paid")
          \/ StripeMoves(l, "open", "processing", "completed_unpaid")
          \/ StripeMoves(l, "processing", "paid", "async_payment_succeeded")
          \/ StripeMoves(l, "processing", "failed", "async_payment_failed")

RefundCharge(l, amount) ==
  /\ payment[l] = "paid"
  /\ amount > stripe_refunded[l]
  /\ stripe_refunded' = [stripe_refunded EXCEPT ![l] = amount]
  /\ sent' = sent \cup {Event("refunded", l, amount)}
  /\ UNCHANGED <<ledger, rowVars, payment, hookVars>>

SendAgain(e) ==
  /\ e.kind \in {"completed_paid", "refunded"}
  /\ [e EXCEPT !.again = TRUE] \notin sent
  /\ sent' = sent \cup {[e EXCEPT !.again = TRUE]}
  /\ UNCHANGED <<ledger, rowVars, payment, stripe_refunded, hookVars>>

-----------------------------------------------------------------------------
(* process_webhook.                                                        *)

ReadRow(l) == [status    |-> purchase_status[l],
               granted   |-> credits_granted[l],
               remaining |-> credits_remaining[l],
               reserved  |-> credits_reserved[l],
               reversed  |-> credits_reversed[l],
               shortfall |-> refund_shortfall_credits[l],
               refunded  |-> refunded_amount[l]]

(* The event is new and the handler has read its purchase row.              *)
Deliver(e) ==
  /\ handling = Idle
  /\ e \notin processed
  /\ handling' = [event |-> e, row |-> ReadRow(e.lot)]
  /\ UNCHANGED <<ledger, rowVars, stripeVars, processed, overlap>>

(* An exception, a crash or a CHECK violation rolls everything back; the    *)
(* endpoint answers 400 and Stripe sends the event again.                   *)
Abort ==
  /\ handling # Idle
  /\ handling' = Idle
  /\ UNCHANGED <<ledger, rowVars, stripeVars, processed, overlap>>

(* The session writes a column only if its value differs from the copy.     *)
Write(column, l, read, new) ==
  [column EXCEPT ![l] = IF new = read THEN @ ELSE new]

SetStatus(l, row, s) == purchase_status' = Write(purchase_status, l, row.status, s)

(* The CHECK constraints of the balance and purchase tables, tested on what *)
(* a transaction is about to commit.                                        *)
CheckConstraints ==
  /\ included_reserved >= 0 /\ purchased_reserved >= 0 /\ purchased_balance >= 0
  /\ purchased_reserved <= purchased_balance
  /\ \A l \in Lots : credits_remaining[l] >= 0 /\ credits_reserved[l] <= credits_remaining[l]

(* checkout.session.completed that is not paid yet.                         *)
AwaitPayment(l, row) ==
  /\ SetStatus(l, row, IF row.status \in {"creating", "pending"} THEN "pending_payment"
                       ELSE row.status)
  /\ UNCHANGED <<ledger, refunded_amount, refund_shortfall_credits>>

GrantWholePack(row) == PackSize   \* mutant
CreditsToGrant(row) == Monus(PackSize, row.reversed)

AlreadyFulfilled(row) == row.granted > 0 \/ row.status = "refunded"

FulfilOrRaise(l, row) ==   \* mutant
  /\ ~AlreadyFulfilled(row)
  /\ AddPurchasedCredits(l, PackSize)
  /\ SetStatus(l, row, "paid")
  /\ UNCHANGED <<refunded_amount, refund_shortfall_credits>>

(* A confirmed payment: the pack, less what a refund already took back.     *)
Fulfil(l, row) ==
  IF AlreadyFulfilled(row)
  THEN UNCHANGED <<ledger, rowVars>>
  ELSE /\ IF CreditsToGrant(row) > 0
          THEN AddPurchasedCredits(l, CreditsToGrant(row))
          ELSE UNCHANGED ledger
       /\ SetStatus(l, row, IF row.refunded > 0 THEN "partially_refunded" ELSE "paid")
       /\ UNCHANGED <<refunded_amount, refund_shortfall_credits>>

MarkFailed(l, row) ==
  /\ SetStatus(l, row, IF row.granted = 0 /\ row.status # "refunded" THEN "failed"
                       ELSE row.status)
  /\ UNCHANGED <<ledger, refunded_amount, refund_shortfall_credits>>

-----------------------------------------------------------------------------
(* charge.refunded.                                                        *)

(* The credits a refund of `amount` takes back, rounded up.                 *)
TargetReversal(amount) == (PackSize * amount + Price - 1) \div Price

IncrementalReversal(row, amount) ==
  Monus(TargetReversal(amount), row.reversed + row.shortfall)

Reversible(row, wanted) == Least(wanted, Monus(row.remaining, row.reserved))

LotsNotExpired(l, row, X) == credits_reserved   \* mutant

(* The lot's reserved column after the expiry of X, which works on the      *)
(* handler's copy of this lot.                                              *)
LotsReservedAround(l, row, X) ==
  [LotsReservedWithout(X) EXCEPT ![l] =
     Write(credits_reserved, l, row.reserved, Monus(row.reserved, LotHeld(X, l)))[l]]

(* The balance side of a refund: stale reservations expire and `taken`      *)
(* purchased credits go.                                                    *)
TakeBack(l, row, taken, key) ==
  LET X == Stale({})
  IN /\ included_reserved' = IncludedReservedWithout(X)
     /\ purchased_reserved' = PurchasedReservedWithout(X)
     /\ credits_reserved' = LotsReservedAround(l, row, X)
     /\ status' = StatusExpired(X)
     /\ purchased_balance' = purchased_balance - taken
     /\ Post(X, 0, -taken, 0, 0)
     /\ ledger_keys' = ledger_keys \cup {key}
     /\ UNCHANGED <<monthly_period, monthly_used, holdVars, chargeVars,
                    credits_granted, limit, aged>>

(* record_credit_event: nothing was granted yet, the refund is remembered   *)
(* for the grant to withhold.                                               *)
Withhold(l, row, wanted, amount) ==
  /\ TakeBack(l, row, 0, <<"refund", l, amount>>)
  /\ credits_reversed' = Write(credits_reversed, l, row.reversed, row.reversed + wanted)
  /\ UNCHANGED <<credits_remaining, refund_shortfall_credits>>

(* reverse_purchased_credits, then the lot fields from the copy; what the   *)
(* refund cannot take back is a shortfall for review.                       *)
Reverse(l, row, wanted, amount) ==
  LET requested == Reversible(row, wanted)
      key       == <<"refund", l, amount>>
      taken     == IF requested > 0 /\ NotPosted(key)
                   THEN Least(requested, PurchasedAvailable(PurchasedReservedWithout(Stale({}))))
                   ELSE 0
  IN /\ IF requested > 0
        THEN TakeBack(l, row, taken, key)
        ELSE UNCHANGED <<balanceVars, status, holdVars, chargeVars, credits_granted,
                         credits_reserved, ledgerVars, limit, aged>>
     /\ credits_remaining' = Write(credits_remaining, l, row.remaining, row.remaining - taken)
     /\ credits_reversed' = Write(credits_reversed, l, row.reversed, row.reversed + taken)
     /\ refund_shortfall_credits' =
          [refund_shortfall_credits EXCEPT ![l] = row.shortfall + wanted - taken]

LargerRefund(a, b) == IF a > b THEN a ELSE b

LastRefundSeen(row, amount) == amount   \* mutant
RefundedSoFar(row, amount) == LargerRefund(row.refunded, amount)

RefundStatus(refunded, shortfall) ==
  IF shortfall > 0 THEN "refund_review"
  ELSE IF refunded = Price THEN "refunded" ELSE "partially_refunded"

RefundPurchase(l, row, amount) ==
  LET wanted   == IncrementalReversal(row, amount)
      refunded == RefundedSoFar(row, amount)
  IN /\ \/ wanted = 0 /\ UNCHANGED <<ledger, refund_shortfall_credits>>
        \/ wanted > 0 /\ row.granted = 0 /\ Withhold(l, row, wanted, amount)
        \/ wanted > 0 /\ row.granted > 0 /\ Reverse(l, row, wanted, amount)
     /\ refunded_amount' = [refunded_amount EXCEPT ![l] = refunded]
     /\ SetStatus(l, row, RefundStatus(refunded, refund_shortfall_credits'[l]))

(* The rest of the handler, from the credit lock to its one commit.         *)
Handle(e) ==
  /\ handling # Idle
  /\ handling.event = e
  /\ LET l == e.lot  row == handling.row
     IN CASE e.kind = "completed_unpaid"     -> AwaitPayment(l, row)
          [] e.kind = "async_payment_failed" -> MarkFailed(l, row)
          [] e.kind = "refunded"             -> RefundPurchase(l, row, e.amount)
          [] OTHER                           -> Fulfil(l, row)
  /\ processed' = processed \cup {e}
  /\ handling' = Idle
  /\ UNCHANGED <<stripeVars, overlap>>

Apply(e) == Handle(e) /\ CheckConstraints'

-----------------------------------------------------------------------------
(* The other users of the credit account.                                  *)

AccountOperation ==
  /\ \/ ReleaseStaleReservations
     \/ Claims
     \/ \E r \in Requests : ReleaseReservation(r)
     \/ Settlements
     \/ \E r \in Requests : TtlElapses(r)
  /\ overlap \/ handling = Idle
  /\ UNCHANGED <<rowVars, stripeVars, hookVars>>

LedgerOperation == AccountOperation /\ CheckConstraints'

NextPurchases ==
  \/ \E l \in Lots : CreateCheckout(l) \/ CheckoutReady(l) \/ CheckoutFailed(l)
  \/ \E l \in Lots : Pay(l)
  \/ \E l \in Lots, n \in 1..Price : RefundCharge(l, n)
  \/ \E e \in sent : SendAgain(e) \/ Deliver(e) \/ Apply(e)
  \/ Abort
  \/ LedgerOperation

SpecPurchases == InitPurchases /\ [][NextPurchases]_purchases

(* Stripe sends an event again until it is answered 200, and handlers that  *)
(* can commit are not aborted every time.                                   *)
FairSpecPurchases ==
  /\ SpecPurchases
  /\ WF_purchases(\E e \in sent : Deliver(e))
  /\ SF_purchases(\E e \in sent : Apply(e))
-----------------------------------------------------------------------------
(* Properties.                                                             *)

Quiet(l) == \A e \in sent : e.lot = l => e \in processed
Granted  == {l \in Lots : credits_granted[l] > 0}

(* The columns and the events have their types.                             *)
PurchasesTypeOK ==
  /\ TypeOK
  /\ refunded_amount \in [Lots -> 0..Price]
  /\ refund_shortfall_credits \in [Lots -> 0..PackSize]
  /\ processed \subseteq sent
  /\ handling = Idle \/ handling.event \in sent

(* A pack is granted once and only once it is paid for: whatever events     *)
(* arrive, in whatever order and however often, the packs granted are the   *)
(* credits in the balance, those refunds took back and those requests used. *)
PackAccounted ==
  /\ \A l \in Granted : payment[l] = "paid"
  /\ PackSize * Cardinality(Granted) =
       purchased_balance + Total([l \in Granted |-> credits_reversed[l]])
                         + Total(settled_purchased)

(* The order in which Stripe's events arrive does not matter.  Every refund *)
(* is handled exactly once: the credits taken back or flagged for review    *)
(* are those of the largest refund whose event was processed; and once all  *)
(* events have been, the purchase's status is what Stripe says of its       *)
(* payment.                                                                 *)
RefundsHandled ==
  \A l \in Lots :
    /\ credits_reversed[l] + refund_shortfall_credits[l] = TargetReversal(refunded_amount[l])
    /\ \A e \in processed :
         e.lot = l /\ e.kind = "refunded" => e.amount <= refunded_amount[l]
    /\ Quiet(l) /\ handling = Idle =>
         CASE payment[l] = "paid" /\ stripe_refunded[l] = 0 -> purchase_status[l] = "paid"
           [] payment[l] = "paid" /\ stripe_refunded[l] > 0 ->
                purchase_status[l] = RefundStatus(stripe_refunded[l], refund_shortfall_credits[l])
           [] payment[l] = "processing" -> purchase_status[l] = "pending_payment"
           [] payment[l] = "failed"     -> purchase_status[l] = "failed"
           [] OTHER -> TRUE

(* A refunded pack is worth nothing, unless an operation steps inside the   *)
(* handler: the lots sum to the balance, and what may still be spent of a   *)
(* lot is the part not refunded and the part flagged for review.            *)
RefundedCreditsGone ==
  ~overlap =>
    /\ LotsMatchBalance
    /\ \A l \in Granted :
         credits_remaining[l] <= PackSize - TargetReversal(refunded_amount[l])
                                   + refund_shortfall_credits[l]

(* No order of events leaves one that can never be processed, unless an     *)
(* operation steps inside the handler: every event Stripe sends is          *)
(* processed in the end, no event's writes break a CHECK constraint for ever.*)
EveryEventProcessed == []<>(overlap \/ sent \subseteq processed)
=============================================================================
