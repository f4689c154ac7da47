---------------------------- MODULE BillingAccount ----------------------------
(***************************************************************************)
(* A company's subscription and invoices (billing_service.py): checkouts   *)
(* and the portal at Stripe, and the webhook events that carry Stripe's    *)
(* state back.  A handler reads the account when it starts and commits at  *)
(* the end only the columns it found different (SQLAlchemy's unit of work).*)
(***************************************************************************)
EXTENDS Naturals, FiniteSets, Sequences

CONSTANTS
  Plans,        \* plans that have a Stripe price
  Requests,     \* requests of the company's users
  Alone,        \* the one that acts when users do not overlap
  Handlers,     \* webhook deliveries handled at once
  MaxSubs,      \* bound on the subscriptions ever paid
  MaxSessions,  \* bound on the checkout sessions opened
  MaxPeriods,   \* bound on the billing periods
  MaxEvents,    \* bound on Stripe's events
  Profiles,     \* the values of profile a behaviour starts with
  Bound         \* for each of them, bound on the events, and plans asked for

ASSUME BillingAssumption ==
  /\ {MaxSubs, MaxSessions, MaxPeriods, MaxEvents} \subseteq Nat \ {0}
  /\ Bound \in [Profiles -> [events : 0..MaxEvents, plans : SUBSET Plans]]
  /\ Alone \in Requests
  /\ Profiles \subseteq SUBSET {"reordered", "old session", "failure", "users", "overtaken"}

None == 0
Subs == 1..MaxSubs
Periods == 1..MaxPeriods

VARIABLES
  request,    \* where a user's request is, and what it goes on with
  customers,  \* customers created at Stripe
  sessions,   \* checkout sessions: customer, plan, open
  remote,     \* subscriptions at Stripe
  month,      \* Stripe's current period
  log,        \* Stripe's events
  processed,  \* rows of stripe_webhook_events
  handler,    \* event of a handler, and the account and invoices it read
  account,    \* the row of billing_accounts
  invoice,    \* billing_invoices: status, and whether email_sent_at is set
  period,     \* monthly_period of the credit balance
  renewals,   \* resets of the included credits for a period
  emails,     \* paid-invoice e-mails sent for a period
  profile     \* what may happen in this behaviour:
              \*   "reordered":   events are handled in any order and at once
              \*   "old session": a session is paid after a newer one was asked for
              \*   "failure":     a handler's commit fails; Stripe delivers again
              \*   "users":       requests of several users overlap
              \*   "overtaken":   a handler commits between what a request heard
              \*                  from Stripe and what it writes of it

stripe == <<customers, sessions, remote, month, log>>
local  == <<processed, account, invoice, period, renewals>>
effects == <<emails, profile>>
vars   == <<request, stripe, handler, local, effects>>

unlisted == [p \in Periods |-> "none"]
free == [pc |-> "idle", locked |-> FALSE, plan |-> None, customer |-> None, sub |-> None,
         status |-> "none", ending |-> FALSE, list |-> unlisted, read |-> unlisted]
waiting == [event |-> None]

Init ==
  /\ request = [r \in Requests |-> free]
  /\ customers = 0
  /\ sessions = <<>>
  /\ remote = [s \in Subs |-> [status |-> "none", plan |-> None, ending |-> FALSE,
                               customer |-> None]]
  /\ month = 1
  /\ log = <<>>
  /\ processed = {}
  /\ handler = [h \in Handlers |-> waiting]
  /\ account = [customer |-> None, sub |-> None, status |-> "none", plan |-> None,
                ending |-> FALSE]
  /\ invoice = [p \in Periods |-> [status |-> "none", emailed |-> FALSE]]
  /\ period = 0
  /\ renewals = [p \in Periods |-> 0]
  /\ emails = [p \in Periods |-> 0]
  /\ profile \in Profiles

Entitled(s) == remote[s].status \in {"active", "past_due"}

-----------------------------------------------------------------------------
(* Stripe                                                                  *)

SubEvent(s, now) == [kind |-> "subscription", sub |-> s, status |-> now.status,
                     plan |-> now.plan, ending |-> now.ending, customer |-> now.customer]
InvoiceEvent(p, outcome, k) ==
  [kind |-> "invoice", period |-> p, status |-> outcome, customer |-> k]

(* A checkout has found no subscription and has yet to open its session.   *)
Opening == \E r \in Requests : request[r].pc = "opening"

Room(n) == Len(log) + n <= MaxEvents /\ Len(log) + n <= Bound[profile].events

Update(s, now) ==
  /\ remote' = [remote EXCEPT ![s] = now]
  /\ log' = Append(log, SubEvent(s, now))

Pay(i) ==
  LET new == {s \in Subs : remote[s].status = "none"}
      now == [status |-> "active", plan |-> sessions[i].plan, ending |-> FALSE,
              customer |-> sessions[i].customer] IN
  /\ Room(2)
  /\ sessions[i].open
  /\ "old session" \in profile \/ (i = Len(sessions) /\ ~Opening)
  /\ \E s \in new :
       /\ \A t \in new : s <= t
       /\ remote' = [remote EXCEPT ![s] = now]
       /\ log' = log \o <<SubEvent(s, now), InvoiceEvent(month, "paid", now.customer)>>
  /\ sessions' = [sessions EXCEPT ![i].open = FALSE]
  /\ UNCHANGED <<request, customers, month, handler, local, effects>>

Ends(s) ==
  /\ Room(1) /\ Entitled(s)
  /\ Update(s, [remote[s] EXCEPT !.status = "canceled"])
  /\ UNCHANGED <<request, customers, sessions, month, handler, local, effects>>

(* The next period's invoice is paid, or its payment fails.                *)
Renews(s) ==
  /\ Room(2) /\ remote[s].status = "active"
  /\ month < MaxPeriods
  /\ month' = month + 1
  /\ \/ /\ log' = Append(log, InvoiceEvent(month + 1, "paid", remote[s].customer))
        /\ UNCHANGED remote
     \/ LET now == [remote[s] EXCEPT !.status = "past_due"] IN
        /\ remote' = [remote EXCEPT ![s] = now]
        /\ log' = log \o <<InvoiceEvent(month + 1, "open", now.customer), SubEvent(s, now)>>
  /\ UNCHANGED <<request, customers, sessions, handler, local, effects>>

Recovers(s) ==
  LET now == [remote[s] EXCEPT !.status = "active"] IN
  /\ Room(2) /\ remote[s].status = "past_due"
  /\ remote' = [remote EXCEPT ![s] = now]
  /\ log' = log \o <<InvoiceEvent(month, "paid", now.customer), SubEvent(s, now)>>
  /\ UNCHANGED <<request, customers, sessions, month, handler, local, effects>>

(* Stripe says the same of an invoice again (payment_succeeded, updated).  *)
Repeats(e) ==
  /\ Room(1) /\ log[e].kind = "invoice"
  /\ \A d \in DOMAIN log : (d > e /\ log[d].kind = "invoice") => log[d].period # log[e].period
  /\ log' = Append(log, log[e])
  /\ UNCHANGED <<request, customers, sessions, remote, month, handler, local, effects>>

-----------------------------------------------------------------------------
(* The endpoints                                                           *)

NoRequest == \A r \in Requests : request[r].pc = "idle"
MayRequest(r) == request[r].pc = "idle" /\ ("users" \in profile \/ r = Alone)

Goes(r, now) == request' = [request EXCEPT ![r] = now]

(* FOR UPDATE of create_checkout, up to its commit or the request's end.   *)
Locked == \E r \in Requests : request[r].locked
MayWrite(r) == request[r].locked \/ ~Locked

MayCheckout == account.sub = None \/ account.status = "canceled"

AlwaysCreate == FALSE   \* mutant
HasCustomer == account.customer # None

(* get_active_subscription                                                 *)
NothingFound(k) == {}   \* mutant
ActiveOf(k) == {s \in Subs : Entitled(s) /\ remote[s].customer = k}

Found(s, locked) == [free EXCEPT !.pc = "linking", !.locked = locked, !.sub = s,
                                 !.status = remote[s].status]

(* The row is locked; a customer there is asked for at Stripe.             *)
Checkout(r, p) ==
  /\ MayRequest(r) /\ p \in Bound[profile].plans
  /\ ~Locked /\ MayCheckout
  /\ IF ~HasCustomer
     THEN Goes(r, [free EXCEPT !.pc = "checkout", !.locked = TRUE, !.plan = p])
     ELSE \/ \E s \in ActiveOf(account.customer) : Goes(r, Found(s, TRUE))
          \/ /\ ActiveOf(account.customer) = {}
             /\ Goes(r, [free EXCEPT !.pc = "opening", !.locked = TRUE, !.plan = p,
                                     !.customer = account.customer])
  /\ UNCHANGED <<stripe, handler, local, effects>>

Portal(r) ==
  /\ MayRequest(r)
  /\ IF ~HasCustomer
     THEN Goes(r, [free EXCEPT !.pc = "portal"])
     ELSE /\ account.sub = None
          /\ Goes(r, [free EXCEPT !.pc = "asking", !.customer = account.customer])
  /\ UNCHANGED <<stripe, handler, local, effects>>

(* The portal's question to Stripe; it holds no lock.                      *)
Ask(r) ==
  LET k == request[r].customer IN
  /\ request[r].pc = "asking"
  /\ \/ \E s \in ActiveOf(k) : Goes(r, Found(s, FALSE))
     \/ ActiveOf(k) = {} /\ Goes(r, free)
  /\ UNCHANGED <<stripe, handler, local, effects>>

(* The subscription that was found is committed to the account.            *)
Link(r) ==
  /\ request[r].pc = "linking" /\ MayWrite(r)
  /\ account' = [account EXCEPT !.sub = request[r].sub, !.status = request[r].status]
  /\ Goes(r, free)
  /\ UNCHANGED <<stripe, handler, processed, invoice, period, renewals, effects>>

(* A new customer is committed to the account, whatever it holds by then;   *)
(* the commit ends the lock.                                               *)
CreateCustomer(r) ==
  LET k == customers + 1 IN
  /\ request[r].pc \in {"checkout", "portal"} /\ MayWrite(r)
  /\ customers' = k
  /\ account' = [account EXCEPT !.customer = k]
  /\ IF request[r].pc = "checkout"
     THEN Goes(r, [free EXCEPT !.pc = "opening", !.plan = request[r].plan, !.customer = k])
     ELSE Goes(r, [free EXCEPT !.pc = "asking", !.customer = k])
  /\ UNCHANGED <<sessions, remote, month, log, handler, processed, invoice, period, renewals,
                 effects>>

(* A session is opened unless Stripe refuses, or answers with that of the   *)
(* same idempotency key: the price, for five minutes.                      *)
OpenSession(k, p) ==
  \/ /\ Len(sessions) < MaxSessions
     /\ sessions' = Append(sessions, [customer |-> k, plan |-> p, open |-> TRUE])
  \/ UNCHANGED sessions

Open(r) ==
  /\ request[r].pc = "opening"
  /\ OpenSession(request[r].customer, request[r].plan)
  /\ Goes(r, free)
  /\ UNCHANGED <<customers, remote, month, log, handler, local, effects>>

ChangePlan(p) ==
  /\ Room(1) /\ p \in Bound[profile].plans
  /\ account.sub # None /\ Entitled(account.sub)
  /\ p # remote[account.sub].plan
  /\ Update(account.sub, [remote[account.sub] EXCEPT !.plan = p])
  /\ UNCHANGED <<request, customers, sessions, month, handler, local, effects>>

(* Stripe is told, and then the row.                                       *)
CancelSubscription(r) ==
  /\ MayRequest(r)
  /\ Room(1)
  /\ account.sub # None /\ Entitled(account.sub) /\ ~remote[account.sub].ending
  /\ Update(account.sub, [remote[account.sub] EXCEPT !.ending = TRUE])
  /\ Goes(r, [free EXCEPT !.pc = "ending", !.ending = account.ending])
  /\ UNCHANGED <<customers, sessions, month, handler, local, effects>>

MarkEnding(r) ==
  /\ request[r].pc = "ending" /\ MayWrite(r)
  /\ account' = [account EXCEPT !.ending = @ \/ ~request[r].ending]
  /\ Goes(r, free)
  /\ UNCHANGED <<stripe, handler, processed, invoice, period, renewals, effects>>

(* What Stripe lists of the customer's invoices: the last state of each.   *)
Latest(k, p) ==
  LET of == {e \in DOMAIN log : /\ log[e].kind = "invoice" /\ log[e].period = p
                                /\ log[e].customer = k} IN
  IF of = {} THEN "none" ELSE log[CHOOSE e \in of : \A d \in of : d <= e].status

(* sync_customer_invoices asks Stripe for the invoices and their taxes,     *)
(* then reads its rows and at last commits those it found different: no     *)
(* e-mail, no renewal.                                                     *)
Backfill(r) ==
  /\ MayRequest(r) /\ HasCustomer
  /\ \E p \in Periods : Latest(account.customer, p) # "none"
  /\ Goes(r, [free EXCEPT !.pc = "listed",
                          !.list = [p \in Periods |-> Latest(account.customer, p)]])
  /\ UNCHANGED <<stripe, handler, local, effects>>

Compare(r) ==
  /\ request[r].pc = "listed"
  /\ Goes(r, [request[r] EXCEPT !.pc = "compared",
                                !.read = [p \in Periods |-> invoice[p].status]])
  /\ UNCHANGED <<stripe, handler, local, effects>>

Listed(r, p) == request[r].list[p] # "none"

(* An invoice it would insert was inserted by a handler: it gives up.      *)
Refused(r) == \E p \in Periods : /\ Listed(r, p) /\ request[r].read[p] = "none"
                                 /\ invoice[p].status # "none"

Save(r) ==
  LET q == request[r] IN
  /\ q.pc = "compared"
  /\ invoice' = [p \in Periods |->
       IF Listed(r, p) /\ q.list[p] # q.read[p] /\ ~Refused(r)
       THEN [invoice[p] EXCEPT !.status = q.list[p]] ELSE invoice[p]]
  /\ Goes(r, free)
  /\ UNCHANGED <<stripe, handler, processed, account, period, renewals, effects>>

-----------------------------------------------------------------------------
(* process_webhook                                                         *)

(* The unique event id, held from the flush to the commit.                 *)
Again(e) == \A h \in Handlers : handler[h].event # e   \* mutant
Fresh(e) == e \notin processed /\ \A h \in Handlers : handler[h].event # e

MyTurn(e) ==
  "reordered" \notin profile =>
    /\ \A d \in 1..(e - 1) : d \in processed
    /\ \A h \in Handlers : handler[h].event = None

(* The customer of the event must be the account's.                        *)
Ours(e) == account.customer \in {None, log[e].customer}

MustSend(i) == ~i.emailed

Receive(h, e) ==
  /\ handler[h].event = None
  /\ Fresh(e) /\ MyTurn(e) /\ Ours(e)
  /\ handler' = [handler EXCEPT ![h] = [event |-> e, account |-> account,
                                        invoice |-> invoice]]
  /\ UNCHANGED <<request, stripe, local, effects>>

(* What the unit of work writes: the fields found different.               *)
Written(now, read, new) ==
  [f \in DOMAIN now |-> IF new[f] = read[f] THEN now[f] ELSE new[f]]

SyncSubscription(h, e) ==
  /\ account' = Written(account, handler[h].account,
       [customer |-> e.customer, sub |-> e.sub, status |-> e.status, plan |-> e.plan,
        ending |-> e.ending])
  /\ UNCHANGED <<invoice, period, renewals, emails>>

(* reset_credits_for_renewal: the ledger key of the period is unique.      *)
RenewAlways(p) == TRUE   \* mutant
MustRenew(p) == renewals[p] = 0

OneMore(n) == IF n < 2 THEN n + 1 ELSE n   \* e-mails are counted up to 2

SyncInvoice(h, e) ==
  LET read == handler[h].invoice[e.period]
      sends == e.status = "paid" /\ MustSend(read)
      new == [status |-> e.status, emailed |-> read.emailed \/ sends] IN
  /\ emails' = [emails EXCEPT ![e.period] = IF sends THEN OneMore(@) ELSE @]
  /\ invoice' = [invoice EXCEPT ![e.period] = Written(@, read, new)]
  /\ IF e.status = "paid" /\ MustRenew(e.period)
     THEN /\ period' = e.period
          /\ renewals' = [renewals EXCEPT ![e.period] = @ + 1]
     ELSE UNCHANGED <<period, renewals>>
  /\ UNCHANGED account

(* The invoice was inserted by another handler: its id is unique.          *)
Conflict(h) ==
  LET e == log[handler[h].event] IN
  /\ handler[h].event # None
  /\ e.kind = "invoice"
  /\ handler[h].invoice[e.period].status = "none"
  /\ invoice[e.period].status # "none"

(* A request has heard from Stripe and has yet to write it.                *)
Holding == \E r \in Requests :
  request[r].pc \in {"linking", "ending", "listed", "compared"}

(* The account's row is written once it is not locked.                     *)
MayCommit(h) ==
  /\ log[handler[h].event].kind = "subscription" => ~Locked
  /\ "overtaken" \in profile \/ ~Holding

Commit(h) ==
  LET e == log[handler[h].event] IN
  /\ handler[h].event # None
  /\ ~Conflict(h) /\ MayCommit(h)
  /\ IF e.kind = "subscription" THEN SyncSubscription(h, e) ELSE SyncInvoice(h, e)
  /\ processed' = processed \cup {handler[h].event}
  /\ handler' = [handler EXCEPT ![h] = waiting]
  /\ UNCHANGED <<request, stripe, profile>>

(* The renewal flushes, and so meets the conflict before the e-mail.       *)
ReachesEmail(h, p) == Conflict(h) => ~MustRenew(p)

(* The transaction is rolled back; an e-mail it sent stays sent.           *)
CommitFails(h) ==
  LET e == log[handler[h].event] IN
  /\ handler[h].event # None
  /\ Conflict(h) \/ ("failure" \in profile /\ MayCommit(h))
  /\ emails' = IF e.kind = "invoice" /\ e.status = "paid"
                  /\ MustSend(handler[h].invoice[e.period]) /\ ReachesEmail(h, e.period)
               THEN [emails EXCEPT ![e.period] = OneMore(@)] ELSE emails
  /\ handler' = [handler EXCEPT ![h] = waiting]
  /\ UNCHANGED <<request, stripe, local, profile>>

-----------------------------------------------------------------------------
Stripe == \/ \E i \in DOMAIN sessions : Pay(i)
          \/ \E s \in Subs : Ends(s) \/ Renews(s) \/ Recovers(s)
          \/ \E e \in DOMAIN log : Repeats(e)

GoesOn(r) == \/ CreateCustomer(r) \/ Ask(r) \/ Link(r) \/ Open(r) \/ MarkEnding(r)
             \/ Compare(r) \/ Save(r)

User == \/ \E r \in Requests, p \in Plans : Checkout(r, p)
        \/ \E r \in Requests : Portal(r) \/ CancelSubscription(r) \/ Backfill(r) \/ GoesOn(r)
        \/ \E p \in Plans : ChangePlan(p)

Webhook(h) == Commit(h) \/ CommitFails(h) \/ \E e \in DOMAIN log : Receive(h, e)

Next == Stripe \/ User \/ \E h \in Handlers : Webhook(h)

Spec == Init /\ [][Next]_vars

(* Stripe delivers an event again until it is acknowledged; a commit that  *)
(* is tried for ever succeeds at last, unless the invoice was inserted     *)
(* meanwhile, and then it is refused; a request that began goes on.        *)
LiveSpec ==
  /\ Spec
  /\ \A r \in Requests : WF_vars(GoesOn(r))
  /\ WF_vars(\E h \in Handlers, e \in DOMAIN log : Receive(h, e))
  /\ SF_vars(\E h \in Handlers : Commit(h))
  /\ WF_vars(\E h \in Handlers : Conflict(h) /\ CommitFails(h))

-----------------------------------------------------------------------------
(* Type invariant: an invoice that was e-mailed has renewed its period.    *)
BillingTypeOK ==
  /\ \A r \in Requests : request[r].pc \in
       {"idle", "checkout", "portal", "asking", "linking", "opening", "ending", "listed",
        "compared"}
  /\ customers \in Nat /\ Len(sessions) <= MaxSessions
  /\ \A s \in Subs : remote[s].status \in {"none", "active", "past_due", "canceled"}
  /\ month \in Periods /\ Len(log) <= MaxEvents
  /\ processed \subseteq 1..Len(log)
  /\ \A h \in Handlers : handler[h].event \in 0..Len(log)
  /\ account.customer \in 0..customers /\ account.sub \in 0..MaxSubs
  /\ account.plan \in Plans \cup {None}
  /\ period \in 0..MaxPeriods /\ renewals \in [Periods -> Nat] /\ emails \in [Periods -> 0..2]
  /\ \A p \in Periods : /\ invoice[p].status \in {"none", "open", "paid"}
                        /\ invoice[p].emailed => renewals[p] > 0

Settled == /\ processed = 1..Len(log)
           /\ \A h \in Handlers : handler[h].event = None
           /\ NoRequest

(* Once every event is handled and every request done, the account is the   *)
(* subscription at Stripe that entitles the company, or else one that ended, *)
(* and the history shows each invoice as Stripe does, however old by then   *)
(* was what a request had asked Stripe: unless events lost their order, a   *)
(* handler committed before that request wrote (_backfill_stripe_invoices), *)
(* an older session was paid, or users overlapped.                          *)
AccountMatchesStripe ==
  (Settled /\ profile \cap {"reordered", "old session", "users", "overtaken"} = {})
  => LET s == account.sub IN
     /\ (\E t \in Subs : remote[t].status # "none") =>
          /\ s # None
          /\ account.status = remote[s].status /\ account.plan = remote[s].plan
          /\ account.ending = remote[s].ending
          /\ Entitled(s) \/ \A t \in Subs : ~Entitled(t)
     /\ \A p \in Periods : invoice[p].status = Latest(account.customer, p)

(* A company never has two subscriptions that charge it, unless it pays a   *)
(* session after it asked for a newer one (create_checkout); and what it    *)
(* pays belongs to the account's customer, whose events are accepted,       *)
(* unless users overlap (_resolve_stripe_company_id).                       *)
OneSubscription ==
  /\ profile \cap {"old session", "users"} = {} => Cardinality({s \in Subs : Entitled(s)}) <= 1
  /\ "users" \notin profile =>
       \A s \in Subs : remote[s].status # "none" => remote[s].customer = account.customer

(* A billing period resets the included credits at most once, in whatever   *)
(* order and however often its invoice's events come, and, unless their     *)
(* order is lost, the periods go forward; unless a commit fails the e-mail  *)
(* of a paid invoice is sent once.                                          *)
PaidInvoiceOnce ==
  [][\A p \in Periods :
       /\ renewals'[p] # renewals[p] =>
            renewals[p] = 0 /\ ("reordered" \in profile \/ p > period)
       /\ emails'[p] # emails[p] =>
            emails[p] = 0 \/ profile \cap {"reordered", "failure"} # {}]_vars

(* Every event is handled at last, unless it belongs to a customer that     *)
(* another request has replaced.                                            *)
EventsHandled == []<>("users" \in profile \/ processed = DOMAIN log)
=============================================================================
