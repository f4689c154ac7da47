------------------------ MODULE BillingAccount_proofs ------------------------
(***************************************************************************)
(* For any number of plans, users, deliveries, periods and events: a       *)
(* period renews and is e-mailed once, the company has one subscription,   *)
(* and what Stripe says in order is what the account and its history hold. *)
(***************************************************************************)
EXTENDS BillingAccount, FiniteSetTheorems, SequenceTheorems,
        WellFoundedInduction, TLAPS

PlanOrNone  == Plans \cup {None}
SubStatuses == {"none", "active", "past_due", "canceled"}
Sessions    == [customer : Nat, plan : PlanOrNone, open : BOOLEAN]
Remotes     == [status : SubStatuses, plan : PlanOrNone, ending : BOOLEAN, customer : Nat]
SubEvents     == [kind : {"subscription"}, sub : Subs, status : SubStatuses, plan : PlanOrNone,
                  ending : BOOLEAN, customer : Nat]
InvoiceEvents == [kind : {"invoice"}, period : Periods, status : {"open", "paid"}, customer : Nat]
Events      == SubEvents \cup InvoiceEvents
Accounts    == [customer : Nat, sub : 0..MaxSubs, status : SubStatuses, plan : PlanOrNone,
                ending : BOOLEAN]
Invoices    == [Periods -> [status : {"none", "open", "paid"}, emailed : BOOLEAN]]
Deliveries  == [event : Nat \ {0}, account : Accounts, invoice : Invoices]
InvoiceLists == [Periods -> {"none", "open", "paid"}]
Places      == {"idle", "checkout", "portal", "asking", "linking", "opening", "ending", "listed",
                "compared"}
Requesting  == [pc : Places, locked : BOOLEAN, plan : PlanOrNone, customer : Nat,
                sub : 0..MaxSubs, status : SubStatuses, ending : BOOLEAN,
                list : InvoiceLists, read : InvoiceLists]

Busy(h) == handler[h].event # None

Typed ==
  /\ request \in [Requests -> Requesting]
  /\ customers \in Nat
  /\ sessions \in Seq(Sessions) /\ Len(sessions) <= MaxSessions
  /\ remote \in [Subs -> Remotes]
  /\ month \in Periods
  /\ log \in Seq(Events) /\ Len(log) <= MaxEvents
  /\ processed \subseteq DOMAIN log
  /\ handler \in [Handlers -> {waiting} \cup Deliveries]
  /\ \A h \in Handlers : Busy(h) => handler[h].event \in DOMAIN log
  /\ account \in Accounts /\ invoice \in Invoices
  /\ period \in 0..MaxPeriods /\ renewals \in [Periods -> Nat] /\ emails \in [Periods -> 0..2]
  /\ profile \in Profiles

LEMMA Bounds ==
  /\ MaxSubs \in Nat \ {0} /\ MaxSessions \in Nat \ {0} /\ MaxPeriods \in Nat \ {0}
  /\ MaxEvents \in Nat \ {0}
BY BillingAssumption

(* An event is one of the two kinds. *)
LEMMA EventKinds ==
  ASSUME NEW e \in Events
  PROVE  /\ e.kind = "subscription" => e \in SubEvents
         /\ e.kind = "invoice" => e \in InvoiceEvents
         /\ e.kind \in {"subscription", "invoice"} /\ e.customer \in Nat
<1>1. CASE e \in SubEvents
  BY <1>1 DEF SubEvents
<1>2. CASE e \in InvoiceEvents
  BY <1>2 DEF InvoiceEvents
<1> QED BY <1>1, <1>2 DEF Events

(* A set of positions in a sequence has a last.                            *)
LEMMA LastOf ==
  ASSUME NEW n \in Nat, NEW S, S \subseteq 1..n, S # {}
  PROVE  \E m \in S : \A d \in S : d <= m
<1> DEFINE T == {n - d : d \in S}
<1>1. T \subseteq Nat /\ T # {}
  <2>1. \A d \in S : n - d \in Nat
    OBVIOUS
  <2> QED BY <2>1
<1>2. PICK x \in T : \A y \in T : ~(<<y, x>> \in OpToRel(<, Nat))
  <2> HIDE DEF T
  <2> QED BY <1>1, NatLessThanWellFounded, WFMin
<1>3. PICK m \in S : x = n - m
  BY DEF T
<1>4. \A d \in S : ~(n - d < x)
  BY <1>1, <1>2 DEF OpToRel
<1> QED BY <1>3, <1>4

-----------------------------------------------------------------------------
(* What Stripe does.                                                       *)

Grew == /\ log' \in Seq(Events) /\ Len(log) <= Len(log') /\ Len(log') <= MaxEvents
        /\ \A e \in DOMAIN log : log'[e] = log[e]
New == DOMAIN log' \ DOMAIN log

LocalSame == UNCHANGED <<customers, handler, processed, invoice, period, renewals, emails,
                         profile>>

(* Stripe changed subscription s, or invoiced it, and said so.              *)
Told(s) ==
  /\ Grew /\ LocalSame
  /\ remote' \in [Subs -> Remotes]
  /\ \A t \in Subs \ {s} : remote'[t] = remote[t]
  /\ \/ \E e \in New : /\ log'[e] = SubEvent(s, remote'[s])
                       /\ \A d \in New \ {e} : log'[d].kind = "invoice"
     \/ remote'[s] = remote[s] /\ \A d \in New : log'[d].kind = "invoice"
  /\ \A d \in New : log'[d].customer = remote'[s].customer
  /\ \A d \in New : log'[d].kind = "invoice" => log'[d].period = month'
  /\ \A d, e \in New : log'[d].kind = "invoice" /\ log'[e].kind = "invoice" => d = e
  /\ month' \in Periods /\ month <= month'

LEMMA OneMore1 ==
  ASSUME Typed, NEW a \in Events, Len(log) + 1 <= MaxEvents, log' = Append(log, a)
  PROVE  Grew /\ New = {Len(log) + 1} /\ log'[Len(log) + 1] = a
<1>1. log \in Seq(Events) /\ Len(log) \in Nat
  BY DEF Typed
<1>2. Len(log') = Len(log) + 1 /\ log' \in Seq(Events)
      /\ DOMAIN log = 1..Len(log) /\ DOMAIN log' = 1..Len(log')
  BY <1>1
<1> QED BY <1>1, <1>2 DEF Grew, New

LEMMA OneMore2 ==
  ASSUME Typed, NEW a \in Events, NEW b \in Events, Len(log) + 2 <= MaxEvents,
         log' = log \o <<a, b>>
  PROVE  /\ Grew /\ New = {Len(log) + 1, Len(log) + 2}
         /\ log'[Len(log) + 1] = a /\ log'[Len(log) + 2] = b
<1>1. log \in Seq(Events) /\ Len(log) \in Nat /\ <<a, b>> \in Seq(Events) /\ Len(<<a, b>>) = 2
  BY DEF Typed
<1>2. Len(log') = Len(log) + 2 /\ log' \in Seq(Events)
      /\ DOMAIN log = 1..Len(log) /\ DOMAIN log' = 1..Len(log')
  BY <1>1
<1> QED BY <1>1, <1>2 DEF Grew, New

LEMMA RoomIsBounded ==
  ASSUME NEW n \in Nat, Typed, Room(n)
  PROVE  Len(log) + n <= MaxEvents
<1>1. Len(log) \in Nat
  BY DEF Typed
<1> QED BY <1>1, Bounds DEF Room

(* A session that is paid starts a subscription.                           *)
LEMMA PayTells ==
  ASSUME Typed, NEW i \in DOMAIN sessions, Pay(i)
  PROVE  \E s \in Subs :
           /\ Told(s)
           /\ remote[s].status = "none" /\ remote'[s].status = "active"
           /\ remote'[s].customer = sessions[i].customer
<1>1. PICK s \in Subs :
        LET now == [status |-> "active", plan |-> sessions[i].plan, ending |-> FALSE,
                    customer |-> sessions[i].customer] IN
        /\ remote[s].status = "none"
        /\ remote' = [remote EXCEPT ![s] = now]
        /\ log' = log \o <<SubEvent(s, now), InvoiceEvent(month, "paid", now.customer)>>
  BY DEF Pay
<1> DEFINE now == [status |-> "active", plan |-> sessions[i].plan, ending |-> FALSE,
                   customer |-> sessions[i].customer]
<1>2. sessions[i] \in Sessions
  BY DEF Typed
<1>3. now \in Remotes /\ now.status = "active" /\ now.customer = sessions[i].customer
  BY <1>2 DEF Sessions, Remotes, SubStatuses
<1>4. /\ SubEvent(s, now) \in Events /\ SubEvent(s, now).kind = "subscription"
      /\ SubEvent(s, now).customer = now.customer
  BY <1>2 DEF SubEvent, Events, SubEvents, Sessions, SubStatuses
<1>5. /\ InvoiceEvent(month, "paid", now.customer) \in Events
      /\ InvoiceEvent(month, "paid", now.customer).kind = "invoice"
      /\ InvoiceEvent(month, "paid", now.customer).period = month
      /\ InvoiceEvent(month, "paid", now.customer).customer = now.customer
  BY <1>2 DEF InvoiceEvent, Events, InvoiceEvents, Sessions, Typed
<1>6. /\ Grew /\ New = {Len(log) + 1, Len(log) + 2}
      /\ log'[Len(log) + 1] = SubEvent(s, now)
      /\ log'[Len(log) + 2] = InvoiceEvent(month, "paid", now.customer)
  <2>1. Len(log) + 2 <= MaxEvents
    BY RoomIsBounded DEF Pay
  <2> HIDE DEF now
  <2> QED BY <1>1, <1>4, <1>5, <2>1, OneMore2 DEF now
<1>7. /\ remote'[s] = now /\ remote' \in [Subs -> Remotes]
      /\ \A t \in Subs \ {s} : remote'[t] = remote[t]
  BY <1>1, <1>3 DEF Typed
<1>8. month' = month /\ month \in Periods /\ month <= month' /\ LocalSame
  <2>1. UNCHANGED <<request, customers, month, handler, local, effects>>
    BY DEF Pay
  <2>2. month \in Nat /\ month \in Periods
    BY Bounds DEF Typed, Periods
  <2> QED BY <2>1, <2>2 DEF local, effects, LocalSame
<1>9. Told(s)
  <2> HIDE DEF now
  <2> QED BY <1>4, <1>5, <1>6, <1>7, <1>8 DEF Told
<1> QED BY <1>1, <1>3, <1>7, <1>9

(* What happens to a subscription that entitles the company.               *)
Continues(s) ==
  /\ Told(s) /\ Entitled(s) /\ sessions' = sessions
  /\ remote'[s].status # "none" /\ remote'[s].customer = remote[s].customer

LEMMA UpdateTells ==
  ASSUME Typed, NEW s \in Subs, NEW now \in Remotes, Room(1), Update(s, now), Entitled(s),
         now.status # "none", now.customer = remote[s].customer,
         LocalSame, month' = month, sessions' = sessions
  PROVE  Continues(s)
<1>1. /\ SubEvent(s, now) \in Events /\ SubEvent(s, now).kind = "subscription"
      /\ SubEvent(s, now).customer = now.customer
  BY DEF SubEvent, Events, SubEvents, Remotes
<1>2. Grew /\ New = {Len(log) + 1} /\ log'[Len(log) + 1] = SubEvent(s, now)
  BY <1>1, RoomIsBounded, OneMore1 DEF Update
<1>3. /\ remote'[s] = now /\ remote' \in [Subs -> Remotes]
      /\ \A t \in Subs \ {s} : remote'[t] = remote[t]
  BY DEF Typed, Update
<1>4. month \in Periods /\ month <= month'
  BY Bounds DEF Typed, Periods
<1> QED BY <1>1, <1>2, <1>3, <1>4 DEF Told, Continues

LEMMA EndsTells ==
  ASSUME Typed, NEW s \in Subs, Ends(s)
  PROVE  Continues(s)
<1>1. [remote[s] EXCEPT !.status = "canceled"] \in Remotes
  BY DEF Typed, Remotes, SubStatuses
<1>2. /\ [remote[s] EXCEPT !.status = "canceled"].status # "none"
      /\ [remote[s] EXCEPT !.status = "canceled"].customer = remote[s].customer
  BY DEF Typed, Remotes
<1> QED BY <1>1, <1>2, UpdateTells DEF Ends, local, effects, LocalSame

LEMMA InvoiceTells ==
  ASSUME Typed, NEW s \in Subs, NEW now \in Remotes, Entitled(s), Room(2),
         now.status # "none", now.customer = remote[s].customer,
         NEW outcome \in {"open", "paid"}, month' \in Periods, month <= month',
         remote' = [remote EXCEPT ![s] = now],
         log' = log \o <<InvoiceEvent(month', outcome, now.customer), SubEvent(s, now)>>,
         LocalSame, sessions' = sessions
  PROVE  Continues(s)
<1>1. /\ SubEvent(s, now) \in Events /\ SubEvent(s, now).kind = "subscription"
      /\ SubEvent(s, now).customer = now.customer
  BY DEF SubEvent, Events, SubEvents, Remotes
<1>2. /\ InvoiceEvent(month', outcome, now.customer) \in Events
      /\ InvoiceEvent(month', outcome, now.customer).kind = "invoice"
      /\ InvoiceEvent(month', outcome, now.customer).period = month'
      /\ InvoiceEvent(month', outcome, now.customer).customer = now.customer
  BY DEF InvoiceEvent, Events, InvoiceEvents, Remotes
<1>3. /\ Grew /\ New = {Len(log) + 1, Len(log) + 2}
      /\ log'[Len(log) + 1] = InvoiceEvent(month', outcome, now.customer)
      /\ log'[Len(log) + 2] = SubEvent(s, now)
  BY <1>1, <1>2, RoomIsBounded, OneMore2
<1>4. /\ remote'[s] = now /\ remote' \in [Subs -> Remotes]
      /\ \A t \in Subs \ {s} : remote'[t] = remote[t]
  BY DEF Typed
<1>5. Told(s)
  BY <1>1, <1>2, <1>3, <1>4 DEF Told
<1> QED BY <1>4, <1>5 DEF Continues

LEMMA RenewsTells ==
  ASSUME Typed, NEW s \in Subs, Renews(s)
  PROVE  Continues(s)
<1>1. /\ Entitled(s) /\ LocalSame /\ sessions' = sessions /\ remote[s] \in Remotes
      /\ remote[s].status = "active"
  BY DEF Renews, local, effects, LocalSame, Entitled, Typed
<1>2. month' = month + 1 /\ month' \in Periods /\ month <= month'
  <2>1. month' = month + 1 /\ month < MaxPeriods
    BY DEF Renews
  <2>2. month \in 1..MaxPeriods
    BY DEF Typed, Periods
  <2> QED BY <2>1, <2>2, Bounds DEF Periods
<1>3. CASE /\ log' = Append(log, InvoiceEvent(month + 1, "paid", remote[s].customer))
           /\ UNCHANGED remote
  <2>1. /\ InvoiceEvent(month', "paid", remote[s].customer) \in Events
        /\ InvoiceEvent(month', "paid", remote[s].customer).kind = "invoice"
        /\ InvoiceEvent(month', "paid", remote[s].customer).period = month'
        /\ InvoiceEvent(month', "paid", remote[s].customer).customer = remote[s].customer
    BY <1>1, <1>2 DEF InvoiceEvent, Events, InvoiceEvents, Remotes
  <2>2. Len(log) + 1 <= MaxEvents
    <3>1. Len(log) \in Nat
      BY DEF Typed
    <3> QED BY <3>1, RoomIsBounded, Bounds DEF Renews
  <2>3. /\ Grew /\ New = {Len(log) + 1}
        /\ log'[Len(log) + 1] = InvoiceEvent(month', "paid", remote[s].customer)
    BY <1>2, <1>3, <2>1, <2>2, OneMore1
  <2>4. remote' \in [Subs -> Remotes] /\ remote' = remote
    BY <1>3 DEF Typed
  <2>5. Told(s)
    BY <1>1, <1>2, <2>1, <2>3, <2>4 DEF Told
  <2> QED BY <1>1, <2>4, <2>5 DEF Continues
<1>4. CASE LET now == [remote[s] EXCEPT !.status = "past_due"] IN
           /\ remote' = [remote EXCEPT ![s] = now]
           /\ log' = log \o <<InvoiceEvent(month + 1, "open", now.customer), SubEvent(s, now)>>
  <2> DEFINE now == [remote[s] EXCEPT !.status = "past_due"]
  <2>1. now \in Remotes /\ now.status # "none" /\ now.customer = remote[s].customer
    BY <1>1 DEF Remotes, SubStatuses
  <2>2. /\ remote' = [remote EXCEPT ![s] = now]
        /\ log' = log \o <<InvoiceEvent(month', "open", now.customer), SubEvent(s, now)>>
    BY <1>2, <1>4
  <2>3. Room(2)
    BY DEF Renews
  <2> HIDE DEF now
  <2> QED BY <1>1, <1>2, <2>1, <2>2, <2>3, InvoiceTells
<1> QED BY <1>3, <1>4 DEF Renews

LEMMA RecoversTells ==
  ASSUME Typed, NEW s \in Subs, Recovers(s)
  PROVE  Continues(s)
<1> DEFINE now == [remote[s] EXCEPT !.status = "active"]
<1>1. /\ Entitled(s) /\ LocalSame /\ sessions' = sessions /\ remote[s] \in Remotes
      /\ month' = month /\ month' \in Periods /\ month <= month' /\ Room(2)
  BY Bounds DEF Recovers, local, effects, LocalSame, Entitled, Typed, Periods
<1>2. now \in Remotes /\ now.status # "none" /\ now.customer = remote[s].customer
  BY <1>1 DEF Remotes, SubStatuses
<1>3. /\ remote' = [remote EXCEPT ![s] = now]
      /\ log' = log \o <<InvoiceEvent(month', "paid", now.customer), SubEvent(s, now)>>
  BY <1>1 DEF Recovers
<1> HIDE DEF now
<1> QED BY <1>1, <1>2, <1>3, InvoiceTells

LEMMA ChangePlanTells ==
  ASSUME Typed, NEW p \in Plans, ChangePlan(p)
  PROVE  account.sub \in Subs /\ Continues(account.sub) /\ account' = account
<1> DEFINE s == account.sub
           now == [remote[s] EXCEPT !.plan = p]
<1>1. s \in Subs /\ Entitled(s) /\ Room(1) /\ Update(s, now)
  BY Bounds DEF ChangePlan, Typed, Accounts, Subs, None
<1>2. now \in Remotes /\ now.status # "none" /\ now.customer = remote[s].customer
  BY <1>1 DEF Remotes, SubStatuses, Typed, PlanOrNone, Entitled
<1>3. LocalSame /\ month' = month /\ sessions' = sessions /\ account' = account
  BY DEF ChangePlan, local, effects, LocalSame
<1> HIDE DEF now, s
<1>4. Continues(s)
  BY <1>1, <1>2, <1>3, UpdateTells
<1> QED BY <1>1, <1>3, <1>4 DEF s

LEMMA CancelTells ==
  ASSUME Typed, NEW r \in Requests, CancelSubscription(r)
  PROVE  /\ account.sub \in Subs /\ Continues(account.sub) /\ account' = account
         /\ remote'[account.sub] # remote[account.sub] /\ remote'[account.sub].ending
         /\ request' = [request EXCEPT ![r] = [free EXCEPT !.pc = "ending",
                                                          !.ending = account.ending]]
<1> DEFINE s == account.sub
           now == [remote[s] EXCEPT !.ending = TRUE]
<1>1. s \in Subs /\ Entitled(s) /\ Room(1) /\ Update(s, now)
  BY Bounds DEF CancelSubscription, Typed, Accounts, Subs, None
<1>2. now \in Remotes /\ now.status # "none" /\ now.customer = remote[s].customer
  BY <1>1 DEF Remotes, SubStatuses, Typed, Entitled
<1>3. /\ LocalSame /\ month' = month /\ sessions' = sessions /\ account' = account
      /\ request' = [request EXCEPT ![r] = [free EXCEPT !.pc = "ending",
                                                       !.ending = account.ending]]
  BY DEF CancelSubscription, Goes, local, effects, LocalSame
<1>4. remote'[s] # remote[s] /\ remote'[s].ending
  <2>1. /\ remote \in [Subs -> Remotes] /\ remote[s] \in Remotes /\ ~remote[s].ending
        /\ remote' = [remote EXCEPT ![s] = now]
    BY <1>1 DEF CancelSubscription, Typed, Update
  <2>2. now.ending = TRUE
    BY <2>1 DEF Remotes
  <2>3. remote'[s] = now
    BY <1>1, <2>1
  <2> QED BY <2>1, <2>2, <2>3
<1> HIDE DEF now, s
<1>5. Continues(s)
  BY <1>1, <1>2, <1>3, UpdateTells
<1> QED BY <1>1, <1>3, <1>4, <1>5 DEF s

(* The last state of an invoice, said again.                               *)
Repeated(e) ==
  /\ Grew /\ LocalSame /\ UNCHANGED <<request, sessions, remote, month, account>>
  /\ New = {Len(log) + 1} /\ log'[Len(log) + 1] = log[e]
  /\ log[e].kind = "invoice"
  /\ \A d \in DOMAIN log : d > e /\ log[d].kind = "invoice" => log[d].period # log[e].period

LEMMA RepeatsTells ==
  ASSUME Typed, NEW e \in DOMAIN log, Repeats(e)
  PROVE  Repeated(e)
<1>1. log[e] \in Events /\ Len(log) + 1 <= MaxEvents
  <2>1. Room(1) /\ log \in Seq(Events)
    BY DEF Repeats, Typed
  <2> QED BY <2>1, RoomIsBounded
<1>2. Grew /\ New = {Len(log) + 1} /\ log'[Len(log) + 1] = log[e]
  BY <1>1, OneMore1 DEF Repeats
<1> QED BY <1>2 DEF Repeats, Repeated, LocalSame, local, effects

(* Every step of Stripe is one of these.                                   *)
LEMMA StripeSteps ==
  ASSUME Typed, Stripe
  PROVE  /\ UNCHANGED <<account, request>>
         /\ sessions' \in Seq(Sessions) /\ Len(sessions') = Len(sessions)
         /\ \/ \E i \in DOMAIN sessions : Pay(i)
            \/ \E s \in Subs : Continues(s)
            \/ \E e \in DOMAIN log : Repeated(e)
<1>1. CASE \E i \in DOMAIN sessions : Pay(i)
  <2>1. PICK i \in DOMAIN sessions : Pay(i)
    BY <1>1
  <2>2. sessions' = [sessions EXCEPT ![i].open = FALSE] /\ UNCHANGED <<account, request>>
    BY <2>1 DEF Pay, local
  <2>3. sessions' \in Seq(Sessions) /\ Len(sessions') = Len(sessions)
    <3>1. sessions \in Seq(Sessions) /\ i \in 1..Len(sessions)
      BY DEF Typed
    <3>2. sessions[i] \in Sessions
      BY <3>1
    <3>3. [sessions[i] EXCEPT !.open = FALSE] \in Sessions
      BY <3>2 DEF Sessions
    <3> DEFINE paid == [sessions[i] EXCEPT !.open = FALSE]
    <3>4. sessions' = [sessions EXCEPT ![i] = paid]
      BY <2>2
    <3> HIDE DEF paid
    <3>5. paid \in Sessions
      BY <3>3 DEF paid
    <3> QED BY <3>1, <3>4, <3>5, ExceptSeq
  <2> QED BY <1>1, <2>2, <2>3
<1>2. CASE \E s \in Subs : Ends(s) \/ Renews(s) \/ Recovers(s)
  <2>1. PICK s \in Subs : Ends(s) \/ Renews(s) \/ Recovers(s)
    BY <1>2
  <2>2. UNCHANGED <<account, request, sessions>>
    BY <2>1 DEF Ends, Renews, Recovers, local
  <2> QED BY <2>1, <2>2, EndsTells, RenewsTells, RecoversTells DEF Typed
<1>3. CASE \E e \in DOMAIN log : Repeats(e)
  <2>1. PICK e \in DOMAIN log : Repeats(e)
    BY <1>3
  <2>2. Repeated(e)
    BY <2>1, RepeatsTells
  <2> QED BY <2>2 DEF Typed, Repeated
<1> QED BY <1>1, <1>2, <1>3 DEF Stripe

-----------------------------------------------------------------------------
(* What users do.                                                          *)

StripeSame == UNCHANGED <<remote, month, log, handler, processed, period, renewals, emails,
                          profile>>

(* A request goes on, and so far only itself changes.                      *)
Asks(r, q) ==
  /\ request' = [request EXCEPT ![r] = q] /\ q \in Requesting
  /\ StripeSame /\ UNCHANGED <<customers, sessions, account, invoice>>

(* It will create a customer, open a session, or ask the portal's question, *)
(* or it is done;                                                          *)
Begins(r, q) ==
  /\ q.pc \in {"checkout", "portal", "opening", "asking", "idle"}
  /\ \/ q.pc \in {"checkout", "portal"} /\ MayRequest(r) /\ ~HasCustomer
     \/ q.pc = "asking" /\ MayRequest(r) /\ HasCustomer /\ q.customer = account.customer
     \/ /\ q.pc = "opening" /\ MayRequest(r) /\ HasCustomer
        /\ q.customer = account.customer /\ ActiveOf(account.customer) = {}
     \/ q.pc = "idle"

(* it has found a subscription;                                            *)
Finds(r, q) ==
  /\ q.pc = "linking"
  /\ \E s \in Subs : Entitled(s) /\ q.sub = s /\ q.status = remote[s].status
  /\ MayRequest(r) \/ request[r].pc = "asking"

(* it has the invoices, and then the rows to compare them with.            *)
Lists(r, q) ==
  \/ /\ q.pc = "listed" /\ MayRequest(r) /\ HasCustomer
     /\ \A p \in Periods : q.list[p] = Latest(account.customer, p)
  \/ /\ q.pc = "compared" /\ request[r].pc = "listed" /\ q.list = request[r].list
     /\ \A p \in Periods : q.read[p] = invoice[p].status

(* A request commits what it found, and ends.                              *)
Links(r) ==
  /\ request' = [request EXCEPT ![r] = free]
  /\ \/ /\ request[r].pc = "linking"
        /\ account' = [account EXCEPT !.sub = request[r].sub, !.status = request[r].status]
     \/ /\ request[r].pc = "ending"
        /\ account' = [account EXCEPT !.ending = @ \/ ~request[r].ending]
  /\ StripeSame /\ UNCHANGED <<customers, sessions, invoice>>

Opens(r) ==
  /\ request[r].pc = "opening" /\ request' = [request EXCEPT ![r] = free]
  /\ \/ UNCHANGED sessions
     \/ /\ Len(sessions) < MaxSessions
        /\ \E p \in PlanOrNone :
             sessions' = Append(sessions, [customer |-> request[r].customer, plan |-> p,
                                           open |-> TRUE])
  /\ StripeSame /\ UNCHANGED <<customers, account, invoice>>

Creates(r) ==
  /\ request[r].pc \in {"checkout", "portal"}
  /\ \E q \in Requesting :
       /\ request' = [request EXCEPT ![r] = q]
       /\ q.pc \in {"opening", "asking"} /\ q.customer = customers + 1
  /\ customers' = customers + 1 /\ account' = [account EXCEPT !.customer = customers + 1]
  /\ StripeSame /\ UNCHANGED <<sessions, invoice>>

Saves(r) ==
  /\ request[r].pc = "compared" /\ request' = [request EXCEPT ![r] = free]
  /\ invoice' \in Invoices
  /\ \A p \in Periods :
       /\ invoice'[p].emailed = invoice[p].emailed
       /\ \/ invoice'[p].status = invoice[p].status
          \/ /\ request[r].list[p] \notin {"none", request[r].read[p]}
             /\ invoice'[p].status = request[r].list[p]
  /\ (\A p \in Periods : request[r].read[p] = invoice[p].status) =>
       \A p \in Periods : request[r].list[p] # "none" => invoice'[p].status = request[r].list[p]
  /\ StripeSame /\ UNCHANGED <<customers, sessions, account>>

LEMMA FreeTyped == free \in Requesting /\ free.pc = "idle"
<1>1. unlisted \in InvoiceLists
  BY DEF unlisted, InvoiceLists
<1>2. 0 \in 0..MaxSubs
  BY Bounds
<1> HIDE DEF unlisted
<1> QED BY <1>1, <1>2 DEF free, Requesting, Places, PlanOrNone, SubStatuses, None

-----------------------------------------------------------------------------
(* What the webhook does.                                                  *)

Fields == {"customer", "sub", "status", "plan", "ending"}

(* A column is the event's, unless the handler found it so already: then it *)
(* is left as it is by now.                                                 *)
Fill(now, read, new) == IF new = read THEN now ELSE new

HookSame == UNCHANGED <<request, customers, sessions, remote, month, log, profile>>

CommitsSub(h, e) ==
  /\ log[e] \in SubEvents
  /\ account' \in Accounts
  /\ \A f \in Fields : account'[f] = Fill(account[f], handler[h].account[f], log[e][f])
  /\ UNCHANGED <<invoice, period, renewals, emails>>

Sends(h, e) == log[e].status = "paid" /\ ~handler[h].invoice[log[e].period].emailed

CommitsInvoice(h, e) ==
  LET p == log[e].period
      read == handler[h].invoice[p] IN
  /\ log[e] \in InvoiceEvents /\ account' = account
  /\ invoice' \in Invoices
  /\ \A q \in Periods \ {p} : invoice'[q] = invoice[q] /\ emails'[q] = emails[q]
  /\ invoice'[p].status = Fill(invoice[p].status, read.status, log[e].status)
  /\ invoice'[p].emailed = Fill(invoice[p].emailed, read.emailed, read.emailed \/ Sends(h, e))
  /\ emails' \in [Periods -> 0..2]
  /\ emails'[p] # emails[p] => Sends(h, e)
  /\ Sends(h, e) => emails'[p] # 0
  /\ \/ /\ log[e].status = "paid" /\ renewals[p] = 0
        /\ period' = p /\ renewals' = [renewals EXCEPT ![p] = 1]
     \/ /\ log[e].status = "paid" => renewals[p] # 0
        /\ UNCHANGED <<period, renewals>>

Commits(h) ==
  LET e == handler[h].event IN
  /\ Busy(h) /\ e \in DOMAIN log /\ ("overtaken" \in profile \/ ~Holding)
  /\ processed' = processed \cup {e} /\ handler' = [handler EXCEPT ![h] = waiting]
  /\ HookSame
  /\ CommitsSub(h, e) \/ CommitsInvoice(h, e)

LEMMA Read ==
  ASSUME Typed, NEW h \in Handlers, Busy(h)
  PROVE  /\ handler[h] \in Deliveries /\ handler[h].event \in DOMAIN log
         /\ handler[h].account \in Accounts /\ handler[h].invoice \in Invoices
<1>1. handler[h] \in Deliveries
  BY DEF Typed, Busy, waiting
<1> QED BY <1>1 DEF Deliveries, Typed

LEMMA CommitSteps ==
  ASSUME Typed, NEW h \in Handlers, Commit(h)
  PROVE  Commits(h)
<1> DEFINE e == handler[h].event
           read == handler[h]
<1>1. /\ Busy(h) /\ e \in DOMAIN log /\ processed' = processed \cup {e}
      /\ handler' = [handler EXCEPT ![h] = waiting] /\ HookSame
      /\ read.account \in Accounts /\ read.invoice \in Invoices
      /\ ("overtaken" \in profile \/ ~Holding)
  BY Read DEF Commit, MayCommit, Busy, HookSame, stripe
<1>2. log[e] \in Events
  BY <1>1 DEF Typed
<1>3. CASE log[e].kind = "subscription"
  <2>1. log[e] \in SubEvents
    BY <1>2, <1>3, EventKinds
  <2>2. SyncSubscription(h, log[e])
    BY <1>3 DEF Commit
  <2>3. account \in Accounts /\ DOMAIN account = Fields
    BY DEF Typed, Accounts, Fields
  <2> DEFINE new == [customer |-> log[e].customer, sub |-> log[e].sub, status |-> log[e].status,
                     plan |-> log[e].plan, ending |-> log[e].ending]
  <2>4. \A f \in Fields : new[f] = log[e][f]
    BY DEF Fields
  <2>5. account' = [f \in Fields |-> Fill(account[f], read.account[f], new[f])]
    BY <2>2, <2>3 DEF SyncSubscription, Written, Fill
  <2>6. \A f \in Fields : account'[f] = Fill(account[f], read.account[f], log[e][f])
    <3> HIDE DEF new
    <3> QED BY <2>4, <2>5
  <2>7. account' \in Accounts
    <3>1. /\ log[e].sub \in 0..MaxSubs /\ log[e].customer \in Nat /\ log[e].status \in SubStatuses
          /\ log[e].plan \in PlanOrNone /\ log[e].ending \in BOOLEAN
      BY <2>1, Bounds DEF SubEvents, Subs
    <3>2. /\ account'.customer \in Nat /\ account'.sub \in 0..MaxSubs
          /\ account'.status \in SubStatuses /\ account'.plan \in PlanOrNone
          /\ account'.ending \in BOOLEAN
      BY <2>3, <2>6, <3>1 DEF Fields, Accounts, Fill
    <3>3. account' = [customer |-> account'.customer, sub |-> account'.sub,
                      status |-> account'.status, plan |-> account'.plan,
                      ending |-> account'.ending]
      BY <2>5 DEF Fields
    <3> QED BY <3>2, <3>3 DEF Accounts
  <2>8. UNCHANGED <<invoice, period, renewals, emails>>
    BY <2>2 DEF SyncSubscription
  <2> QED BY <1>1, <2>1, <2>6, <2>7, <2>8 DEF Commits, CommitsSub
<1>4. CASE log[e].kind = "invoice"
  <2>1. log[e] \in InvoiceEvents
    BY <1>2, <1>4, EventKinds
  <2>2. SyncInvoice(h, log[e])
    BY <1>4 DEF Commit
  <2> DEFINE p == log[e].period
             new == [status |-> log[e].status, emailed |-> read.invoice[p].emailed \/ Sends(h, e)]
  <2>3. p \in Periods /\ log[e].status \in {"open", "paid"}
    BY <2>1 DEF InvoiceEvents
  <2>4. /\ DOMAIN invoice[p] = {"status", "emailed"} /\ invoice \in Invoices
        /\ invoice[p].status \in {"none", "open", "paid"} /\ invoice[p].emailed \in BOOLEAN
        /\ read.invoice[p].emailed \in BOOLEAN
    BY <1>1, <2>3 DEF Typed, Invoices
  <2>5. /\ emails' = [emails EXCEPT ![p] = IF Sends(h, e) THEN OneMore(@) ELSE @]
        /\ invoice' = [invoice EXCEPT ![p] = Written(@, read.invoice[p], new)]
        /\ IF log[e].status = "paid" /\ MustRenew(p)
           THEN /\ period' = p
                /\ renewals' = [renewals EXCEPT ![p] = @ + 1]
           ELSE UNCHANGED <<period, renewals>>
        /\ UNCHANGED account
    BY <2>2 DEF SyncInvoice, Sends, MustSend
  <2>6. /\ invoice'[p] = Written(invoice[p], read.invoice[p], new)
        /\ \A q \in Periods \ {p} : invoice'[q] = invoice[q]
    <3> HIDE DEF new, p
    <3> QED BY <2>3, <2>4, <2>5 DEF Invoices
  <2>7. invoice'[p] = [f \in {"status", "emailed"} |->
                         Fill(invoice[p][f], read.invoice[p][f], new[f])]
    BY <2>4, <2>6 DEF Written, Fill
  <2>8. /\ invoice'[p].status = Fill(invoice[p].status, read.invoice[p].status, log[e].status)
        /\ invoice'[p].emailed = Fill(invoice[p].emailed, read.invoice[p].emailed,
                                      read.invoice[p].emailed \/ Sends(h, e))
    BY <2>7
  <2>9. invoice'[p] \in [status : {"none", "open", "paid"}, emailed : BOOLEAN]
    <3>1. invoice'[p] = [status |-> invoice'[p].status, emailed |-> invoice'[p].emailed]
      BY <2>7
    <3>2. invoice'[p].status \in {"none", "open", "paid"}
      BY <2>3, <2>4, <2>8 DEF Fill
    <3>3. (read.invoice[p].emailed \/ Sends(h, e)) \in BOOLEAN
      BY <2>4 DEF Sends
    <3>4. invoice'[p].emailed \in BOOLEAN
      BY <2>4, <2>8, <3>3 DEF Fill
    <3> QED BY <3>1, <3>2, <3>4
  <2>10. invoice' \in Invoices
    <3>1. invoice' = [q \in Periods |-> invoice'[q]]
      BY <2>4, <2>5 DEF Invoices
    <3> QED BY <2>4, <2>6, <2>9, <3>1 DEF Invoices
  <2>11. /\ emails' \in [Periods -> 0..2]
         /\ \A q \in Periods \ {p} : emails'[q] = emails[q]
         /\ emails'[p] = IF Sends(h, e) THEN OneMore(emails[p]) ELSE emails[p]
    <3>1. emails \in [Periods -> 0..2] /\ OneMore(emails[p]) \in 0..2
      BY <2>3 DEF Typed, OneMore
    <3> HIDE DEF p
    <3> QED BY <2>3, <2>5, <3>1
  <2>12. Sends(h, e) => emails'[p] # 0
    <3>1. emails[p] \in 0..2
      BY <2>3 DEF Typed
    <3> QED BY <2>11, <3>1 DEF OneMore
  <2>13. \/ /\ log[e].status = "paid" /\ renewals[p] = 0
            /\ period' = p /\ renewals' = [renewals EXCEPT ![p] = 1]
         \/ /\ log[e].status = "paid" => renewals[p] # 0
            /\ UNCHANGED <<period, renewals>>
    <3>1. renewals[p] \in Nat
      BY <2>3 DEF Typed
    <3> QED BY <2>5, <3>1 DEF MustRenew
  <2>14. CommitsInvoice(h, e)
    <3> HIDE DEF new
    <3> QED BY <2>1, <2>5, <2>6, <2>8, <2>10, <2>11, <2>12, <2>13 DEF CommitsInvoice
  <2> QED BY <1>1, <2>14 DEF Commits
<1> QED BY <1>2, <1>3, <1>4, EventKinds

Fails(h) ==
  LET e == handler[h].event
      p == log[e].period IN
  /\ Busy(h) /\ e \in DOMAIN log /\ handler' = [handler EXCEPT ![h] = waiting]
  /\ HookSame /\ UNCHANGED <<processed, account, invoice, period, renewals>>
  /\ \/ UNCHANGED emails
     \/ /\ log[e] \in InvoiceEvents /\ Sends(h, e)
        /\ emails' \in [Periods -> 0..2]
        /\ \A q \in Periods \ {p} : emails'[q] = emails[q]
        /\ \/ "failure" \in profile
           \/ handler[h].invoice[p].status = "none" /\ renewals[p] # 0

LEMMA FailSteps ==
  ASSUME Typed, NEW h \in Handlers, CommitFails(h)
  PROVE  Fails(h)
<1> DEFINE e == handler[h].event
           p == log[e].period
<1>1. /\ Busy(h) /\ e \in DOMAIN log /\ handler' = [handler EXCEPT ![h] = waiting]
      /\ HookSame /\ UNCHANGED <<processed, account, invoice, period, renewals>>
  BY Read DEF CommitFails, Busy, HookSame, stripe, local
<1>2. log[e] \in Events
  BY <1>1 DEF Typed
<1>3. CASE emails' = emails
  BY <1>1, <1>3 DEF Fails
<1>4. CASE emails' # emails
  <2>1. /\ log[e].kind = "invoice" /\ log[e].status = "paid" /\ MustSend(handler[h].invoice[p])
        /\ ReachesEmail(h, p) /\ emails' = [emails EXCEPT ![p] = OneMore(@)]
    BY <1>4 DEF CommitFails
  <2>2. log[e] \in InvoiceEvents /\ p \in Periods /\ Sends(h, e)
    BY <1>2, <2>1, EventKinds DEF InvoiceEvents, Sends, MustSend
  <2>3. "failure" \in profile \/ (handler[h].invoice[p].status = "none" /\ renewals[p] # 0)
    <3>1. "failure" \in profile \/ Conflict(h)
      BY DEF CommitFails
    <3> QED BY <2>1, <3>1 DEF ReachesEmail, Conflict, MustRenew
  <2>4. emails' \in [Periods -> 0..2] /\ \A q \in Periods \ {p} : emails'[q] = emails[q]
    <3>1. emails \in [Periods -> 0..2] /\ OneMore(emails[p]) \in 0..2
      BY <2>2 DEF Typed, OneMore
    <3> QED BY <2>1, <2>2, <3>1
  <2> QED BY <1>1, <2>2, <2>3, <2>4 DEF Fails
<1> QED BY <1>3, <1>4

(* What Stripe lists of an invoice is the last it said of it.              *)
LEMMA LatestIs ==
  ASSUME Typed, NEW k, NEW p \in Periods
  PROVE  \/ /\ Latest(k, p) = "none"
            /\ \A d \in DOMAIN log : log[d].kind = "invoice" /\ log[d].period = p => log[d].customer # k
         \/ \E e \in DOMAIN log :
              /\ log[e].kind = "invoice" /\ log[e].period = p /\ log[e].customer = k
              /\ Latest(k, p) = log[e].status /\ log[e].status \in {"open", "paid"}
              /\ \A d \in DOMAIN log :
                   log[d].kind = "invoice" /\ log[d].period = p /\ log[d].customer = k => d <= e
<1> DEFINE of == {e \in DOMAIN log : /\ log[e].kind = "invoice" /\ log[e].period = p
                                     /\ log[e].customer = k}
<1>1. CASE of = {}
  BY <1>1 DEF Latest
<1>2. CASE of # {}
  <2> DEFINE e == CHOOSE e \in of : \A d \in of : d <= e
  <2>1. log \in Seq(Events) /\ DOMAIN log = 1..Len(log) /\ Len(log) \in Nat
    BY DEF Typed
  <2>2. of \subseteq 1..Len(log)
    BY <2>1
  <2>3. \E m \in of : \A d \in of : d <= m
    <3> HIDE DEF of
    <3> QED BY <1>2, <2>1, <2>2, LastOf
  <2>4. e \in of /\ \A d \in of : d <= e
    <3> HIDE DEF of
    <3> QED BY <2>3
  <2>5. log[e].status \in {"open", "paid"}
    BY <2>1, <2>4, EventKinds DEF InvoiceEvents
  <2>6. Latest(k, p) = log[e].status
    BY <1>2 DEF Latest
  <2> HIDE DEF e
  <2> QED BY <2>4, <2>5, <2>6
<1> QED BY <1>1, <1>2

LEMMA LatestTyped ==
  ASSUME Typed, NEW k, NEW p \in Periods
  PROVE  Latest(k, p) \in {"none", "open", "paid"}
BY LatestIs

(* Stripe ends a subscription for a request, which has yet to tell the row. *)
Ending(r) ==
  /\ MayRequest(r) /\ remote'[account.sub] # remote[account.sub] /\ remote'[account.sub].ending
  /\ \E q \in Requesting : q.pc = "ending" /\ request' = [request EXCEPT ![r] = q]

Changes ==
  /\ account.sub \in Subs /\ Continues(account.sub) /\ account' = account
  /\ request' = request \/ \E r \in Requests : Ending(r)

Waits(r) == \E q \in Requesting : Asks(r, q) /\ (Begins(r, q) \/ Finds(r, q) \/ Lists(r, q))

LEMMA CheckoutSteps ==
  ASSUME Typed, NEW r \in Requests, NEW p \in Plans, Checkout(r, p)
  PROVE  Waits(r)
<1>1. StripeSame /\ UNCHANGED <<customers, sessions, account, invoice>> /\ MayRequest(r)
  BY DEF Checkout, StripeSame, stripe, local, effects
<1>2. p \in PlanOrNone /\ account.customer \in Nat
  BY DEF PlanOrNone, Typed, Accounts
<1>3. CASE ~HasCustomer
  <2> DEFINE q == [free EXCEPT !.pc = "checkout", !.locked = TRUE, !.plan = p]
  <2>1. q \in Requesting /\ request' = [request EXCEPT ![r] = q]
    BY <1>2, <1>3, FreeTyped DEF Checkout, Goes, Requesting, Places
  <2>2. q.pc = "checkout"
    BY FreeTyped DEF Requesting
  <2> HIDE DEF q
  <2> QED BY <1>1, <1>3, <2>1, <2>2 DEF Waits, Asks, Begins
<1>4. ASSUME HasCustomer, NEW s \in ActiveOf(account.customer), Goes(r, Found(s, TRUE))
      PROVE  Waits(r)
  <2>1. s \in Subs /\ Entitled(s) /\ s \in 0..MaxSubs /\ remote[s].status \in SubStatuses
    BY <1>4, Bounds DEF ActiveOf, Subs, Typed, Remotes
  <2>2. Found(s, TRUE) \in Requesting /\ request' = [request EXCEPT ![r] = Found(s, TRUE)]
    BY <1>4, <2>1, FreeTyped DEF Found, Goes, Requesting, Places
  <2>3. /\ Found(s, TRUE).pc = "linking" /\ Found(s, TRUE).sub = s
        /\ Found(s, TRUE).status = remote[s].status
    BY FreeTyped DEF Found, Requesting
  <2> QED BY <1>1, <2>1, <2>2, <2>3 DEF Waits, Asks, Finds
<1>5. ASSUME HasCustomer, ActiveOf(account.customer) = {},
             Goes(r, [free EXCEPT !.pc = "opening", !.locked = TRUE, !.plan = p,
                                  !.customer = account.customer])
      PROVE  Waits(r)
  <2> DEFINE q == [free EXCEPT !.pc = "opening", !.locked = TRUE, !.plan = p,
                               !.customer = account.customer]
  <2>1. q \in Requesting /\ request' = [request EXCEPT ![r] = q]
    BY <1>2, <1>5, FreeTyped DEF Goes, Requesting, Places
  <2>2. q.pc = "opening" /\ q.customer = account.customer
    BY FreeTyped DEF Requesting
  <2> HIDE DEF q
  <2> QED BY <1>1, <1>5, <2>1, <2>2 DEF Waits, Asks, Begins
<1> QED BY <1>3, <1>4, <1>5 DEF Checkout

LEMMA PortalSteps ==
  ASSUME Typed, NEW r \in Requests, Portal(r) \/ Ask(r)
  PROVE  Waits(r)
<1>1. StripeSame /\ UNCHANGED <<customers, sessions, account, invoice>>
  BY DEF Portal, Ask, StripeSame, stripe, local, effects
<1>2. account.customer \in Nat
  BY DEF Typed, Accounts
<1>3. ASSUME NEW q, q = [free EXCEPT !.pc = "portal"] \/
                    q = [free EXCEPT !.pc = "asking", !.customer = account.customer] \/ q = free
      PROVE  /\ q \in Requesting
             /\ q = [free EXCEPT !.pc = "portal"] => q.pc = "portal"
             /\ q = [free EXCEPT !.pc = "asking", !.customer = account.customer] =>
                  q.pc = "asking" /\ q.customer = account.customer
             /\ q = free => q.pc = "idle"
  <2>1. q \in Requesting
    BY <1>2, <1>3, FreeTyped DEF Requesting, Places
  <2> QED BY <2>1, FreeTyped DEF Requesting
<1>4. CASE Portal(r)
  <2>1. CASE ~HasCustomer
    <3> DEFINE q == [free EXCEPT !.pc = "portal"]
    <3>1. request' = [request EXCEPT ![r] = q]
      BY <1>4, <2>1 DEF Portal, Goes
    <3>2. q \in Requesting /\ q.pc = "portal"
      BY <1>3
    <3> HIDE DEF q
    <3> QED BY <1>1, <1>4, <2>1, <3>1, <3>2 DEF Waits, Asks, Begins, Portal
  <2>2. CASE HasCustomer
    <3> DEFINE q == [free EXCEPT !.pc = "asking", !.customer = account.customer]
    <3>1. request' = [request EXCEPT ![r] = q]
      BY <1>4, <2>2 DEF Portal, Goes
    <3>2. q \in Requesting /\ q.pc = "asking" /\ q.customer = account.customer
      BY <1>3
    <3> HIDE DEF q
    <3> QED BY <1>1, <1>4, <2>2, <3>1, <3>2 DEF Waits, Asks, Begins, Portal
  <2> QED BY <2>1, <2>2
<1>5. CASE Ask(r)
  <2>1. ASSUME NEW s \in ActiveOf(request[r].customer), Goes(r, Found(s, FALSE))
        PROVE  Waits(r)
    <3>1. s \in Subs /\ Entitled(s) /\ s \in 0..MaxSubs /\ remote[s].status \in SubStatuses
      BY <2>1, Bounds DEF ActiveOf, Subs, Typed, Remotes
    <3>2. Found(s, FALSE) \in Requesting /\ request' = [request EXCEPT ![r] = Found(s, FALSE)]
      BY <2>1, <3>1, FreeTyped DEF Found, Goes, Requesting, Places
    <3>3. /\ Found(s, FALSE).pc = "linking" /\ Found(s, FALSE).sub = s
          /\ Found(s, FALSE).status = remote[s].status
      BY FreeTyped DEF Found, Requesting
    <3> QED BY <1>1, <1>5, <3>1, <3>2, <3>3 DEF Waits, Asks, Finds, Ask
  <2>2. CASE Goes(r, free)
    <3>1. free \in Requesting /\ free.pc = "idle"
      BY FreeTyped
    <3> HIDE DEF free
    <3> QED BY <1>1, <2>2, <3>1 DEF Waits, Asks, Begins, Goes
  <2> QED BY <1>5, <2>1, <2>2 DEF Ask
<1> QED BY <1>4, <1>5

LEMMA ListingSteps ==
  ASSUME Typed, NEW r \in Requests, Backfill(r) \/ Compare(r)
  PROVE  Waits(r)
<1>1. StripeSame /\ UNCHANGED <<customers, sessions, account, invoice>>
  BY DEF Backfill, Compare, StripeSame, stripe, local, effects
<1>2. CASE Backfill(r)
  <2> DEFINE i == [p \in Periods |-> Latest(account.customer, p)]
             q == [free EXCEPT !.pc = "listed", !.list = i]
  <2>1. i \in InvoiceLists
    BY LatestTyped DEF InvoiceLists
  <2>2. \A p \in Periods : i[p] = Latest(account.customer, p)
    OBVIOUS
  <2>3. Goes(r, q) /\ MayRequest(r) /\ HasCustomer
    BY <1>2 DEF Backfill
  <2> HIDE DEF i
  <2>4. q \in Requesting
    BY <2>1, FreeTyped DEF Requesting, Places
  <2>5. q.pc = "listed" /\ q.list = i
    BY FreeTyped DEF Requesting
  <2> HIDE DEF q
  <2> QED BY <1>1, <2>2, <2>3, <2>4, <2>5 DEF Waits, Asks, Lists, Goes
<1>3. CASE Compare(r)
  <2> DEFINE i == [p \in Periods |-> invoice[p].status]
             q == [request[r] EXCEPT !.pc = "compared", !.read = i]
  <2>1. i \in InvoiceLists
    BY DEF InvoiceLists, Typed, Invoices
  <2>2. \A p \in Periods : i[p] = invoice[p].status
    OBVIOUS
  <2>3. Goes(r, q) /\ request[r].pc = "listed" /\ request[r] \in Requesting
    BY <1>3 DEF Compare, Typed
  <2> HIDE DEF i
  <2>4. q \in Requesting /\ q.pc = "compared" /\ q.list = request[r].list /\ q.read = i
    BY <2>1, <2>3 DEF Requesting, Places
  <2> HIDE DEF q
  <2> QED BY <1>1, <2>2, <2>3, <2>4 DEF Waits, Asks, Lists, Goes
<1> QED BY <1>2, <1>3

LEMMA SaveSteps ==
  ASSUME Typed, NEW r \in Requests, Save(r)
  PROVE  Saves(r)
<1> DEFINE q == request[r]
<1>1. /\ q \in Requesting /\ q.pc = "compared" /\ StripeSame
      /\ UNCHANGED <<customers, sessions, account>> /\ request' = [request EXCEPT ![r] = free]
  BY DEF Typed, Save, Goes, StripeSame, stripe, effects
<1>2. invoice' = [p \in Periods |->
        IF Listed(r, p) /\ q.list[p] # q.read[p] /\ ~Refused(r)
        THEN [invoice[p] EXCEPT !.status = q.list[p]] ELSE invoice[p]]
  BY DEF Save
<1>3. ASSUME NEW p \in Periods
      PROVE  /\ invoice[p] \in [status : {"none", "open", "paid"}, emailed : BOOLEAN]
             /\ q.list[p] \in {"none", "open", "paid"}
  <2>1. q.list \in InvoiceLists
    BY <1>1 DEF Requesting
  <2> QED BY <2>1 DEF Typed, Invoices, InvoiceLists
<1> HIDE DEF q
<1>4. ASSUME NEW p \in Periods
      PROVE  /\ invoice'[p] \in [status : {"none", "open", "paid"}, emailed : BOOLEAN]
             /\ invoice'[p].emailed = invoice[p].emailed
             /\ \/ invoice'[p].status = invoice[p].status
                \/ /\ q.list[p] \notin {"none", q.read[p]}
                   /\ invoice'[p].status = q.list[p]
             /\ q.list[p] # "none" /\ q.list[p] # q.read[p] /\ ~Refused(r) =>
                  invoice'[p].status = q.list[p]
  <2>1. CASE Listed(r, p) /\ q.list[p] # q.read[p] /\ ~Refused(r)
    <3>1. invoice'[p] = [invoice[p] EXCEPT !.status = q.list[p]]
      BY <1>2, <2>1
    <3> QED BY <1>3, <2>1, <3>1 DEF Listed, q
  <2>2. CASE ~(Listed(r, p) /\ q.list[p] # q.read[p] /\ ~Refused(r))
    <3>1. invoice'[p] = invoice[p]
      BY <1>2, <2>2
    <3> QED BY <1>3, <2>2, <3>1 DEF Listed, q
  <2> QED BY <2>1, <2>2
<1>5. invoice' \in Invoices
  BY <1>2, <1>4 DEF Invoices
<1>6. ASSUME \A p \in Periods : q.read[p] = invoice[p].status, NEW p \in Periods,
             q.list[p] # "none"
      PROVE  invoice'[p].status = q.list[p]
  <2>1. ~Refused(r)
    BY <1>6 DEF Refused, q
  <2> QED BY <1>4, <1>6, <2>1
<1> QED BY <1>1, <1>4, <1>5, <1>6 DEF Saves, q

LEMMA UserSteps ==
  ASSUME Typed, User
  PROVE  \/ \E r \in Requests : Waits(r) \/ Links(r) \/ Opens(r) \/ Creates(r) \/ Saves(r)
         \/ Changes
<1>1. ASSUME NEW r \in Requests, Link(r) \/ MarkEnding(r)
      PROVE  Links(r)
  BY <1>1 DEF Link, MarkEnding, Links, Goes, StripeSame, stripe, effects
<1>2. ASSUME NEW r \in Requests, Open(r)
      PROVE  Opens(r)
  <2>1. request[r].plan \in PlanOrNone
    BY DEF Typed, Requesting
  <2> QED BY <1>2, <2>1 DEF Open, OpenSession, Opens, Goes, StripeSame, local, effects
<1>3. ASSUME NEW r \in Requests, CreateCustomer(r)
      PROVE  Creates(r)
  <2> DEFINE o == [free EXCEPT !.pc = "opening", !.plan = request[r].plan,
                               !.customer = customers + 1]
             a == [free EXCEPT !.pc = "asking", !.customer = customers + 1]
  <2>1. request[r].plan \in PlanOrNone /\ customers + 1 \in Nat
    BY DEF Typed, Requesting
  <2>2. o \in Requesting /\ a \in Requesting
    BY <2>1, FreeTyped DEF Requesting, Places
  <2>3. /\ o.pc = "opening" /\ o.customer = customers + 1
        /\ a.pc = "asking" /\ a.customer = customers + 1
    BY FreeTyped DEF Requesting
  <2>4. request' = [request EXCEPT ![r] = o] \/ request' = [request EXCEPT ![r] = a]
    BY <1>3 DEF CreateCustomer, Goes
  <2>5. \E q \in Requesting :
          /\ request' = [request EXCEPT ![r] = q]
          /\ q.pc \in {"opening", "asking"} /\ q.customer = customers + 1
    <3> HIDE DEF o, a
    <3> QED BY <2>2, <2>3, <2>4
  <2> QED BY <1>3, <2>5 DEF CreateCustomer, Creates, StripeSame, effects
<1>4. ASSUME NEW r \in Requests, CancelSubscription(r)
      PROVE  Changes
  <2> DEFINE q == [free EXCEPT !.pc = "ending", !.ending = account.ending]
  <2>1. q \in Requesting
    <3>1. account.ending \in BOOLEAN
      BY DEF Typed, Accounts
    <3> QED BY <3>1, FreeTyped DEF Requesting, Places
  <2>2. q.pc = "ending"
    BY FreeTyped DEF Requesting
  <2> HIDE DEF q
  <2> QED BY <1>4, <2>1, <2>2, CancelTells DEF Changes, Ending, CancelSubscription, q
<1>5. ASSUME NEW p \in Plans, ChangePlan(p)
      PROVE  Changes
  BY <1>5, ChangePlanTells DEF Changes, ChangePlan
<1> QED BY <1>1, <1>2, <1>3, <1>4, <1>5, CheckoutSteps, PortalSteps, ListingSteps, SaveSteps
    DEF User, GoesOn

Receives(h, e) ==
  /\ e \in DOMAIN log /\ ~Busy(h) /\ Fresh(e) /\ MyTurn(e)
  /\ handler' = [handler EXCEPT ![h] = [event |-> e, account |-> account, invoice |-> invoice]]
  /\ HookSame /\ UNCHANGED <<processed, account, invoice, period, renewals, emails>>

LEMMA WebhookSteps ==
  ASSUME Typed, NEW h \in Handlers, Webhook(h)
  PROVE  Commits(h) \/ Fails(h) \/ \E e \in DOMAIN log : Receives(h, e)
<1>1. ASSUME NEW e \in DOMAIN log, Receive(h, e) PROVE Receives(h, e)
  BY <1>1 DEF Receive, Receives, Busy, HookSame, stripe, local, effects
<1> QED BY <1>1, CommitSteps, FailSteps DEF Webhook

-----------------------------------------------------------------------------
(* The types.                                                              *)

LEMMA InitTyped == Init => Typed
<1> SUFFICES ASSUME Init PROVE Typed
  OBVIOUS
<1>1. /\ <<>> \in Seq(Sessions) /\ Len(<<>>) = 0 /\ <<>> \in Seq(Events) /\ DOMAIN <<>> = {}
  OBVIOUS
<1>2. /\ request \in [Requests -> Requesting]
      /\ customers \in Nat /\ month \in Periods /\ processed \subseteq DOMAIN log
      /\ handler \in [Handlers -> {waiting} \cup Deliveries]
      /\ \A h \in Handlers : ~Busy(h)
  <2>1. request \in [Requests -> Requesting]
    BY FreeTyped DEF Init
  <2> QED BY <2>1, Bounds DEF Init, Periods, waiting, Busy
<1>3. /\ period \in 0..MaxPeriods /\ renewals \in [Periods -> Nat] /\ emails \in [Periods -> 0..2]
      /\ invoice \in Invoices
  BY Bounds DEF Init, Invoices
<1>4. account \in Accounts
  BY Bounds DEF Init, Accounts, None, SubStatuses, PlanOrNone
<1>5. remote \in [Subs -> Remotes]
  BY DEF Init, Remotes, None, SubStatuses, PlanOrNone
<1>6. Len(sessions) <= MaxSessions /\ Len(log) <= MaxEvents
  BY <1>1, Bounds DEF Init
<1> QED BY <1>1, <1>2, <1>3, <1>4, <1>5, <1>6 DEF Init, Typed

LEMMA StripeTyped ==
  ASSUME Typed, Grew, LocalSame, account' \in Accounts, sessions' \in Seq(Sessions),
         Len(sessions') <= MaxSessions, remote' \in [Subs -> Remotes], month' \in Periods,
         request' \in [Requests -> Requesting]
  PROVE  Typed'
<1>1. DOMAIN log \subseteq DOMAIN log'
  BY DEF Grew, Typed
<1>2. /\ log' \in Seq(Events) /\ Len(log') <= MaxEvents /\ processed' \subseteq DOMAIN log'
      /\ \A h \in Handlers : handler'[h].event # None => handler'[h].event \in DOMAIN log'
  BY <1>1 DEF Grew, LocalSame, Typed, Busy
<1>3. /\ request' \in [Requests -> Requesting]
      /\ customers' \in Nat /\ handler' \in [Handlers -> {waiting} \cup Deliveries]
  BY DEF Typed, LocalSame
<1>4. /\ invoice' \in Invoices /\ period' \in 0..MaxPeriods /\ renewals' \in [Periods -> Nat]
      /\ emails' \in [Periods -> 0..2] /\ profile' \in Profiles
  BY DEF Typed, LocalSame
<1> QED BY <1>2, <1>3, <1>4 DEF Typed, Busy

LEMMA OpensTyped ==
  ASSUME Typed, NEW r \in Requests, Opens(r)
  PROVE  sessions' \in Seq(Sessions) /\ Len(sessions') <= MaxSessions
<1>1. CASE UNCHANGED sessions
  BY <1>1 DEF Typed
<1>2. CASE ~UNCHANGED sessions
  <2> DEFINE k == request[r].customer
  <2>1. PICK p \in PlanOrNone :
          sessions' = Append(sessions, [customer |-> k, plan |-> p, open |-> TRUE])
    BY <1>2 DEF Opens
  <2>2. k \in Nat
    BY DEF Typed, Requesting
  <2> HIDE DEF k
  <2>3. [customer |-> k, plan |-> p, open |-> TRUE] \in Sessions
    BY <2>2 DEF Sessions
  <2>4. sessions \in Seq(Sessions) /\ Len(sessions) < MaxSessions
    BY <1>2 DEF Opens, Typed
  <2> QED BY <2>1, <2>3, <2>4, Bounds
<1> QED BY <1>1, <1>2

LEMMA UserTyped ==
  ASSUME Typed, StripeSame, customers' \in Nat, account' \in Accounts, invoice' \in Invoices,
         request' \in [Requests -> Requesting],
         sessions' \in Seq(Sessions), Len(sessions') <= MaxSessions
  PROVE  Typed'
<1>1. /\ remote' \in [Subs -> Remotes] /\ month' \in Periods
      /\ log' \in Seq(Events) /\ Len(log') <= MaxEvents /\ processed' \subseteq DOMAIN log'
      /\ handler' \in [Handlers -> {waiting} \cup Deliveries]
      /\ \A h \in Handlers : handler'[h].event # None => handler'[h].event \in DOMAIN log'
  BY DEF Typed, StripeSame, Busy
<1>2. /\ period' \in 0..MaxPeriods /\ renewals' \in [Periods -> Nat]
      /\ emails' \in [Periods -> 0..2] /\ profile' \in Profiles
  BY DEF Typed, StripeSame
<1> QED BY <1>1, <1>2 DEF Typed, Busy

LEMMA HookTyped ==
  ASSUME Typed, HookSame, account' \in Accounts, invoice' \in Invoices,
         processed' \subseteq DOMAIN log,
         handler' \in [Handlers -> {waiting} \cup Deliveries],
         \A h \in Handlers : handler'[h].event # None => handler'[h].event \in DOMAIN log,
         period' \in 0..MaxPeriods, renewals' \in [Periods -> Nat], emails' \in [Periods -> 0..2]
  PROVE  Typed'
<1>1. /\ request' \in [Requests -> Requesting]
      /\ customers' \in Nat /\ remote' \in [Subs -> Remotes] /\ month' \in Periods
      /\ profile' \in Profiles
  BY DEF Typed, HookSame
<1>2. /\ log' \in Seq(Events) /\ Len(log') <= MaxEvents /\ log' = log
      /\ sessions' \in Seq(Sessions) /\ Len(sessions') <= MaxSessions
  BY DEF Typed, HookSame
<1> QED BY <1>1, <1>2 DEF Typed, Busy

LEMMA NextTyped == Typed /\ [Next]_vars => Typed'
<1> SUFFICES ASSUME Typed, [Next]_vars PROVE Typed'
  OBVIOUS
<1>1. CASE Stripe
  <2>1. account' = account /\ sessions' \in Seq(Sessions) /\ Len(sessions') = Len(sessions)
    BY <1>1, StripeSteps
  <2>2. account' \in Accounts /\ sessions' \in Seq(Sessions) /\ Len(sessions') <= MaxSessions
    BY <2>1 DEF Typed
  <2>3. Grew /\ LocalSame /\ remote' \in [Subs -> Remotes] /\ month' \in Periods
    <3>1. CASE \E i \in DOMAIN sessions : Pay(i)
      BY <3>1, PayTells DEF Told
    <3>2. CASE \E s \in Subs : Continues(s)
      BY <3>2 DEF Continues, Told
    <3>3. CASE \E e \in DOMAIN log : Repeated(e)
      BY <3>3 DEF Repeated, Typed
    <3> QED BY <1>1, <3>1, <3>2, <3>3, StripeSteps
  <2>4. request' \in [Requests -> Requesting]
    BY <1>1, StripeSteps DEF Typed
  <2> QED BY <2>2, <2>3, <2>4, StripeTyped
<1>2. ASSUME NEW r \in Requests, Waits(r) PROVE Typed'
  <2>1. PICK q \in Requesting : Asks(r, q)
    BY <1>2 DEF Waits
  <2>2. request' \in [Requests -> Requesting]
    BY <2>1 DEF Asks, Typed
  <2>3. /\ customers' \in Nat /\ account' \in Accounts /\ invoice' \in Invoices
        /\ sessions' \in Seq(Sessions) /\ Len(sessions') <= MaxSessions /\ StripeSame
    BY <2>1 DEF Asks, Typed
  <2> QED BY <2>2, <2>3, UserTyped
<1>3. ASSUME NEW r \in Requests, Creates(r) PROVE Typed'
  <2>1. request' \in [Requests -> Requesting]
    BY <1>3 DEF Creates, Typed
  <2>2. customers' \in Nat /\ customers + 1 \in Nat /\ account' \in Accounts
    <3>1. customers' \in Nat /\ customers + 1 \in Nat
      BY <1>3 DEF Creates, Typed
    <3>2. account \in Accounts /\ account' = [account EXCEPT !.customer = customers + 1]
      BY <1>3 DEF Creates, Typed
    <3> QED BY <3>1, <3>2 DEF Accounts
  <2>3. /\ sessions' \in Seq(Sessions) /\ Len(sessions') <= MaxSessions
        /\ invoice' \in Invoices /\ StripeSame
    BY <1>3 DEF Creates, Typed
  <2> QED BY <2>1, <2>2, <2>3, UserTyped
<1>4. ASSUME NEW r \in Requests, request' = [request EXCEPT ![r] = free]
      PROVE  request' \in [Requests -> Requesting]
  <2>1. free \in Requesting
    BY FreeTyped
  <2> HIDE DEF free
  <2> QED BY <1>4, <2>1 DEF Typed
<1>5. ASSUME NEW r \in Requests, Links(r) PROVE Typed'
  <2>1. /\ request[r].sub \in 0..MaxSubs /\ request[r].status \in SubStatuses
        /\ request[r].ending \in BOOLEAN /\ account \in Accounts
    BY DEF Typed, Requesting
  <2>2. account' \in Accounts
    BY <1>5, <2>1 DEF Links, Accounts
  <2>3. request' \in [Requests -> Requesting]
    BY <1>4, <1>5 DEF Links
  <2>4. /\ customers' \in Nat /\ invoice' \in Invoices /\ StripeSame
        /\ sessions' \in Seq(Sessions) /\ Len(sessions') <= MaxSessions
    BY <1>5 DEF Links, Typed
  <2> QED BY <2>2, <2>3, <2>4, UserTyped
<1>6. ASSUME NEW r \in Requests, Opens(r) PROVE Typed'
  <2>1. sessions' \in Seq(Sessions) /\ Len(sessions') <= MaxSessions
    BY <1>6, OpensTyped
  <2>2. request' \in [Requests -> Requesting]
    BY <1>4, <1>6 DEF Opens
  <2>3. customers' \in Nat /\ account' \in Accounts /\ invoice' \in Invoices /\ StripeSame
    BY <1>6 DEF Opens, Typed
  <2> QED BY <2>1, <2>2, <2>3, UserTyped
<1>7. ASSUME NEW r \in Requests, Saves(r) PROVE Typed'
  <2>1. request' \in [Requests -> Requesting]
    BY <1>4, <1>7 DEF Saves
  <2>2. /\ customers' \in Nat /\ account' \in Accounts /\ invoice' \in Invoices /\ StripeSame
        /\ sessions' \in Seq(Sessions) /\ Len(sessions') <= MaxSessions
    BY <1>7 DEF Saves, Typed
  <2> QED BY <2>1, <2>2, UserTyped
<1>14. CASE Changes
  <2>1. account' \in Accounts
    BY <1>14 DEF Changes, Typed
  <2>2. sessions' \in Seq(Sessions) /\ Len(sessions') <= MaxSessions
    BY <1>14 DEF Changes, Continues, Typed
  <2>3. request' \in [Requests -> Requesting]
    BY <1>14 DEF Changes, Ending, Typed
  <2> QED BY <1>14, <2>1, <2>2, <2>3, StripeTyped DEF Changes, Continues, Told
<1>8. ASSUME NEW h \in Handlers, Commits(h) PROVE Typed'
  <2> DEFINE e == handler[h].event
  <2>1. /\ processed' \subseteq DOMAIN log /\ HookSame
        /\ handler' \in [Handlers -> {waiting} \cup Deliveries]
        /\ \A g \in Handlers : handler'[g].event # None => handler'[g].event \in DOMAIN log
    BY <1>8 DEF Commits, Typed, Busy, waiting
  <2>2. CASE CommitsSub(h, e)
    <3>1. /\ account' \in Accounts /\ invoice' \in Invoices /\ period' \in 0..MaxPeriods
          /\ renewals' \in [Periods -> Nat] /\ emails' \in [Periods -> 0..2]
      BY <2>2 DEF CommitsSub, Typed
    <3> QED BY <2>1, <3>1, HookTyped
  <2>3. CASE CommitsInvoice(h, e)
    <3> DEFINE p == log[e].period
    <3>1. p \in Periods
      <4>1. log[e] \in InvoiceEvents
        BY <2>3 DEF CommitsInvoice
      <4> QED BY <4>1 DEF InvoiceEvents
    <3>2. p \in 0..MaxPeriods
      BY <3>1, Bounds DEF Periods
    <3>3. \/ period' = p /\ renewals' = [renewals EXCEPT ![p] = 1]
          \/ UNCHANGED <<period, renewals>>
      BY <2>3 DEF CommitsInvoice
    <3>4. period \in 0..MaxPeriods /\ renewals \in [Periods -> Nat]
      BY DEF Typed
    <3> HIDE DEF p
    <3>5. period' \in 0..MaxPeriods /\ renewals' \in [Periods -> Nat]
      BY <3>1, <3>2, <3>3, <3>4
    <3>6. account' \in Accounts /\ invoice' \in Invoices /\ emails' \in [Periods -> 0..2]
      BY <2>3 DEF CommitsInvoice, Typed
    <3> QED BY <2>1, <3>5, <3>6, HookTyped
  <2> QED BY <1>8, <2>2, <2>3 DEF Commits
<1>9. ASSUME NEW h \in Handlers, Fails(h) PROVE Typed'
  <2>1. /\ processed' \subseteq DOMAIN log /\ HookSame
        /\ handler' \in [Handlers -> {waiting} \cup Deliveries]
        /\ \A g \in Handlers : handler'[g].event # None => handler'[g].event \in DOMAIN log
    BY <1>9 DEF Fails, Typed, Busy, waiting
  <2>2. /\ account' \in Accounts /\ invoice' \in Invoices /\ period' \in 0..MaxPeriods
        /\ renewals' \in [Periods -> Nat] /\ emails' \in [Periods -> 0..2]
    BY <1>9 DEF Fails, Typed
  <2> QED BY <2>1, <2>2, HookTyped
<1>10. ASSUME NEW h \in Handlers, NEW e \in DOMAIN log, Receives(h, e) PROVE Typed'
  <2>1. [event |-> e, account |-> account, invoice |-> invoice] \in Deliveries
    BY DEF Deliveries, Typed
  <2>2. /\ processed' \subseteq DOMAIN log /\ HookSame
        /\ handler' \in [Handlers -> {waiting} \cup Deliveries]
        /\ \A g \in Handlers : handler'[g].event # None => handler'[g].event \in DOMAIN log
    BY <1>10, <2>1 DEF Receives, Typed, Busy
  <2>3. /\ account' \in Accounts /\ invoice' \in Invoices /\ period' \in 0..MaxPeriods
        /\ renewals' \in [Periods -> Nat] /\ emails' \in [Periods -> 0..2]
    BY <1>10 DEF Receives, Typed
  <2> QED BY <2>2, <2>3, HookTyped
<1>11. CASE UNCHANGED vars
  BY <1>11 DEF vars, stripe, local, effects, Typed, Busy
<1>12. CASE User
  BY <1>2, <1>3, <1>5, <1>6, <1>7, <1>12, <1>14, UserSteps
<1>13. CASE \E h \in Handlers : Webhook(h)
  BY <1>8, <1>9, <1>10, <1>13, WebhookSteps
<1> QED BY <1>1, <1>11, <1>12, <1>13 DEF Next

-----------------------------------------------------------------------------
(* The history of the invoices.                                            *)

IsInvoice(e) == log[e].kind = "invoice"
IsPaid(e)    == IsInvoice(e) /\ log[e].status = "paid"
InOrder      == "reordered" \notin profile

(* No period is invoiced ahead, and one said to be paid after a later one   *)
(* was said to be paid before it.                                           *)
LogInv ==
  /\ \A e \in DOMAIN log : IsInvoice(e) => log[e].period <= month
  /\ \A d, e \in DOMAIN log :
       d < e /\ IsInvoice(d) /\ IsPaid(e) /\ log[d].period > log[e].period
       => \E c \in DOMAIN log : c < d /\ IsPaid(c) /\ log[c].period = log[e].period

(* In order, one handler works, on the event after those processed.        *)
OrderInv ==
  InOrder =>
    /\ \A h, g \in Handlers : Busy(h) /\ Busy(g) => h = g
    /\ \A e \in processed : 1..e \subseteq processed
    /\ \A h \in Handlers :
         Busy(h) => handler[h].event \notin processed
                    /\ 1..(handler[h].event - 1) \subseteq processed

(* A paid invoice that was processed has renewed its period and is a row,   *)
(* and, in order, the balance's period is that of such an invoice.          *)
PeriodInv ==
  /\ \A e \in processed : IsPaid(e) => renewals[log[e].period] # 0
  /\ \A p \in Periods : renewals[p] # 0 => invoice[p].status # "none"
  /\ \A h \in Handlers, p \in Periods :
       Busy(h) /\ handler[h].invoice[p].status # "none" => invoice[p].status # "none"
  /\ period # 0 => renewals[period] # 0
  /\ InOrder /\ period # 0 => \E d \in processed : IsInvoice(d) /\ log[d].period = period

(* In order, a handler's copy knows whether an e-mail was sent.            *)
EmailInv ==
  /\ \A p \in Periods : invoice[p].emailed => renewals[p] # 0
  /\ \A h \in Handlers, p \in Periods : Busy(h) /\ InOrder =>
       /\ handler[h].invoice[p].emailed = invoice[p].emailed
       /\ handler[h].invoice[p].status = "none" => renewals[p] = 0
  /\ profile \cap {"reordered", "failure"} = {} =>
       \A p \in Periods : emails[p] # 0 => invoice[p].emailed

HistoryInv == LogInv /\ OrderInv /\ PeriodInv /\ EmailInv

Aside == StripeSame /\ UNCHANGED invoice

LEMMA HistorySteps ==
  ASSUME Typed, [Next]_vars
  PROVE  \/ \E s \in Subs : Told(s)
         \/ \E e \in DOMAIN log : Repeated(e)
         \/ Aside \/ \E r \in Requests : Saves(r)
         \/ \E h \in Handlers : Commits(h) \/ Fails(h) \/ \E e \in DOMAIN log : Receives(h, e)
<1>1. CASE Stripe
  BY <1>1, StripeSteps, PayTells DEF Continues
<1>2. CASE User
  <2>1. ASSUME NEW r \in Requests, Waits(r) \/ Links(r) \/ Opens(r) \/ Creates(r)
        PROVE  Aside
    BY <2>1 DEF Waits, Aside, Asks, Links, Opens, Creates
  <2>2. Changes => \E s \in Subs : Told(s)
    BY DEF Changes, Continues
  <2> QED BY <1>2, <2>1, <2>2, UserSteps
<1>3. CASE \E h \in Handlers : Webhook(h)
  BY <1>3, WebhookSteps
<1>4. CASE UNCHANGED vars
  BY <1>4 DEF vars, stripe, local, effects, Aside, StripeSame
<1> QED BY <1>1, <1>2, <1>3, <1>4 DEF Next

LEMMA InitHistory == Init => HistoryInv
<1> SUFFICES ASSUME Init PROVE HistoryInv
  OBVIOUS
<1>1. DOMAIN log = {} /\ processed = {} /\ period = 0 /\ \A h \in Handlers : ~Busy(h)
  BY DEF Init, Busy, waiting
<1>2. \A p \in Periods : renewals[p] = 0 /\ emails[p] = 0 /\ ~invoice[p].emailed
  BY DEF Init
<1> QED BY <1>1, <1>2 DEF HistoryInv, LogInv, OrderInv, PeriodInv, EmailInv

(* The log grows without a renewal or an e-mail.                           *)
LEMMA GrewHistory ==
  ASSUME Typed, HistoryInv, Grew, LocalSame
  PROVE  OrderInv' /\ PeriodInv' /\ EmailInv'
<1>1. /\ UNCHANGED <<handler, processed, invoice, period, renewals, emails, profile>>
      /\ processed \subseteq DOMAIN log /\ \A e \in DOMAIN log : log'[e] = log[e]
  BY DEF LocalSame, Typed, Grew
<1>2. OrderInv'
  BY <1>1 DEF HistoryInv, OrderInv, InOrder, Busy
<1>3. PeriodInv'
  <2>1. \A e \in processed : log'[e] = log[e]
    BY <1>1
  <2> QED BY <1>1, <2>1 DEF HistoryInv, PeriodInv, InOrder, Busy, IsPaid, IsInvoice
<1>4. EmailInv'
  BY <1>1 DEF HistoryInv, EmailInv, InOrder, Busy
<1> QED BY <1>2, <1>3, <1>4

LEMMA InvoiceTyped ==
  ASSUME Typed, NEW e \in DOMAIN log, log[e].kind = "invoice"
  PROVE  log[e] \in InvoiceEvents /\ log[e].period \in Nat /\ log[e].period \in Periods
<1>1. log[e] \in Events
  BY DEF Typed
<1> QED BY <1>1, EventKinds, Bounds DEF InvoiceEvents, Periods

LEMMA ToldLog ==
  ASSUME Typed, HistoryInv, NEW s \in Subs, Told(s)
  PROVE  LogInv'
<1>1. /\ \A e \in DOMAIN log : log'[e] = log[e] /\ e \in DOMAIN log'
      /\ \A e \in DOMAIN log' : e \in DOMAIN log \/ e \in New
      /\ \A e \in New, d \in DOMAIN log : d < e
      /\ \A e \in DOMAIN log' : e \in Nat
  BY DEF Told, Grew, Typed, New
<1>2. /\ \A e \in New : log'[e].kind = "invoice" => log'[e].period = month'
      /\ \A d, e \in New : log'[d].kind = "invoice" /\ log'[e].kind = "invoice" => d = e
      /\ month <= month' /\ month \in Nat /\ month' \in Nat
  BY Bounds DEF Told, Typed, Periods
<1>3. \A e \in DOMAIN log' : log'[e].kind = "invoice" => log'[e].period <= month'
  BY <1>1, <1>2, InvoiceTyped DEF HistoryInv, LogInv, IsInvoice
<1>4. ASSUME NEW d \in DOMAIN log', NEW e \in DOMAIN log', d < e, IsInvoice(d)', IsPaid(e)',
             log'[d].period > log'[e].period
      PROVE  \E c \in DOMAIN log' : c < d /\ IsPaid(c)' /\ log'[c].period = log'[e].period
  <2>1. e \notin New
    <3> SUFFICES ASSUME e \in New PROVE FALSE
      OBVIOUS
    <3>1. log'[e].period = month' /\ log'[d].period <= month'
      BY <1>2, <1>3, <1>4 DEF IsPaid, IsInvoice
    <3>2. d \in DOMAIN log \/ d = e
      BY <1>1, <1>2, <1>4 DEF IsPaid, IsInvoice
    <3>3. log'[d].period \in Nat
      BY <1>1, <1>2, <1>4, <3>1, <3>2, InvoiceTyped DEF IsInvoice
    <3> QED BY <1>2, <1>4, <3>1, <3>3
  <2>2. e \in DOMAIN log /\ d \in DOMAIN log
    BY <1>1, <1>4, <2>1
  <2>3. \E c \in DOMAIN log : c < d /\ IsPaid(c) /\ log[c].period = log[e].period
    BY <1>1, <1>4, <2>2 DEF HistoryInv, LogInv, IsPaid, IsInvoice
  <2> QED BY <1>1, <2>2, <2>3 DEF IsPaid, IsInvoice
<1> QED BY <1>3, <1>4 DEF LogInv, IsInvoice

LEMMA RepeatedLog ==
  ASSUME Typed, HistoryInv, NEW x \in DOMAIN log, Repeated(x)
  PROVE  LogInv'
<1> DEFINE n == Len(log) + 1
<1>1. /\ \A e \in DOMAIN log : log'[e] = log[e] /\ e \in DOMAIN log' /\ e < n
      /\ \A e \in DOMAIN log' : e \in Nat /\ (e \in DOMAIN log \/ e = n)
      /\ log'[n] = log[x] /\ IsInvoice(x) /\ month' = month
      /\ n \notin DOMAIN log
  BY DEF Repeated, Grew, Typed, New, IsInvoice
<1>2. \A e \in DOMAIN log' : IsInvoice(e)' => log'[e].period <= month'
  BY <1>1 DEF HistoryInv, LogInv, IsInvoice
<1>3. ASSUME NEW d \in DOMAIN log', NEW e \in DOMAIN log', d < e, IsInvoice(d)', IsPaid(e)',
             log'[d].period > log'[e].period
      PROVE  \E c \in DOMAIN log' : c < d /\ IsPaid(c)' /\ log'[c].period = log'[e].period
  <2>1. d \in DOMAIN log
    <3>1. e \in Nat /\ d \in Nat /\ (e \in DOMAIN log \/ e = n) /\ n \in Nat
      BY <1>1 DEF Typed
    <3> QED BY <1>1, <1>3, <3>1
  <2>2. PICK y \in DOMAIN log : log'[e] = log[y] /\ (y = e \/ (e = n /\ y = x))
    BY <1>1, <1>3
  <2>3. IsPaid(y) /\ IsInvoice(d) /\ log[d].period > log[y].period
    BY <1>1, <1>3, <2>1, <2>2 DEF IsPaid, IsInvoice
  <2>4. y < d \/ d < y
    <3>1. y \in Nat /\ d \in Nat /\ log[y].period \in Nat /\ log[d].period \in Nat
      BY <1>1, <2>1, <2>3, InvoiceTyped DEF IsPaid, IsInvoice
    <3> QED BY <2>3, <3>1
  <2>5. CASE y < d
    BY <1>1, <2>2, <2>3, <2>5 DEF IsPaid, IsInvoice
  <2>6. CASE d < y
    <3>1. \E c \in DOMAIN log : c < d /\ IsPaid(c) /\ log[c].period = log[y].period
      BY <2>1, <2>3, <2>6 DEF HistoryInv, LogInv
    <3> QED BY <1>1, <2>2, <3>1 DEF IsPaid, IsInvoice
  <2> QED BY <2>4, <2>5, <2>6
<1> QED BY <1>2, <1>3 DEF LogInv, IsInvoice

LEMMA SavesHistory ==
  ASSUME Typed, HistoryInv, NEW r \in Requests, Saves(r)
  PROVE  HistoryInv'
<1>1. /\ UNCHANGED <<month, log, handler, processed, period, renewals, emails, profile>>
      /\ \A p \in Periods : invoice'[p].emailed = invoice[p].emailed
  BY DEF Saves, StripeSame
<1>2. \A p \in Periods : invoice[p].status # "none" => invoice'[p].status # "none"
  BY DEF Saves
<1>3. LogInv' /\ OrderInv'
  BY <1>1 DEF HistoryInv, LogInv, OrderInv, InOrder, Busy, IsPaid, IsInvoice
<1>4. PeriodInv'
  BY <1>1, <1>2 DEF HistoryInv, PeriodInv, InOrder, Busy, IsPaid, IsInvoice
<1>5. EmailInv'
  BY <1>1 DEF HistoryInv, EmailInv, InOrder, Busy
<1> QED BY <1>3, <1>4, <1>5 DEF HistoryInv

LEMMA AsideHistory ==
  ASSUME Typed, HistoryInv, Aside
  PROVE  HistoryInv'
<1>1. UNCHANGED <<month, log, handler, processed, invoice, period, renewals, emails, profile>>
  BY DEF Aside, StripeSame
<1>2. LogInv' /\ OrderInv'
  BY <1>1 DEF HistoryInv, LogInv, OrderInv, InOrder, Busy, IsPaid, IsInvoice
<1>3. PeriodInv' /\ EmailInv'
  BY <1>1 DEF HistoryInv, PeriodInv, EmailInv, InOrder, Busy, IsPaid, IsInvoice
<1> QED BY <1>2, <1>3 DEF HistoryInv

LEMMA ReceivesHistory ==
  ASSUME Typed, HistoryInv, NEW h \in Handlers, NEW e \in DOMAIN log, Receives(h, e)
  PROVE  HistoryInv'
<1>1. /\ UNCHANGED <<month, log, processed, invoice, period, renewals, emails, profile>>
      /\ e \in Nat /\ e # None
  BY DEF Receives, HookSame, Typed, None
<1>2. /\ handler'[h].event = e /\ handler'[h].invoice = invoice
      /\ \A g \in Handlers \ {h} : handler'[g] = handler[g]
  BY DEF Receives, Typed
<1>3. /\ e \notin processed
      /\ InOrder => /\ 1..(e - 1) \subseteq processed
                    /\ \A g \in Handlers : ~Busy(g)
  BY DEF Receives, Fresh, MyTurn, InOrder, Busy
<1>4. LogInv'
  BY <1>1 DEF HistoryInv, LogInv, IsPaid, IsInvoice
<1>5. OrderInv'
  BY <1>1, <1>2, <1>3 DEF HistoryInv, OrderInv, InOrder, Busy
<1>6. PeriodInv'
  <2>1. ASSUME NEW g \in Handlers, NEW p \in Periods, Busy(g)',
               handler'[g].invoice[p].status # "none"
        PROVE  invoice'[p].status # "none"
    <3>1. CASE g = h
      BY <1>1, <1>2, <2>1, <3>1
    <3>2. CASE g # h
      BY <1>1, <1>2, <2>1, <3>2 DEF HistoryInv, PeriodInv, Busy
    <3> QED BY <3>1, <3>2
  <2>2. /\ \A d \in processed : IsPaid(d) => renewals[log[d].period] # 0
        /\ \A p \in Periods : renewals[p] # 0 => invoice[p].status # "none"
        /\ period # 0 => renewals[period] # 0
        /\ InOrder /\ period # 0 => \E d \in processed : IsInvoice(d) /\ log[d].period = period
    BY DEF HistoryInv, PeriodInv
  <2> QED BY <1>1, <2>1, <2>2 DEF PeriodInv, InOrder, IsPaid, IsInvoice
<1>7. EmailInv'
  <2>1. ASSUME NEW g \in Handlers, NEW p \in Periods, Busy(g)', InOrder'
        PROVE  /\ handler'[g].invoice[p].emailed = invoice'[p].emailed
               /\ handler'[g].invoice[p].status = "none" => renewals'[p] = 0
    <3>1. g = h
      BY <1>1, <1>2, <1>3, <2>1 DEF InOrder, Busy
    <3> QED BY <1>1, <1>2, <3>1 DEF HistoryInv, PeriodInv
  <2>2. /\ \A p \in Periods : invoice[p].emailed => renewals[p] # 0
        /\ profile \cap {"reordered", "failure"} = {} =>
             \A p \in Periods : emails[p] # 0 => invoice[p].emailed
    BY DEF HistoryInv, EmailInv
  <2> QED BY <1>1, <2>1, <2>2 DEF EmailInv
<1> QED BY <1>4, <1>5, <1>6, <1>7 DEF HistoryInv

(* A handler that ends leaves the others, and in order there are none.     *)
LEMMA EndsHandling ==
  ASSUME Typed, HistoryInv, NEW h \in Handlers, Busy(h), handler' = [handler EXCEPT ![h] = waiting]
  PROVE  /\ \A g \in Handlers : handler'[g].event # None => g # h /\ handler'[g] = handler[g] /\ Busy(g)
         /\ InOrder => \A g \in Handlers : handler'[g].event = None
<1>1. handler'[h] = waiting /\ \A g \in Handlers \ {h} : handler'[g] = handler[g]
  BY DEF Typed
<1> QED BY <1>1 DEF waiting, Busy, HistoryInv, OrderInv

LEMMA FailsHistory ==
  ASSUME Typed, HistoryInv, NEW h \in Handlers, Fails(h)
  PROVE  HistoryInv'
<1> DEFINE e == handler[h].event
           p == log[e].period
<1>1. /\ UNCHANGED <<month, log, processed, invoice, period, renewals, profile>> /\ Busy(h)
      /\ handler' = [handler EXCEPT ![h] = waiting]
  BY DEF Fails, HookSame
<1>2. /\ \A g \in Handlers : handler'[g].event # None => g # h /\ handler'[g] = handler[g] /\ Busy(g)
      /\ InOrder => \A g \in Handlers : handler'[g].event = None
  BY <1>1, EndsHandling
<1>3. LogInv'
  BY <1>1 DEF HistoryInv, LogInv, IsPaid, IsInvoice
<1>4. OrderInv'
  BY <1>1, <1>2 DEF HistoryInv, OrderInv, InOrder, Busy
<1>5. PeriodInv'
  <2>1. \A g \in Handlers, q \in Periods :
          handler'[g].event # None /\ handler'[g].invoice[q].status # "none" => invoice[q].status # "none"
    BY <1>2 DEF HistoryInv, PeriodInv
  <2> QED BY <1>1, <2>1 DEF HistoryInv, PeriodInv, InOrder, Busy, IsPaid, IsInvoice
<1>6. EmailInv'
  <2>1. ASSUME profile \cap {"reordered", "failure"} = {} PROVE emails' = emails
    <3> SUFFICES ASSUME emails' # emails PROVE FALSE
      OBVIOUS
    <3>1. /\ log[e] \in InvoiceEvents /\ handler[h].invoice[p].status = "none" /\ renewals[p] # 0
      BY <2>1 DEF Fails
    <3>2. p \in Periods /\ InOrder
      BY <2>1, <3>1 DEF InvoiceEvents, InOrder
    <3> QED BY <1>1, <3>1, <3>2 DEF HistoryInv, EmailInv
  <2> QED BY <1>1, <1>2, <2>1 DEF HistoryInv, EmailInv, InOrder, Busy
<1> QED BY <1>3, <1>4, <1>5, <1>6 DEF HistoryInv

LEMMA CommitsOrder ==
  ASSUME Typed, HistoryInv, NEW h \in Handlers, Commits(h)
  PROVE  LogInv' /\ OrderInv'
<1> DEFINE e == handler[h].event
<1>1. /\ UNCHANGED <<month, log, profile>> /\ Busy(h) /\ processed' = processed \cup {e}
      /\ handler' = [handler EXCEPT ![h] = waiting] /\ e \in Nat /\ e # 0
  BY DEF Commits, HookSame, Typed
<1>2. InOrder => \A g \in Handlers : handler'[g].event = None
  BY <1>1, EndsHandling
<1>3. LogInv'
  BY <1>1 DEF HistoryInv, LogInv, IsPaid, IsInvoice
<1>4. ASSUME InOrder, NEW d \in processed' PROVE 1..d \subseteq processed'
  <2>1. CASE d \in processed
    BY <1>1, <1>4, <2>1 DEF HistoryInv, OrderInv
  <2>2. CASE d = e
    <3>1. 1..(e - 1) \subseteq processed
      BY <1>1, <1>4 DEF HistoryInv, OrderInv
    <3> QED BY <1>1, <2>2, <3>1
  <2> QED BY <1>1, <2>1, <2>2
<1>5. OrderInv'
  BY <1>1, <1>2, <1>4 DEF OrderInv, InOrder, Busy
<1> QED BY <1>3, <1>5

LEMMA CommitsHistory ==
  ASSUME Typed, HistoryInv, NEW h \in Handlers, Commits(h)
  PROVE  HistoryInv'
<1> DEFINE e == handler[h].event
           p == log[e].period
<1>1. /\ UNCHANGED <<month, log, profile>> /\ Busy(h) /\ processed' = processed \cup {e}
      /\ handler' = [handler EXCEPT ![h] = waiting] /\ e \in DOMAIN log
  BY DEF Commits, HookSame
<1>2. /\ \A g \in Handlers : handler'[g].event # None => g # h /\ handler'[g] = handler[g] /\ Busy(g)
      /\ InOrder => \A g \in Handlers : handler'[g].event = None
  BY <1>1, EndsHandling
<1>3. CASE CommitsSub(h, e)
  <2>1. /\ UNCHANGED <<invoice, period, renewals, emails>> /\ ~IsInvoice(e)
    BY <1>3 DEF CommitsSub, SubEvents, IsInvoice
  <2>2. PeriodInv'
    <3>1. \A g \in Handlers, q \in Periods :
            handler'[g].event # None /\ handler'[g].invoice[q].status # "none" => invoice[q].status # "none"
      BY <1>2 DEF HistoryInv, PeriodInv
    <3> QED BY <1>1, <2>1, <3>1 DEF HistoryInv, PeriodInv, InOrder, Busy, IsPaid, IsInvoice
  <2>3. EmailInv'
    BY <1>1, <1>2, <2>1 DEF HistoryInv, EmailInv, InOrder, Busy
  <2> QED BY <2>2, <2>3, CommitsOrder DEF HistoryInv
<1>4. CASE CommitsInvoice(h, e)
  <2> DEFINE read == handler[h].invoice[p]
  <2>1. /\ log[e].status \in {"open", "paid"} /\ p \in Periods /\ IsInvoice(e) /\ p # 0
        /\ IsPaid(e) <=> log[e].status = "paid"
        /\ renewals \in [Periods -> Nat] /\ read.emailed \in BOOLEAN /\ invoice[p].emailed \in BOOLEAN
    <3>1. log[e] \in InvoiceEvents
      BY <1>4 DEF CommitsInvoice
    <3>2. handler[h].invoice \in Invoices /\ p \in Periods
      BY <1>1, <3>1, Read DEF InvoiceEvents
    <3>3. p # 0
      BY <3>2, Bounds DEF Periods
    <3>4. read.emailed \in BOOLEAN /\ invoice[p].emailed \in BOOLEAN
      BY <3>2 DEF Typed, Invoices
    <3> QED BY <3>1, <3>2, <3>3, <3>4 DEF InvoiceEvents, IsInvoice, IsPaid, Typed
  <2>2. /\ \A q \in Periods : renewals[q] # 0 => renewals'[q] # 0
        /\ IsPaid(e) => renewals'[p] # 0
        /\ \A q \in Periods : renewals'[q] # 0 => renewals[q] # 0 \/ q = p
        /\ period' # 0 => period' = period \/ (period' = p /\ IsPaid(e))
    <3>1. CASE /\ log[e].status = "paid" /\ renewals[p] = 0
               /\ period' = p /\ renewals' = [renewals EXCEPT ![p] = 1]
      <4>1. renewals'[p] = 1 /\ \A q \in Periods \ {p} : renewals'[q] = renewals[q]
        BY <2>1, <3>1
      <4> QED BY <2>1, <3>1, <4>1
    <3>2. CASE /\ log[e].status = "paid" => renewals[p] # 0
               /\ UNCHANGED <<period, renewals>>
      BY <2>1, <3>2
    <3> QED BY <1>4, <3>1, <3>2 DEF CommitsInvoice
  <2>3. invoice'[p].status # "none"
    <3>1. read.status = log[e].status => invoice[p].status # "none"
      BY <1>1, <2>1 DEF HistoryInv, PeriodInv
    <3> QED BY <1>4, <2>1, <3>1 DEF CommitsInvoice, Fill
  <2>4. \A q \in Periods \ {p} : invoice'[q] = invoice[q] /\ emails'[q] = emails[q]
    BY <1>4 DEF CommitsInvoice
  <2>5. /\ invoice[p].emailed => invoice'[p].emailed
        /\ Sends(h, e) => invoice'[p].emailed
        /\ invoice'[p].emailed => invoice[p].emailed \/ Sends(h, e)
    <3>1. invoice'[p].emailed = Fill(invoice[p].emailed, read.emailed, read.emailed \/ Sends(h, e))
      BY <1>4 DEF CommitsInvoice
    <3>2. CASE Sends(h, e)
      <4>1. read.emailed = FALSE
        BY <2>1, <3>2 DEF Sends
      <4> QED BY <3>1, <3>2, <4>1 DEF Fill
    <3>3. CASE ~Sends(h, e)
      <4>1. (read.emailed \/ Sends(h, e)) = read.emailed
        BY <2>1, <3>3
      <4> QED BY <3>1, <3>3, <4>1 DEF Fill
    <3> QED BY <3>2, <3>3
  <2>6. PeriodInv'
    <3>1. \A d \in processed' : IsPaid(d) => renewals'[log[d].period] # 0
      <4>1. ASSUME NEW d \in processed, IsPaid(d) PROVE renewals'[log[d].period] # 0
        <5>1. log[d].period \in Periods
          BY <4>1, InvoiceTyped DEF Typed, IsPaid, IsInvoice
        <5> QED BY <2>2, <4>1, <5>1 DEF HistoryInv, PeriodInv
      <4> QED BY <1>1, <2>2, <4>1
    <3>2. \A q \in Periods : renewals'[q] # 0 => invoice'[q].status # "none"
      BY <2>2, <2>3, <2>4 DEF HistoryInv, PeriodInv
    <3>3. \A g \in Handlers, q \in Periods :
            handler'[g].event # None /\ handler'[g].invoice[q].status # "none" => invoice'[q].status # "none"
      <4>1. \A g \in Handlers, q \in Periods :
              handler'[g].event # None /\ handler'[g].invoice[q].status # "none" => invoice[q].status # "none"
        BY <1>2 DEF HistoryInv, PeriodInv
      <4> QED BY <2>3, <2>4, <4>1
    <3>4. period' # 0 => renewals'[period'] # 0
      <4>1. period \in 0..MaxPeriods /\ (period # 0 => period \in Periods)
        BY Bounds DEF Typed, Periods
      <4> QED BY <2>2, <4>1 DEF HistoryInv, PeriodInv
    <3>5. InOrder /\ period' # 0 => \E d \in processed' : IsInvoice(d) /\ log[d].period = period'
      BY <1>1, <2>1, <2>2 DEF HistoryInv, PeriodInv
    <3> QED BY <1>1, <3>1, <3>2, <3>3, <3>4, <3>5 DEF PeriodInv, InOrder, IsPaid, IsInvoice, Busy
  <2>7. EmailInv'
    <3>1. \A q \in Periods : invoice'[q].emailed => renewals'[q] # 0
      <4>1. Sends(h, e) => IsPaid(e)
        BY <2>1 DEF Sends
      <4> QED BY <2>2, <2>4, <2>5, <4>1 DEF HistoryInv, EmailInv
    <3>2. ASSUME profile \cap {"reordered", "failure"} = {}, NEW q \in Periods, emails'[q] # 0
          PROVE  invoice'[q].emailed
      <4>1. CASE q # p
        BY <2>4, <3>2, <4>1 DEF HistoryInv, EmailInv
      <4>2. CASE q = p
        <5>1. emails'[p] # emails[p] => Sends(h, e)
          BY <1>4 DEF CommitsInvoice
        <5> QED BY <2>1, <2>5, <3>2, <4>2, <5>1 DEF HistoryInv, EmailInv
      <4> QED BY <4>1, <4>2
    <3> QED BY <1>1, <1>2, <3>1, <3>2 DEF EmailInv, InOrder, Busy
  <2> QED BY <2>6, <2>7, CommitsOrder DEF HistoryInv
<1> QED BY <1>3, <1>4 DEF Commits

LEMMA NextHistory == Typed /\ HistoryInv /\ [Next]_vars => HistoryInv'
<1> SUFFICES ASSUME Typed, HistoryInv, [Next]_vars PROVE HistoryInv'
  OBVIOUS
<1>1. ASSUME NEW s \in Subs, Told(s) PROVE HistoryInv'
  BY <1>1, GrewHistory, ToldLog DEF Told, HistoryInv
<1>2. ASSUME NEW e \in DOMAIN log, Repeated(e) PROVE HistoryInv'
  BY <1>2, GrewHistory, RepeatedLog DEF Repeated, HistoryInv
<1> QED BY <1>1, <1>2, AsideHistory, SavesHistory, CommitsHistory, FailsHistory,
           ReceivesHistory, HistorySteps

(* What a step renews and sends.                                           *)
OnceStep ==
  \A p \in Periods :
    /\ renewals'[p] # renewals[p] => renewals[p] = 0 /\ (~InOrder \/ p > period)
    /\ emails'[p] # emails[p] =>
         emails[p] = 0 \/ profile \cap {"reordered", "failure"} # {}

LEMMA StepsAreOnce == Typed /\ HistoryInv /\ [Next]_vars => OnceStep
<1> SUFFICES ASSUME Typed, HistoryInv, [Next]_vars PROVE OnceStep
  OBVIOUS
<1>1. CASE \/ \E s \in Subs : Told(s)
           \/ \E e \in DOMAIN log : Repeated(e)
           \/ Aside \/ \E r \in Requests : Saves(r)
           \/ \E h \in Handlers, e \in DOMAIN log : Receives(h, e)
  <2>1. renewals' = renewals /\ emails' = emails
    BY <1>1 DEF Told, Repeated, LocalSame, Aside, Saves, StripeSame, Receives
  <2> QED BY <2>1 DEF OnceStep
<1>2. ASSUME NEW h \in Handlers, Fails(h) PROVE OnceStep
  <2> DEFINE e == handler[h].event
             p == log[e].period
  <2>1. renewals' = renewals
    BY <1>2 DEF Fails
  <2>2. ASSUME emails' # emails PROVE profile \cap {"reordered", "failure"} # {}
    <3>1. /\ log[e] \in InvoiceEvents
          /\ "failure" \in profile \/ (handler[h].invoice[p].status = "none" /\ renewals[p] # 0)
      BY <1>2, <2>2 DEF Fails
    <3>2. p \in Periods /\ Busy(h)
      BY <1>2, <3>1 DEF InvoiceEvents, Fails
    <3> QED BY <3>1, <3>2 DEF HistoryInv, EmailInv, InOrder
  <2> QED BY <2>1, <2>2 DEF OnceStep
<1>3. ASSUME NEW h \in Handlers, Commits(h) PROVE OnceStep
  <2> DEFINE e == handler[h].event
             p == log[e].period
  <2>1. Busy(h) /\ e \in DOMAIN log
    BY <1>3 DEF Commits
  <2>2. CASE CommitsSub(h, e)
    BY <2>2 DEF CommitsSub, OnceStep
  <2>3. CASE CommitsInvoice(h, e)
    <3>1. p \in Periods /\ p \in Nat /\ IsInvoice(e)
      BY <2>1, <2>3, InvoiceTyped DEF CommitsInvoice, InvoiceEvents, IsInvoice
    <3>2. /\ \A q \in Periods \ {p} : renewals'[q] = renewals[q] /\ emails'[q] = emails[q]
          /\ renewals'[p] # renewals[p] => renewals[p] = 0 /\ IsPaid(e)
          /\ emails'[p] # emails[p] => Sends(h, e)
      BY <2>3, <3>1 DEF CommitsInvoice, Typed, IsPaid
    <3>3. ASSUME renewals[p] = 0, IsPaid(e), InOrder PROVE p > period
      <4> SUFFICES ASSUME ~(p > period) PROVE FALSE
        OBVIOUS
      <4>1. period \in Nat /\ period # 0 /\ renewals[period] # 0
        BY <3>1, <3>3, Bounds DEF Typed, Periods, HistoryInv, PeriodInv
      <4>2. PICK d \in processed : IsInvoice(d) /\ log[d].period = period
        BY <3>3, <4>1 DEF HistoryInv, PeriodInv
      <4>3. period > p
        BY <3>1, <3>3, <4>1
      <4>4. d \in DOMAIN log /\ d < e
        <5>1. d \in Nat /\ e \in Nat /\ d \in DOMAIN log /\ e # 0
          BY <2>1 DEF Typed
        <5>2. e \notin processed /\ 1..d \subseteq processed
          BY <2>1, <3>3 DEF HistoryInv, OrderInv
        <5> QED BY <5>1, <5>2
      <4>5. PICK c \in DOMAIN log : c < d /\ IsPaid(c) /\ log[c].period = p
        BY <2>1, <3>3, <4>2, <4>3, <4>4 DEF HistoryInv, LogInv
      <4>6. c \in processed
        <5>1. c \in Nat /\ d \in Nat /\ c # 0
          BY <4>4 DEF Typed
        <5>2. 1..d \subseteq processed
          BY <3>3 DEF HistoryInv, OrderInv
        <5> QED BY <4>5, <5>1, <5>2
      <4> QED BY <3>3, <4>5, <4>6 DEF HistoryInv, PeriodInv
    <3>4. ASSUME Sends(h, e), profile \cap {"reordered", "failure"} = {} PROVE emails[p] = 0
      <4>1. ~invoice[p].emailed
        BY <2>1, <3>1, <3>4 DEF Sends, HistoryInv, EmailInv, InOrder
      <4> QED BY <3>1, <3>4, <4>1 DEF HistoryInv, EmailInv
    <3> QED BY <3>2, <3>3, <3>4 DEF OnceStep
  <2> QED BY <1>3, <2>2, <2>3 DEF Commits
<1> QED BY <1>1, <1>2, <1>3, HistorySteps

(* The columns and the events keep their types, and the history is that of  *)
(* invoices which are each renewed before they count as sent.               *)
THEOREM HistoryInvariance == Spec => [](Typed /\ HistoryInv)
<1>1. Init => Typed /\ HistoryInv
  BY InitTyped, InitHistory
<1>2. (Typed /\ HistoryInv) /\ [Next]_vars => (Typed /\ HistoryInv)'
  BY NextTyped, NextHistory
<1> QED BY <1>1, <1>2, PTL DEF Spec

(* A period renews the included credits once and, in order, only forward,   *)
(* and the e-mail of its paid invoice is sent once unless commits fail.     *)
THEOREM PaidOnceAlways == Spec => PaidInvoiceOnce
<1>1. Typed /\ HistoryInv /\ [Next]_vars =>
        [\A p \in Periods :
           /\ renewals'[p] # renewals[p] =>
                renewals[p] = 0 /\ ("reordered" \in profile \/ p > period)
           /\ emails'[p] # emails[p] =>
                emails[p] = 0 \/ profile \cap {"reordered", "failure"} # {}]_vars
  BY StepsAreOnce DEF OnceStep, InOrder
<1> QED BY <1>1, HistoryInvariance, PTL DEF Spec, PaidInvoiceOnce

-----------------------------------------------------------------------------
(* The customer and the subscription.                                      *)

OneUser == "users" \notin profile
Single  == profile \cap {"old session", "users"} = {}

(* A request that will create a customer finds none; one that asks, or opens *)
(* a session, does so for the account's.                                    *)
OwnRequest(q) ==
  /\ q.pc \in {"checkout", "portal"} => customers = 0
  /\ q.pc \in {"asking", "opening"} => customers = 1 /\ q.customer = 1

(* While users do not overlap the company has one customer, whose are the   *)
(* sessions, the subscriptions and the events.                              *)
CustomerInv ==
  OneUser =>
    /\ customers \in {0, 1} /\ account.customer = customers
    /\ \A i \in DOMAIN sessions : customers = 1 /\ sessions[i].customer = 1
    /\ \A s \in Subs : remote[s].status # "none" => customers = 1 /\ remote[s].customer = 1
    /\ \A e \in DOMAIN log : customers = 1 /\ log[e].customer = 1
    /\ \A r \in Requests : request[r].pc # "idle" => r = Alone /\ OwnRequest(request[r])

(* While the last session is open, or another is about to be opened, nothing *)
(* entitles the company yet.                                                *)
EntitledInv ==
  Single =>
    /\ \A s, t \in Subs : Entitled(s) /\ Entitled(t) => s = t
    /\ \A i \in DOMAIN sessions :
         i = Len(sessions) /\ sessions[i].open => \A s \in Subs : ~Entitled(s)
    /\ Opening => \A s \in Subs : ~Entitled(s)

OwnerInv == CustomerInv /\ EntitledInv

LEMMA InitOwner == Init => OwnerInv
<1> SUFFICES ASSUME Init PROVE OwnerInv
  OBVIOUS
<1>1. DOMAIN log = {} /\ DOMAIN sessions = {} /\ customers = 0 /\ account.customer = 0
  BY DEF Init, None
<1>2. /\ \A r \in Requests : request[r].pc = "idle"
      /\ \A s \in Subs : remote[s].status = "none"
  BY DEF Init, free
<1> QED BY <1>1, <1>2 DEF OwnerInv, CustomerInv, EntitledInv, Entitled, Opening

LEMMA PaySessions ==
  ASSUME Typed, NEW i \in DOMAIN sessions, Pay(i)
  PROVE  /\ DOMAIN sessions' = DOMAIN sessions /\ Len(sessions') = Len(sessions)
         /\ \A j \in DOMAIN sessions : sessions'[j].customer = sessions[j].customer
         /\ sessions'[i].open = FALSE
         /\ sessions[i].open
         /\ "old session" \in profile \/ (i = Len(sessions) /\ ~Opening)
<1>1. sessions' = [sessions EXCEPT ![i].open = FALSE]
  BY DEF Pay
<1>2. sessions \in Seq(Sessions) /\ \A j \in DOMAIN sessions : sessions[j] \in Sessions
  BY DEF Typed
<1> DEFINE paid == [sessions[i] EXCEPT !.open = FALSE]
<1>3. paid \in Sessions /\ paid.customer = sessions[i].customer /\ paid.open = FALSE
  BY <1>2 DEF Sessions
<1>4. sessions' = [sessions EXCEPT ![i] = paid]
  BY <1>1
<1> HIDE DEF paid
<1>5. /\ sessions' \in Seq(Sessions) /\ Len(sessions') = Len(sessions)
      /\ \A j \in DOMAIN sessions : sessions'[j] = IF j = i THEN paid ELSE sessions[j]
  BY <1>2, <1>3, <1>4, ExceptSeq
<1>6. DOMAIN sessions' = DOMAIN sessions
  BY <1>2, <1>5
<1> QED BY <1>3, <1>5, <1>6 DEF Pay

LEMMA OpensSessions ==
  ASSUME Typed, NEW r \in Requests, Opens(r)
  PROVE  \A i \in DOMAIN sessions' :
           (i \in DOMAIN sessions /\ sessions'[i] = sessions[i])
           \/ sessions'[i].customer = request[r].customer
<1> DEFINE k == request[r].customer
<1>1. CASE UNCHANGED sessions
  BY <1>1
<1>2. CASE ~UNCHANGED sessions
  <2>1. PICK p \in PlanOrNone :
          sessions' = Append(sessions, [customer |-> k, plan |-> p, open |-> TRUE])
    BY <1>2 DEF Opens
  <2>2. k \in Nat
    BY DEF Typed, Requesting
  <2> HIDE DEF k
  <2>3. sessions \in Seq(Sessions) /\ [customer |-> k, plan |-> p, open |-> TRUE] \in Sessions
    BY <2>2 DEF Typed, Sessions
  <2> QED BY <2>1, <2>3 DEF k
<1> QED BY <1>1, <1>2

LEMMA GrewCustomers ==
  ASSUME Typed, CustomerInv, OneUser, NEW k, Grew, \A e \in New : log'[e].customer = k
  PROVE  \A e \in DOMAIN log' : log'[e].customer = 1 \/ (e \in New /\ log'[e].customer = k)
BY DEF CustomerInv, Grew, New

(* What Stripe says does not change whose it is.                           *)
LEMMA ToldCustomer ==
  ASSUME Typed, OwnerInv, OneUser, NEW s \in Subs, Told(s), customers = 1,
         remote'[s].customer = 1, account'.customer = account.customer,
         DOMAIN sessions' = DOMAIN sessions,
         \A j \in DOMAIN sessions : sessions'[j].customer = sessions[j].customer,
         request' = request \/ \E r \in Requests : Ending(r)
  PROVE  CustomerInv'
<1>1. UNCHANGED <<customers, profile>>
  BY DEF Told, LocalSame
<1>2. \A e \in DOMAIN log' : log'[e].customer = 1
  BY GrewCustomers DEF Told, OwnerInv
<1>3. \A t \in Subs : remote'[t].status # "none" => remote'[t].customer = 1
  BY DEF Told, OwnerInv, CustomerInv
<1>4. \A r \in Requests : request'[r].pc # "idle" => r = Alone /\ OwnRequest(request[r])'
  <2>1. CASE request' = request
    BY <1>1, <2>1 DEF OwnerInv, CustomerInv, OwnRequest
  <2>2. ASSUME NEW r \in Requests, Ending(r)
        PROVE  \A t \in Requests : request'[t].pc # "idle" => t = Alone /\ OwnRequest(request[t])'
    <3>1. PICK q \in Requesting : q.pc = "ending" /\ request' = [request EXCEPT ![r] = q]
      BY <2>2 DEF Ending
    <3>2. r = Alone /\ request'[r] = q /\ \A t \in Requests \ {r} : request'[t] = request[t]
      BY <2>2, <3>1 DEF Ending, MayRequest, OneUser, Typed
    <3> QED BY <1>1, <3>1, <3>2 DEF OwnerInv, CustomerInv, OwnRequest
  <2> QED BY <2>1, <2>2
<1> QED BY <1>1, <1>2, <1>3, <1>4 DEF OwnerInv, CustomerInv, OneUser

LEMMA PayOwner ==
  ASSUME Typed, OwnerInv, NEW i \in DOMAIN sessions, Pay(i)
  PROVE  OwnerInv'
<1>1. PICK s \in Subs : /\ Told(s) /\ remote[s].status = "none" /\ remote'[s].status = "active"
                        /\ remote'[s].customer = sessions[i].customer
  BY PayTells
<1>2. profile' = profile /\ customers' = customers
  BY <1>1 DEF Told, LocalSame
<1>3. CustomerInv'
  <2> SUFFICES ASSUME OneUser PROVE CustomerInv'
    BY <1>2 DEF CustomerInv, OneUser
  <2>1. customers = 1 /\ sessions[i].customer = 1
    BY DEF OwnerInv, CustomerInv
  <2>2. account' = account /\ request' = request
    BY DEF Pay, local
  <2> QED BY <1>1, <2>1, <2>2, PaySessions, ToldCustomer
<1>4. EntitledInv'
  <2> SUFFICES ASSUME Single PROVE EntitledInv'
    BY <1>2 DEF EntitledInv, Single
  <2>1. i = Len(sessions) /\ sessions[i].open
    BY PaySessions DEF Single
  <2>2. \A t \in Subs : ~Entitled(t)
    BY <2>1 DEF OwnerInv, EntitledInv
  <2>3. \A t \in Subs : Entitled(t)' => t = s
    BY <1>1, <2>2 DEF Told, Entitled
  <2>4. \A j \in DOMAIN sessions' : j = Len(sessions') => ~sessions'[j].open
    BY <2>1, PaySessions
  <2>5. ~Opening'
    <3>1. ~Opening
      BY PaySessions DEF Single
    <3> QED BY <3>1 DEF Pay, Opening
  <2> QED BY <2>3, <2>4, <2>5 DEF EntitledInv
<1> QED BY <1>3, <1>4 DEF OwnerInv

LEMMA ContinuesOwner ==
  ASSUME Typed, OwnerInv, NEW s \in Subs, Continues(s), account'.customer = account.customer,
         request' = request \/ \E r \in Requests : Ending(r)
  PROVE  OwnerInv'
<1>1. /\ Told(s) /\ Entitled(s) /\ remote[s].status # "none" /\ sessions' = sessions
      /\ remote'[s].customer = remote[s].customer /\ profile' = profile
  BY DEF Continues, Told, LocalSame, Entitled
<1>2. CustomerInv'
  <2> SUFFICES ASSUME OneUser PROVE CustomerInv'
    BY <1>1 DEF CustomerInv, OneUser
  <2>1. customers = 1 /\ remote[s].customer = 1
    BY <1>1 DEF OwnerInv, CustomerInv
  <2> QED BY <1>1, <2>1, ToldCustomer
<1>3. EntitledInv'
  <2> SUFFICES ASSUME Single PROVE EntitledInv'
    BY <1>1 DEF EntitledInv, Single
  <2>1. \A t \in Subs : Entitled(t)' => Entitled(t)
    BY <1>1 DEF Told, Entitled
  <2>2. /\ \A i \in DOMAIN sessions : i = Len(sessions) => ~sessions[i].open
        /\ ~Opening
    BY <1>1 DEF OwnerInv, EntitledInv
  <2>3. ~Opening'
    <3>1. CASE request' = request
      BY <2>2, <3>1 DEF Opening
    <3>2. ASSUME NEW r \in Requests, Ending(r) PROVE ~Opening'
      BY <2>2, <3>2 DEF Ending, Opening, Typed
    <3> QED BY <3>1, <3>2
  <2> QED BY <1>1, <2>1, <2>2, <2>3 DEF OwnerInv, EntitledInv
<1> QED BY <1>2, <1>3 DEF OwnerInv

(* A step that leaves Stripe and the account's customer alone.             *)
LEMMA KeptOwner ==
  ASSUME Typed, OwnerInv, UNCHANGED <<request, customers, sessions, remote, profile>>,
         account'.customer \in {account.customer, customers},
         \A e \in DOMAIN log' : \E d \in DOMAIN log : log'[e] = log[d]
  PROVE  OwnerInv'
<1>1. CustomerInv'
  <2> SUFFICES ASSUME OneUser PROVE CustomerInv'
    BY DEF CustomerInv, OneUser
  <2>1. \A e \in DOMAIN log' : customers = 1 /\ log'[e].customer = 1
    BY DEF OwnerInv, CustomerInv
  <2>2. \A r \in Requests : OwnRequest(request[r]) => OwnRequest(request[r])'
    BY DEF OwnRequest
  <2> QED BY <2>1, <2>2 DEF OwnerInv, CustomerInv, OneUser
<1>2. EntitledInv'
  BY DEF OwnerInv, EntitledInv, Entitled, Single, Opening
<1> QED BY <1>1, <1>2 DEF OwnerInv

(* A request that becomes q, which opens a session only where nothing        *)
(* entitles the company.                                                    *)
LEMMA RequestOwner ==
  ASSUME Typed, OwnerInv, UNCHANGED <<customers, sessions, remote, log, profile>>,
         NEW r \in Requests, NEW q, request' = [request EXCEPT ![r] = q],
         account'.customer = account.customer,
         OneUser => r = Alone /\ OwnRequest(q),
         Single /\ q.pc = "opening" => \A s \in Subs : ~Entitled(s)
  PROVE  OwnerInv'
<1>1. request'[r] = q /\ \A t \in Requests \ {r} : request'[t] = request[t]
  BY DEF Typed
<1>2. CustomerInv'
  <2> SUFFICES ASSUME OneUser PROVE CustomerInv'
    BY DEF CustomerInv, OneUser
  <2>1. \A t \in Requests : request'[t].pc # "idle" => t = Alone /\ OwnRequest(request[t])'
    BY <1>1 DEF OwnerInv, CustomerInv, OwnRequest
  <2> QED BY <2>1 DEF OwnerInv, CustomerInv
<1>3. EntitledInv'
  BY <1>1 DEF OwnerInv, EntitledInv, Entitled, Single, Opening
<1> QED BY <1>2, <1>3 DEF OwnerInv

(* Without other users it is the one that is alone.                        *)
LEMMA ActsAlone ==
  ASSUME OwnerInv, OneUser, NEW r \in Requests, MayRequest(r) \/ request[r].pc # "idle"
  PROVE  r = Alone
BY DEF OwnerInv, CustomerInv, MayRequest, OneUser

LEMMA NoneActive ==
  ASSUME OwnerInv, OneUser, HasCustomer, ActiveOf(account.customer) = {}
  PROVE  \A s \in Subs : ~Entitled(s)
<1>1. account.customer = 1 /\ \A s \in Subs : remote[s].status # "none" => remote[s].customer = 1
  BY DEF OwnerInv, CustomerInv, HasCustomer, None
<1> QED BY <1>1 DEF ActiveOf, Entitled

LEMMA WaitsOwner ==
  ASSUME Typed, OwnerInv, NEW r \in Requests, Waits(r)
  PROVE  OwnerInv'
<1>1. PICK q \in Requesting : Asks(r, q) /\ (Begins(r, q) \/ Finds(r, q) \/ Lists(r, q))
  BY DEF Waits
<1>2. /\ UNCHANGED <<customers, sessions, account, remote, log, profile>>
      /\ request' = [request EXCEPT ![r] = q]
  BY <1>1 DEF Asks, StripeSame
<1>3. CASE q.pc = "idle"
  <2>1. /\ request'[r] = q /\ \A t \in Requests \ {r} : request'[t] = request[t]
    BY <1>2 DEF Typed
  <2>2. CustomerInv'
    <3>1. \A t \in Requests : OneUser /\ request'[t].pc # "idle" =>
            t = Alone /\ OwnRequest(request[t])'
      BY <1>2, <1>3, <2>1 DEF OwnerInv, CustomerInv, OwnRequest
    <3> QED BY <1>2, <3>1 DEF OwnerInv, CustomerInv, OneUser
  <2>3. EntitledInv'
    BY <1>2, <1>3, <2>1 DEF OwnerInv, EntitledInv, Entitled, Single, Opening
  <2> QED BY <2>2, <2>3 DEF OwnerInv
<1>4. CASE q.pc # "idle"
  <2>1. ASSUME OneUser PROVE r = Alone /\ OwnRequest(q)
    <3>1. r = Alone
      BY <1>1, <1>4, <2>1, ActsAlone DEF Begins, Finds, Lists
    <3>2. OwnRequest(q)
      BY <1>1, <2>1 DEF Begins, Finds, Lists, OwnRequest, OwnerInv, CustomerInv, HasCustomer, None
    <3> QED BY <3>1, <3>2
  <2>2. ASSUME Single, q.pc = "opening" PROVE \A s \in Subs : ~Entitled(s)
    <3>1. HasCustomer /\ ActiveOf(account.customer) = {}
      BY <1>1, <2>2 DEF Begins, Finds, Lists
    <3> QED BY <2>2, <3>1, NoneActive DEF Single, OneUser
  <2> QED BY <1>2, <2>1, <2>2, RequestOwner
<1> QED BY <1>3, <1>4

(* A request that ends is none.                                            *)
LEMMA EndsOwner ==
  ASSUME Typed, OwnerInv, NEW r \in Requests, request' = [request EXCEPT ![r] = free],
         request[r].pc # "idle", UNCHANGED <<customers, remote, log, profile>>,
         account'.customer = account.customer, sessions' = sessions \/ Opens(r)
  PROVE  OwnerInv'
<1>1. request'[r].pc = "idle" /\ \A t \in Requests \ {r} : request'[t] = request[t]
  <2>1. request'[r] = free
    BY DEF Typed
  <2> QED BY <2>1, FreeTyped DEF Typed
<1>2. CustomerInv'
  <2> SUFFICES ASSUME OneUser PROVE CustomerInv'
    BY DEF CustomerInv, OneUser
  <2>1. \A t \in Requests : request'[t].pc # "idle" => t = Alone /\ OwnRequest(request[t])'
    BY <1>1 DEF OwnerInv, CustomerInv, OwnRequest
  <2>2. \A i \in DOMAIN sessions' : customers = 1 /\ sessions'[i].customer = 1
    <3>1. CASE sessions' = sessions
      BY <3>1 DEF OwnerInv, CustomerInv
    <3>2. CASE Opens(r)
      <4>1. customers = 1 /\ request[r].customer = 1
        BY <3>2 DEF Opens, OwnerInv, CustomerInv, OwnRequest
      <4> QED BY <3>2, <4>1, OpensSessions DEF OwnerInv, CustomerInv
    <3> QED BY <3>1, <3>2
  <2> QED BY <2>1, <2>2 DEF OwnerInv, CustomerInv
<1>3. EntitledInv'
  <2> SUFFICES ASSUME Single PROVE EntitledInv'
    BY DEF EntitledInv, Single
  <2>1. Opening' => Opening
    BY <1>1 DEF Opening
  <2>2. CASE sessions' = sessions
    BY <2>1, <2>2 DEF OwnerInv, EntitledInv, Entitled
  <2>3. CASE Opens(r)
    <3>1. \A s \in Subs : ~Entitled(s)
      BY <2>3 DEF Opens, Opening, OwnerInv, EntitledInv
    <3> QED BY <3>1 DEF EntitledInv, Entitled
  <2> QED BY <2>2, <2>3
<1> QED BY <1>2, <1>3 DEF OwnerInv

LEMMA CreatesOwner ==
  ASSUME Typed, OwnerInv, NEW r \in Requests, Creates(r)
  PROVE  OwnerInv'
<1>1. /\ UNCHANGED <<remote, log, profile, sessions>> /\ customers' = customers + 1
      /\ request[r].pc \in {"checkout", "portal"} /\ account'.customer = customers + 1
  BY DEF Creates, StripeSame, Typed, Accounts
<1>2. PICK q \in Requesting :
        /\ request' = [request EXCEPT ![r] = q]
        /\ q.pc \in {"opening", "asking"} /\ q.customer = customers + 1
  BY DEF Creates
<1>3. request'[r] = q /\ \A t \in Requests \ {r} : request'[t] = request[t]
  BY <1>2 DEF Typed
<1>4. ASSUME OneUser
      PROVE  /\ customers = 0 /\ DOMAIN sessions = {} /\ DOMAIN log = {} /\ r = Alone
             /\ \A s \in Subs : remote[s].status = "none"
  <2>1. customers = 0 /\ r = Alone
    BY <1>1, <1>4 DEF OwnerInv, CustomerInv, OwnRequest
  <2>2. /\ \A i \in DOMAIN sessions : customers = 1
        /\ \A e \in DOMAIN log : customers = 1
        /\ \A s \in Subs : remote[s].status # "none" => customers = 1
    BY <1>4 DEF OwnerInv, CustomerInv
  <2>3. DOMAIN sessions = {} /\ DOMAIN log = {}
    <3>1. customers # 1
      BY <2>1
    <3> QED BY <2>2, <3>1, Zenon
  <2> QED BY <2>1, <2>2, <2>3
<1>5. CustomerInv'
  <2> SUFFICES ASSUME OneUser PROVE CustomerInv'
    BY <1>1 DEF CustomerInv, OneUser
  <2>1. \A t \in Requests : request'[t].pc # "idle" => t = Alone /\ OwnRequest(request[t])'
    <3>1. \A t \in Requests \ {r} : request'[t].pc = "idle"
      BY <1>3, <1>4 DEF OwnerInv, CustomerInv
    <3> QED BY <1>1, <1>2, <1>3, <1>4, <3>1 DEF OwnRequest
  <2> QED BY <1>1, <1>4, <2>1 DEF CustomerInv
<1>6. EntitledInv'
  <2> SUFFICES ASSUME Single PROVE EntitledInv'
    BY <1>1 DEF EntitledInv, Single
  <2>1. \A s \in Subs : ~Entitled(s)
    BY <1>4 DEF Entitled, Single, OneUser
  <2> QED BY <1>1, <2>1 DEF EntitledInv, Entitled
<1> QED BY <1>5, <1>6 DEF OwnerInv

LEMMA CommitsOwner ==
  ASSUME Typed, OwnerInv, NEW h \in Handlers, Commits(h)
  PROVE  OwnerInv'
<1> DEFINE e == handler[h].event
<1>1. UNCHANGED <<request, customers, sessions, remote, log, profile>> /\ e \in DOMAIN log
  BY DEF Commits, HookSame
<1>2. CASE account' = account
  BY <1>1, <1>2, KeptOwner
<1>3. CASE CommitsSub(h, e)
  <2>1. CASE OneUser
    <3>1. account.customer = 1 /\ log[e].customer = 1 /\ customers = 1
      BY <1>1, <2>1 DEF OwnerInv, CustomerInv
    <3>2. account'.customer = 1
      BY <1>3, <3>1 DEF CommitsSub, Fields, Fill
    <3> QED BY <1>1, <3>1, <3>2, KeptOwner
  <2>2. CASE ~OneUser
    BY <1>1, <2>2 DEF OwnerInv, CustomerInv, EntitledInv, OneUser, Single, Opening
  <2> QED BY <2>1, <2>2
<1> QED BY <1>2, <1>3 DEF Commits, CommitsInvoice

LEMMA NextOwner == Typed /\ OwnerInv /\ [Next]_vars => OwnerInv'
<1> SUFFICES ASSUME Typed, OwnerInv, [Next]_vars PROVE OwnerInv'
  OBVIOUS
<1>1. CASE Stripe
  <2>1. ASSUME NEW e \in DOMAIN log, Repeated(e) PROVE OwnerInv'
    <3>1. /\ UNCHANGED <<request, customers, sessions, remote, account, profile>>
          /\ \A d \in DOMAIN log' : \E c \in DOMAIN log : log'[d] = log[c]
      BY <2>1 DEF Repeated, LocalSame, Grew, New
    <3> QED BY <3>1, KeptOwner
  <2> QED BY <1>1, <2>1, StripeSteps, PayOwner, ContinuesOwner
<1>2. CASE User
  <2>1. ASSUME NEW r \in Requests, Links(r) \/ Opens(r) \/ Saves(r) PROVE OwnerInv'
    <3>1. /\ request' = [request EXCEPT ![r] = free] /\ request[r].pc # "idle"
          /\ UNCHANGED <<customers, remote, log, profile>> /\ (sessions' = sessions \/ Opens(r))
      BY <2>1 DEF Links, Opens, Saves, StripeSame
    <3>2. account'.customer = account.customer
      BY <2>1 DEF Links, Opens, Saves, Typed, Accounts
    <3> QED BY <3>1, <3>2, EndsOwner
  <2> QED BY <1>2, <2>1, UserSteps, WaitsOwner, CreatesOwner, ContinuesOwner DEF Changes
<1>3. ASSUME NEW h \in Handlers,
             Fails(h) \/ \E e \in DOMAIN log : Receives(h, e)
      PROVE  OwnerInv'
  <2>1. UNCHANGED <<request, customers, sessions, remote, log, profile, account>>
    BY <1>3 DEF Fails, Receives, HookSame
  <2> QED BY <2>1, KeptOwner
<1>4. CASE \E h \in Handlers : Webhook(h)
  BY <1>3, <1>4, WebhookSteps, CommitsOwner
<1>5. CASE UNCHANGED vars
  <2>1. UNCHANGED <<request, customers, sessions, remote, log, profile, account>>
    BY <1>5 DEF vars, stripe, local, effects
  <2> QED BY <2>1, KeptOwner
<1> QED BY <1>1, <1>2, <1>4, <1>5 DEF Next

(* What the account owns: at most one subscription, of its own customer.   *)
LEMMA OwnsOne == Typed /\ OwnerInv => OneSubscription
<1> SUFFICES ASSUME Typed, OwnerInv PROVE OneSubscription
  OBVIOUS
<1> DEFINE entitled == {s \in Subs : Entitled(s)}
<1>1. ASSUME Single PROVE Cardinality(entitled) <= 1
  <2>1. CASE entitled = {}
    BY <2>1, FS_EmptySet
  <2>2. CASE entitled # {}
    <3>1. PICK s \in entitled : TRUE
      BY <2>2
    <3>2. entitled = {s}
      BY <1>1, <3>1 DEF OwnerInv, EntitledInv
    <3>3. Cardinality({s}) = 1
      BY FS_Singleton
    <3> QED BY <3>2, <3>3
  <2> QED BY <2>1, <2>2
<1>2. ASSUME OneUser, NEW s \in Subs, remote[s].status # "none"
      PROVE  remote[s].customer = account.customer
  BY <1>2 DEF OwnerInv, CustomerInv
<1> QED BY <1>1, <1>2 DEF OneSubscription, Single, OneUser

(* A company has one subscription that charges it, of the customer whose    *)
(* events its account accepts.                                              *)
THEOREM OneSubscriptionAlways == Spec => []OneSubscription
<1>1. Init => Typed /\ OwnerInv
  BY InitTyped, InitOwner
<1>2. (Typed /\ OwnerInv) /\ [Next]_vars => (Typed /\ OwnerInv)'
  BY NextTyped, NextOwner
<1> QED BY <1>1, <1>2, OwnsOne, PTL DEF Spec

-----------------------------------------------------------------------------
(* The account and Stripe.                                                 *)

IsSub(e) == log[e].kind = "subscription"

(* The last that Stripe said of any subscription, and of an invoice.       *)
LastSub(e)     == IsSub(e) /\ \A d \in DOMAIN log : d > e => ~IsSub(d)
LastInvoice(e) == /\ IsInvoice(e)
                  /\ \A d \in DOMAIN log : d > e /\ IsInvoice(d) => log[d].period # log[e].period

(* What it said last of a subscription is what that one is, and no other    *)
(* entitles the company.                                                    *)
RemoteInv ==
  Single =>
    /\ \A e \in DOMAIN log : LastSub(e) =>
         /\ log[e] = SubEvent(log[e].sub, remote[log[e].sub])
         /\ \A s \in Subs : Entitled(s) => s = log[e].sub
    /\ \A s \in Subs : remote[s].status # "none" => \E e \in DOMAIN log : IsSub(e)

(* Events are in order, users do not overlap, no older session is paid, and  *)
(* no handler commits what a request has yet to write.                      *)
Calm == profile \cap {"reordered", "old session", "users", "overtaken"} = {}

(* Then the account is what was said last once that was processed; until    *)
(* then a column may be ahead of the handler's copy only by it.             *)
AccountInv ==
  Calm =>
    \A e \in DOMAIN log : LastSub(e) =>
      /\ e \in processed => \A f \in Fields : account[f] = log[e][f]
      /\ \A h \in Handlers : handler[h].event = e =>
           \A f \in Fields : account[f] \in {handler[h].account[f], log[e][f]}

InvoiceInv ==
  Calm =>
    /\ \A p \in Periods : invoice[p].status # "none" =>
         \E e \in DOMAIN log : IsInvoice(e) /\ log[e].period = p
    /\ \A e \in DOMAIN log : LastInvoice(e) =>
         /\ e \in processed => invoice[log[e].period].status = log[e].status
         /\ \A h \in Handlers : handler[h].event = e =>
              invoice[log[e].period].status \in
                {handler[h].invoice[log[e].period].status, log[e].status}

(* What a request has yet to write is what the rows hold already, or what an *)
(* event says that was not processed yet: whatever it overwrites, that event *)
(* or a later one corrects.                                                *)
Unread == DOMAIN log \ processed

Held(q) ==
  /\ q.pc = "linking" =>
       \/ q.sub = account.sub /\ q.status = account.status
       \/ \E d \in Unread : IsSub(d) /\ log[d].sub = q.sub /\ log[d].status = q.status
  /\ q.pc = "ending" =>
       account.ending \/ q.ending \/ \E d \in Unread : IsSub(d) /\ log[d].ending = TRUE
  /\ q.pc \in {"listed", "compared"} => \A p \in Periods : q.list[p] # "none" =>
       \/ q.list[p] = invoice[p].status
       \/ \E d \in Unread : IsInvoice(d) /\ log[d].period = p /\ log[d].status = q.list[p]
  /\ q.pc = "compared" => \A p \in Periods : q.read[p] = invoice[p].status

HeldInv == Calm => \A r \in Requests : Held(request[r])

MatchInv == RemoteInv /\ AccountInv /\ InvoiceInv /\ HeldInv

LEMMA CalmIs == Calm => Single /\ OneUser /\ InOrder /\ "overtaken" \notin profile
BY DEF Calm, Single, OneUser, InOrder

LEMMA InitMatch == Init => MatchInv
<1> SUFFICES ASSUME Init PROVE MatchInv
  OBVIOUS
<1>1. DOMAIN log = {}
  BY DEF Init
<1>2. /\ \A p \in Periods : invoice[p].status = "none"
      /\ \A s \in Subs : remote[s].status = "none"
      /\ \A r \in Requests : request[r].pc = "idle"
  BY FreeTyped DEF Init
<1> QED BY <1>1, <1>2 DEF MatchInv, RemoteInv, AccountInv, InvoiceInv, HeldInv, Held

(* What a request holds is held while what it was compared with stays.     *)
LEMMA KeepsHeld ==
  ASSUME MatchInv, UNCHANGED <<account, invoice, processed, profile>>,
         \A e \in DOMAIN log : e \in DOMAIN log' /\ log'[e] = log[e],
         \A r \in Requests :
           request'[r] = request[r] \/ request'[r].pc \notin {"linking", "ending", "listed", "compared"}
           \/ (Calm => Held(request[r])')
  PROVE  HeldInv'
<1> SUFFICES ASSUME Calm, NEW r \in Requests, request'[r] = request[r]
             PROVE  Held(request[r])'
  BY DEF HeldInv, Calm, Held
<1>1. Held(request[r])
  BY DEF MatchInv, HeldInv
<1> QED BY <1>1 DEF Held, Unread, IsSub, IsInvoice

(* In order nothing is handled past what is unread.                        *)
LEMMA Blocks ==
  ASSUME Typed, HistoryInv, InOrder, NEW d \in Unread, NEW e \in DOMAIN log, d < e
  PROVE  e \notin processed /\ \A h \in Handlers : handler[h].event # e
<1>1. d \in Nat \ {0} /\ e \in Nat \ {0} /\ d \notin processed
  BY DEF Typed, Unread
<1>2. e \notin processed
  <2>1. d \in 1..e
    BY <1>1
  <2> QED BY <1>1, <2>1 DEF HistoryInv, OrderInv
<1>3. ASSUME NEW h \in Handlers, handler[h].event = e PROVE FALSE
  <2>1. d \in 1..(e - 1) /\ Busy(h)
    BY <1>1, <1>3 DEF Busy, None
  <2> QED BY <1>1, <1>3, <2>1 DEF HistoryInv, OrderInv
<1> QED BY <1>2, <1>3

(* What is new is neither processed nor handled.                           *)
LEMMA NewIsUnread ==
  ASSUME Typed, Grew, LocalSame
  PROVE  /\ \A e \in DOMAIN log : log'[e] = log[e] /\ e \in DOMAIN log' /\ e \in Nat
         /\ \A e \in DOMAIN log' : e \in Nat /\ (e \in DOMAIN log \/ e \in New)
         /\ \A e \in New, d \in DOMAIN log : d < e /\ e \in DOMAIN log'
         /\ \A e \in New : e \notin processed' /\ \A h \in Handlers : handler'[h].event # e
<1>1. \A h \in Handlers : handler'[h].event = None \/ handler'[h].event \in DOMAIN log
  BY DEF Typed, Busy, LocalSame
<1>2. /\ \A e \in DOMAIN log : log'[e] = log[e] /\ e \in DOMAIN log' /\ e \in Nat
      /\ \A e \in DOMAIN log' : e \in Nat /\ (e \in DOMAIN log \/ e \in New)
      /\ \A e \in New, d \in DOMAIN log : d < e /\ e \in DOMAIN log'
      /\ \A e \in New : e # None /\ e \notin DOMAIN log
  BY DEF Grew, New, Typed, None
<1>3. processed' \subseteq DOMAIN log
  BY DEF LocalSame, Typed
<1> QED BY <1>1, <1>2, <1>3

LEMMA GrewInvoices ==
  ASSUME Typed, MatchInv, Grew, LocalSame
  PROVE  InvoiceInv'
<1>1. UNCHANGED <<handler, processed, invoice, profile>>
  BY DEF LocalSame
<1>2. ASSUME NEW e \in DOMAIN log, LastInvoice(e)' PROVE LastInvoice(e)
  BY <1>2, NewIsUnread DEF LastInvoice, IsInvoice
<1> SUFFICES ASSUME Calm PROVE InvoiceInv'
  BY <1>1 DEF InvoiceInv, Calm
<1>3. ASSUME NEW p \in Periods, invoice'[p].status # "none"
      PROVE  \E e \in DOMAIN log' : IsInvoice(e)' /\ log'[e].period = p
  BY <1>1, <1>3, NewIsUnread DEF MatchInv, InvoiceInv, IsInvoice
<1>4. ASSUME NEW e \in DOMAIN log', LastInvoice(e)'
      PROVE  /\ e \in processed' => invoice'[log'[e].period].status = log'[e].status
             /\ \A h \in Handlers : handler'[h].event = e =>
                  invoice'[log'[e].period].status \in
                    {handler'[h].invoice[log'[e].period].status, log'[e].status}
  <2>1. CASE e \in New
    BY <2>1, NewIsUnread
  <2>2. CASE e \in DOMAIN log
    BY <1>1, <1>2, <1>4, <2>2, NewIsUnread DEF MatchInv, InvoiceInv
  <2> QED BY <2>1, <2>2, NewIsUnread
<1> QED BY <1>3, <1>4 DEF InvoiceInv

(* The last that was said of a subscription, after Stripe spoke of s.      *)
LEMMA ToldLast ==
  ASSUME Typed, NEW s \in Subs, Told(s), NEW e \in DOMAIN log', LastSub(e)'
  PROVE  \/ e \in New /\ log'[e] = SubEvent(s, remote'[s])
         \/ e \in DOMAIN log /\ LastSub(e) /\ log'[e] = log[e] /\ remote' = remote
<1>1. /\ \A d \in DOMAIN log : log'[d] = log[d] /\ d \in DOMAIN log'
      /\ \A d \in DOMAIN log' : d \in Nat /\ (d \in DOMAIN log \/ d \in New)
      /\ \A c \in New, d \in DOMAIN log : d < c /\ c \in DOMAIN log'
  BY NewIsUnread DEF Told
<1>2. CASE \E x \in New : /\ log'[x] = SubEvent(s, remote'[s])
                          /\ \A d \in New \ {x} : log'[d].kind = "invoice"
  <2>1. PICK x \in New : /\ log'[x] = SubEvent(s, remote'[s])
                         /\ \A d \in New \ {x} : log'[d].kind = "invoice"
    BY <1>2
  <2>2. log'[x].kind = "subscription" /\ log'[e].kind = "subscription"
    BY <2>1 DEF SubEvent, LastSub, IsSub
  <2>3. e = x
    <3>1. CASE e \in New
      BY <2>1, <2>2, <3>1
    <3>2. CASE e \in DOMAIN log
      BY <1>1, <2>2, <3>2 DEF LastSub, IsSub
    <3> QED BY <1>1, <3>1, <3>2
  <2> QED BY <2>1, <2>3
<1>3. CASE remote'[s] = remote[s] /\ \A d \in New : log'[d].kind = "invoice"
  <2>1. e \in DOMAIN log
    BY <1>1, <1>3 DEF LastSub, IsSub
  <2>2. LastSub(e)
    BY <1>1, <2>1 DEF LastSub, IsSub
  <2>3. remote' = remote
    <3>1. \A t \in Subs : remote'[t] = remote[t]
      BY <1>3 DEF Told
    <3> QED BY <3>1 DEF Told, Typed
  <2> QED BY <1>1, <2>1, <2>2, <2>3
<1> QED BY <1>2, <1>3 DEF Told

LEMMA ToldMatch ==
  ASSUME Typed, OwnerInv, MatchInv, NEW s \in Subs, Told(s),
         Single => \A t \in Subs \ {s} : ~Entitled(t),
         Entitled(s) \/ remote'[s].status # remote[s].status, account' = account,
         request' = request \/ HeldInv'
  PROVE  MatchInv'
<1>1. profile' = profile /\ Grew /\ LocalSame /\ processed' = processed /\ handler' = handler
  BY DEF Told, LocalSame
<1>2. RemoteInv'
  <2> SUFFICES ASSUME Single PROVE RemoteInv'
    BY <1>1 DEF RemoteInv, Single
  <2>1. ASSUME NEW e \in DOMAIN log', LastSub(e)'
        PROVE  /\ log'[e] = SubEvent(log'[e].sub, remote'[log'[e].sub])
               /\ \A t \in Subs : Entitled(t)' => t = log'[e].sub
    <3>1. CASE e \in New /\ log'[e] = SubEvent(s, remote'[s])
      <4>1. log'[e].sub = s
        BY <3>1 DEF SubEvent
      <4>2. \A t \in Subs \ {s} : ~Entitled(t)'
        BY DEF Told, Entitled
      <4> QED BY <3>1, <4>1, <4>2
    <3>2. CASE e \in DOMAIN log /\ LastSub(e) /\ log'[e] = log[e] /\ remote' = remote
      BY <3>2 DEF MatchInv, RemoteInv, Entitled
    <3> QED BY <2>1, <3>1, <3>2, ToldLast
  <2>2. ASSUME NEW t \in Subs, remote'[t].status # "none"
        PROVE  \E e \in DOMAIN log' : IsSub(e)'
    <3>1. CASE remote[t].status # "none"
      <4>1. PICK e \in DOMAIN log : IsSub(e)
        BY <3>1 DEF MatchInv, RemoteInv
      <4> QED BY <1>1, <4>1, NewIsUnread DEF IsSub
    <3>2. CASE remote[t].status = "none"
      <4>1. remote'[t] # remote[t] /\ t = s
        BY <2>2, <3>2 DEF Told
      <4>2. PICK e \in New : log'[e] = SubEvent(s, remote'[s])
        BY <4>1 DEF Told
      <4>3. log'[e].kind = "subscription"
        BY <4>2 DEF SubEvent
      <4>4. e \in DOMAIN log' /\ IsSub(e)'
        BY <4>3 DEF New, IsSub
      <4> QED BY <4>4
    <3> QED BY <3>1, <3>2
  <2> QED BY <2>1, <2>2 DEF RemoteInv
<1>3. AccountInv'
  <2> SUFFICES ASSUME Calm PROVE AccountInv'
    BY <1>1 DEF AccountInv, Calm
  <2>1. ASSUME NEW e \in DOMAIN log', LastSub(e)'
        PROVE  /\ e \in processed' => \A f \in Fields : account'[f] = log'[e][f]
               /\ \A h \in Handlers : handler'[h].event = e =>
                    \A f \in Fields : account'[f] \in {handler'[h].account[f], log'[e][f]}
    <3>1. CASE e \in New
      BY <1>1, <3>1, NewIsUnread
    <3>2. CASE e \in DOMAIN log /\ LastSub(e) /\ log'[e] = log[e] /\ remote' = remote
      BY <1>1, <3>2 DEF MatchInv, AccountInv
    <3> QED BY <2>1, <3>1, <3>2, ToldLast
  <2> QED BY <2>1 DEF AccountInv
<1>4. HeldInv'
  BY <1>1, KeepsHeld, NewIsUnread DEF LocalSame
<1> QED BY <1>1, <1>2, <1>3, <1>4, GrewInvoices DEF MatchInv

LEMMA PayMatch ==
  ASSUME Typed, OwnerInv, MatchInv, NEW i \in DOMAIN sessions, Pay(i)
  PROVE  MatchInv'
<1>1. PICK s \in Subs : Told(s) /\ remote[s].status = "none" /\ remote'[s].status = "active"
  BY PayTells
<1>2. Single => \A t \in Subs : ~Entitled(t)
  BY PaySessions DEF OwnerInv, EntitledInv, Single
<1>3. UNCHANGED <<account, request>>
  BY DEF Pay, local
<1> QED BY <1>1, <1>2, <1>3, ToldMatch

LEMMA ContinuesMatch ==
  ASSUME Typed, OwnerInv, MatchInv, NEW s \in Subs, Continues(s), account' = account,
         request' = request \/ HeldInv'
  PROVE  MatchInv'
<1>1. Single => \A t \in Subs \ {s} : ~Entitled(t)
  BY DEF Continues, OwnerInv, EntitledInv
<1> QED BY <1>1, ToldMatch DEF Continues

(* A request that ended a subscription is told of it by an event.           *)
LEMMA ChangesMatch ==
  ASSUME Typed, OwnerInv, MatchInv, Changes
  PROVE  MatchInv'
<1> DEFINE s == account.sub
<1>1. s \in Subs /\ Continues(s) /\ account' = account
  BY DEF Changes
<1>2. ASSUME NEW r \in Requests, Ending(r) PROVE HeldInv'
  <2>1. PICK q \in Requesting : q.pc = "ending" /\ request' = [request EXCEPT ![r] = q]
    BY <1>2 DEF Ending
  <2>2. request'[r] = q /\ \A t \in Requests \ {r} : request'[t] = request[t]
    BY <2>1 DEF Typed
  <2>3. Told(s) /\ Grew /\ LocalSame
    BY <1>1 DEF Continues, Told
  <2>4. PICK e \in New : log'[e] = SubEvent(s, remote'[s])
    BY <1>2, <2>3 DEF Ending, Told
  <2>5. log'[e].kind = "subscription" /\ log'[e].ending = remote'[s].ending
    BY <2>4 DEF SubEvent
  <2>6. remote'[s].ending = TRUE
    BY <1>1, <1>2, <2>3 DEF Ending, Told, Remotes
  <2>7. e \in Unread' /\ IsSub(e)' /\ log'[e].ending = TRUE
    BY <2>3, <2>5, <2>6, NewIsUnread DEF Unread, IsSub, New
  <2>8. Held(request[r])'
    BY <2>1, <2>2, <2>7 DEF Held
  <2> QED BY <1>1, <2>2, <2>3, <2>8, KeepsHeld, NewIsUnread DEF LocalSame
<1> QED BY <1>1, <1>2, ContinuesMatch DEF Changes

LEMMA RepeatedMatch ==
  ASSUME Typed, MatchInv, NEW e \in DOMAIN log, Repeated(e)
  PROVE  MatchInv'
<1>1. /\ Grew /\ LocalSame
      /\ UNCHANGED <<request, remote, account, invoice, handler, processed, profile>>
      /\ \A d \in New : log'[d].kind = "invoice"
  BY DEF Repeated, LocalSame
<1>2. ASSUME NEW d \in DOMAIN log', LastSub(d)'
      PROVE  d \in DOMAIN log /\ LastSub(d) /\ log'[d] = log[d]
  <2>1. d \in DOMAIN log
    BY <1>1, <1>2, NewIsUnread DEF LastSub, IsSub
  <2> QED BY <1>1, <1>2, <2>1, NewIsUnread DEF LastSub, IsSub
<1>3. RemoteInv'
  <2> SUFFICES ASSUME Single PROVE RemoteInv'
    BY <1>1 DEF RemoteInv, Single
  <2>1. ASSUME NEW d \in DOMAIN log', LastSub(d)'
        PROVE  /\ log'[d] = SubEvent(log'[d].sub, remote'[log'[d].sub])
               /\ \A s \in Subs : Entitled(s)' => s = log'[d].sub
    BY <1>1, <1>2, <2>1 DEF MatchInv, RemoteInv, Entitled
  <2>2. ASSUME NEW s \in Subs, remote'[s].status # "none"
        PROVE  \E d \in DOMAIN log' : IsSub(d)'
    <3>1. PICK d \in DOMAIN log : IsSub(d)
      BY <1>1, <2>2 DEF MatchInv, RemoteInv
    <3> QED BY <1>1, <3>1, NewIsUnread DEF IsSub
  <2> QED BY <2>1, <2>2 DEF RemoteInv
<1>4. AccountInv'
  <2> SUFFICES ASSUME Calm PROVE AccountInv'
    BY <1>1 DEF AccountInv, Calm
  <2>1. ASSUME NEW d \in DOMAIN log', LastSub(d)'
        PROVE  /\ d \in processed' => \A f \in Fields : account'[f] = log'[d][f]
               /\ \A h \in Handlers : handler'[h].event = d =>
                    \A f \in Fields : account'[f] \in {handler'[h].account[f], log'[d][f]}
    BY <1>1, <1>2, <2>1 DEF MatchInv, AccountInv
  <2> QED BY <2>1 DEF AccountInv
<1>5. HeldInv'
  BY <1>1, KeepsHeld, NewIsUnread
<1> QED BY <1>1, <1>3, <1>4, <1>5, GrewInvoices DEF MatchInv

(* A step that leaves what Stripe said, and what was done with it.         *)
LEMMA SaidSame ==
  ASSUME MatchInv, UNCHANGED <<remote, log, profile>>
  PROVE  RemoteInv'
BY DEF MatchInv, RemoteInv, Single, LastSub, IsSub, Entitled

LEMMA AsideMatch ==
  ASSUME MatchInv, HeldInv', UNCHANGED <<remote, log, profile, processed, handler, invoice>>,
         account' = account
         \/ (Calm => \A e \in DOMAIN log : LastSub(e) =>
               \/ \A f \in Fields : account'[f] \in {account[f], log[e][f]}
               \/ e \notin processed /\ \A h \in Handlers : handler[h].event # e)
  PROVE  MatchInv'
<1>1. InvoiceInv'
  BY DEF MatchInv, InvoiceInv, Calm, LastInvoice, IsInvoice
<1>2. AccountInv'
  <2> SUFFICES ASSUME Calm PROVE AccountInv'
    BY DEF AccountInv, Calm
  <2>1. ASSUME NEW e \in DOMAIN log, LastSub(e)
        PROVE  /\ e \in processed => \A f \in Fields : account'[f] = log[e][f]
               /\ \A h \in Handlers : handler[h].event = e =>
                    \A f \in Fields : account'[f] \in {handler[h].account[f], log[e][f]}
    <3>1. /\ e \in processed => \A f \in Fields : account[f] = log[e][f]
          /\ \A h \in Handlers : handler[h].event = e =>
               \A f \in Fields : account[f] \in {handler[h].account[f], log[e][f]}
      BY <2>1 DEF MatchInv, AccountInv
    <3>2. \/ \A f \in Fields : account'[f] \in {account[f], log[e][f]}
          \/ e \notin processed /\ \A h \in Handlers : handler[h].event # e
      BY <2>1
    <3> QED BY <3>1, <3>2
  <2> QED BY <2>1 DEF AccountInv, LastSub, IsSub
<1> QED BY <1>1, <1>2, SaidSame DEF MatchInv

(* A subscription that was found is what Stripe said last.                 *)
LEMMA FindsHeld ==
  ASSUME Typed, OwnerInv, MatchInv, Calm, NEW r \in Requests, NEW q \in Requesting,
         Asks(r, q), Finds(r, q)
  PROVE  Held(request[r])'
<1>1. PICK s \in Subs : Entitled(s) /\ q.sub = s /\ q.status = remote[s].status
  BY DEF Finds
<1>2. request'[r] = q /\ q.pc = "linking" /\ UNCHANGED <<account, log, processed>>
  BY DEF Asks, StripeSame, Finds, Typed
<1> DEFINE said == {e \in DOMAIN log : IsSub(e)}
<1>3. log \in Seq(Events) /\ Len(log) \in Nat /\ DOMAIN log = 1..Len(log)
  BY DEF Typed
<1>4. said \subseteq 1..Len(log) /\ said # {}
  <2>1. remote[s].status # "none" /\ Single
    BY <1>1, CalmIs DEF Entitled
  <2> QED BY <1>3, <2>1 DEF MatchInv, RemoteInv
<1>5. PICK e \in said : \A d \in said : d <= e
  <2> HIDE DEF said
  <2> QED BY <1>3, <1>4, LastOf
<1>6. e \in DOMAIN log /\ LastSub(e)
  <2>1. e \in Nat /\ IsSub(e) /\ \A d \in DOMAIN log : d \in Nat /\ (IsSub(d) => d <= e)
    BY <1>3, <1>5
  <2> QED BY <1>5, <2>1 DEF LastSub
<1>7. log[e].sub = s /\ log[e].status = remote[s].status
  <2>1. log[e] = SubEvent(s, remote[s])
    <3>1. log[e] = SubEvent(log[e].sub, remote[log[e].sub]) /\ s = log[e].sub
      BY <1>1, <1>6, CalmIs DEF MatchInv, RemoteInv
    <3> QED BY <3>1
  <2> QED BY <2>1 DEF SubEvent
<1>8. CASE e \in processed
  <2>1. \A f \in Fields : account[f] = log[e][f]
    BY <1>6, <1>8 DEF MatchInv, AccountInv
  <2>2. account.sub = q.sub /\ account.status = q.status
    BY <1>1, <1>7, <2>1 DEF Fields
  <2> QED BY <1>2, <2>2 DEF Held
<1>9. CASE e \notin processed
  <2>1. e \in Unread' /\ IsSub(e)' /\ log'[e].sub = q.sub /\ log'[e].status = q.status
    BY <1>1, <1>2, <1>6, <1>7, <1>9 DEF Unread, LastSub, IsSub
  <2> QED BY <1>2, <2>1 DEF Held
<1> QED BY <1>8, <1>9

(* So are the invoices that were listed.                                   *)
LEMMA ListsHeld ==
  ASSUME Typed, OwnerInv, MatchInv, Calm, NEW r \in Requests, NEW q \in Requesting,
         Asks(r, q), Lists(r, q)
  PROVE  Held(request[r])'
<1>1. request'[r] = q /\ UNCHANGED <<account, invoice, log, processed>>
  BY DEF Asks, StripeSame, Typed
<1>2. CASE q.pc = "listed"
  <2>1. HasCustomer /\ \A p \in Periods : q.list[p] = Latest(account.customer, p)
    BY <1>2 DEF Lists
  <2>2. account.customer = 1 /\ \A e \in DOMAIN log : log[e].customer = 1
    BY <2>1, CalmIs DEF HasCustomer, None, OwnerInv, CustomerInv
  <2>3. ASSUME NEW p \in Periods, q.list[p] # "none"
        PROVE  \/ q.list[p] = invoice[p].status
               \/ \E d \in Unread : IsInvoice(d) /\ log[d].period = p /\ log[d].status = q.list[p]
    <3>1. PICK e \in DOMAIN log :
            /\ log[e].kind = "invoice" /\ log[e].period = p /\ log[e].status = q.list[p]
            /\ \A d \in DOMAIN log :
                 log[d].kind = "invoice" /\ log[d].period = p /\ log[d].customer = 1 => d <= e
      BY <2>1, <2>2, <2>3, LatestIs
    <3>2. LastInvoice(e)
      <4>1. e \in Nat /\ \A d \in DOMAIN log : d \in Nat /\ (d > e => ~(d <= e))
        BY DEF Typed
      <4> QED BY <2>2, <3>1, <4>1 DEF LastInvoice, IsInvoice
    <3>3. CASE e \in processed
      BY <3>1, <3>2, <3>3 DEF MatchInv, InvoiceInv
    <3>4. CASE e \notin processed
      BY <3>1, <3>4 DEF Unread, IsInvoice
    <3> QED BY <3>3, <3>4
  <2> QED BY <1>1, <1>2, <2>3 DEF Held, Unread, IsInvoice
<1>3. CASE q.pc = "compared"
  <2>1. /\ request[r].pc = "listed" /\ q.list = request[r].list
        /\ \A p \in Periods : q.read[p] = invoice[p].status
    BY <1>3 DEF Lists
  <2>2. Held(request[r])
    BY DEF MatchInv, HeldInv
  <2> QED BY <1>1, <1>3, <2>1, <2>2 DEF Held, Unread, IsInvoice
<1> QED BY <1>2, <1>3 DEF Lists

LEMMA WaitsMatch ==
  ASSUME Typed, OwnerInv, MatchInv, NEW r \in Requests, Waits(r)
  PROVE  MatchInv'
<1>1. PICK q \in Requesting : Asks(r, q) /\ (Begins(r, q) \/ Finds(r, q) \/ Lists(r, q))
  BY DEF Waits
<1>2. /\ UNCHANGED <<remote, log, profile, processed, handler, account, invoice>>
      /\ request'[r] = q /\ \A t \in Requests \ {r} : request'[t] = request[t]
  BY <1>1 DEF Asks, StripeSame, Typed
<1>3. \/ q.pc \notin {"linking", "ending", "listed", "compared"}
      \/ (Calm => Held(request[r])')
  BY <1>1, FindsHeld, ListsHeld DEF Begins
<1>4. HeldInv'
  BY <1>2, <1>3, KeepsHeld
<1> QED BY <1>2, <1>4, AsideMatch

(* A request that ends, while users do not overlap, holds nothing more.    *)
LEMMA NoneHeld ==
  ASSUME Typed, OwnerInv, NEW r \in Requests, request[r].pc # "idle", profile' = profile,
         NEW q, request' = [request EXCEPT ![r] = q],
         q.pc \notin {"linking", "ending", "listed", "compared"}
  PROVE  HeldInv'
<1> SUFFICES ASSUME Calm, NEW t \in Requests PROVE Held(request[t])'
  BY DEF HeldInv, Calm
<1>1. request'[t] = IF t = r THEN q ELSE request[t]
  BY DEF Typed
<1>2. t # r => request[t].pc = "idle"
  BY CalmIs DEF OwnerInv, CustomerInv
<1> QED BY <1>1, <1>2 DEF Held

(* What a request links, or marks, an event says that was not processed.    *)
LEMMA LinksMatch ==
  ASSUME Typed, HistoryInv, OwnerInv, MatchInv, NEW r \in Requests, Links(r)
  PROVE  MatchInv'
<1> DEFINE q == request[r]
<1>1. /\ UNCHANGED <<remote, log, profile, processed, handler, invoice>>
      /\ q.pc \in {"linking", "ending"} /\ request' = [request EXCEPT ![r] = free]
  BY DEF Links, StripeSame
<1>2. HeldInv'
  BY <1>1, FreeTyped, NoneHeld
<1>3. ASSUME Calm, NEW e \in DOMAIN log, LastSub(e)
      PROVE  \/ \A f \in Fields : account'[f] \in {account[f], log[e][f]}
             \/ e \notin processed /\ \A h \in Handlers : handler[h].event # e
  <2>1. ASSUME NEW d \in Unread, IsSub(d)
        PROVE  d = e \/ (e \notin processed /\ \A h \in Handlers : handler[h].event # e)
    <3>1. d \in DOMAIN log /\ d \in Nat /\ e \in Nat /\ ~(d > e)
      BY <1>3, <2>1 DEF LastSub, Unread, Typed
    <3>2. d = e \/ d < e
      BY <3>1
    <3> QED BY <1>3, <2>1, <3>2, Blocks, CalmIs
  <2>2. Held(q)
    BY <1>3 DEF MatchInv, HeldInv
  <2>3. CASE q.pc = "linking"
    <3>1. /\ account'.sub = q.sub /\ account'.status = q.status
          /\ account'.customer = account.customer /\ account'.plan = account.plan
          /\ account'.ending = account.ending
      BY <2>3 DEF Links, Typed, Accounts
    <3>2. \/ q.sub = account.sub /\ q.status = account.status
          \/ \E d \in Unread : IsSub(d) /\ log[d].sub = q.sub /\ log[d].status = q.status
      BY <2>2, <2>3 DEF Held
    <3> HIDE DEF q
    <3> QED BY <2>1, <3>1, <3>2 DEF Fields
  <2>4. CASE q.pc = "ending"
    <3>1. /\ account'.sub = account.sub /\ account'.status = account.status
          /\ account'.customer = account.customer /\ account'.plan = account.plan
          /\ account'.ending = (account.ending \/ ~q.ending)
      BY <2>4 DEF Links, Typed, Accounts
    <3>2. account.ending \/ q.ending \/ \E d \in Unread : IsSub(d) /\ log[d].ending = TRUE
      BY <2>2, <2>4 DEF Held
    <3>3. account.ending \in BOOLEAN /\ q.ending \in BOOLEAN
      BY DEF Typed, Accounts, Requesting
    <3> HIDE DEF q
    <3>4. CASE account.ending \/ q.ending
      <4>1. account'.ending = account.ending
        BY <3>1, <3>3, <3>4
      <4> QED BY <3>1, <4>1 DEF Fields
    <3>5. CASE \E d \in Unread : IsSub(d) /\ log[d].ending = TRUE
      <4>1. account'.ending \in {account.ending, TRUE}
        BY <3>1, <3>3
      <4> QED BY <2>1, <3>1, <3>5, <4>1 DEF Fields
    <3> QED BY <3>2, <3>4, <3>5
  <2> QED BY <1>1, <2>3, <2>4
<1> QED BY <1>1, <1>2, <1>3, AsideMatch

LEMMA OpensMatch ==
  ASSUME Typed, OwnerInv, MatchInv, NEW r \in Requests, Opens(r)
  PROVE  MatchInv'
<1>1. /\ UNCHANGED <<remote, log, profile, processed, handler, account, invoice>>
      /\ request[r].pc = "opening" /\ request' = [request EXCEPT ![r] = free]
  BY DEF Opens, StripeSame
<1>2. HeldInv'
  BY <1>1, FreeTyped, NoneHeld
<1> QED BY <1>1, <1>2, AsideMatch

LEMMA CreatesMatch ==
  ASSUME Typed, OwnerInv, MatchInv, NEW r \in Requests, Creates(r)
  PROVE  MatchInv'
<1>1. /\ UNCHANGED <<remote, log, profile, processed, handler, invoice>>
      /\ request[r].pc \in {"checkout", "portal"}
  BY DEF Creates, StripeSame
<1>2. PICK q \in Requesting :
        request' = [request EXCEPT ![r] = q] /\ q.pc \in {"opening", "asking"}
  BY DEF Creates
<1>3. HeldInv'
  BY <1>1, <1>2, NoneHeld
<1>4. ASSUME Calm, NEW e \in DOMAIN log PROVE FALSE
  <2>1. customers = 0 /\ customers = 1
    BY <1>1, <1>4, CalmIs DEF OwnerInv, CustomerInv, OwnRequest
  <2> QED BY <2>1
<1> QED BY <1>1, <1>3, <1>4, AsideMatch

(* What is saved of an invoice is what its row holds, or what an event says *)
(* that was not processed.                                                 *)
LEMMA SavesMatch ==
  ASSUME Typed, HistoryInv, OwnerInv, MatchInv, NEW r \in Requests, Saves(r)
  PROVE  MatchInv'
<1> DEFINE q == request[r]
<1>1. /\ UNCHANGED <<remote, log, profile, processed, handler, account>>
      /\ q.pc = "compared" /\ request' = [request EXCEPT ![r] = free]
  BY DEF Saves, StripeSame
<1>2. HeldInv'
  BY <1>1, FreeTyped, NoneHeld
<1>3. AccountInv'
  BY <1>1 DEF MatchInv, AccountInv, Calm, LastSub, IsSub
<1>4. InvoiceInv'
  <2> SUFFICES ASSUME Calm PROVE InvoiceInv'
    BY <1>1 DEF InvoiceInv, Calm
  <2>1. ASSUME NEW p \in Periods
        PROVE  \/ invoice'[p].status = invoice[p].status
               \/ \E d \in Unread : /\ IsInvoice(d) /\ log[d].period = p
                                    /\ log[d].status = invoice'[p].status
    <3>1. Held(q)
      BY DEF MatchInv, HeldInv
    <3>2. \/ invoice'[p].status = invoice[p].status
          \/ q.list[p] # "none" /\ invoice'[p].status = q.list[p]
      BY DEF Saves
    <3> QED BY <1>1, <3>1, <3>2 DEF Held
  <2>2. ASSUME NEW p \in Periods, invoice'[p].status # "none"
        PROVE  \E e \in DOMAIN log : IsInvoice(e) /\ log[e].period = p
    <3>1. CASE invoice'[p].status = invoice[p].status
      BY <2>2, <3>1 DEF MatchInv, InvoiceInv
    <3>2. CASE \E d \in Unread : IsInvoice(d) /\ log[d].period = p
      BY <3>2 DEF Unread
    <3> QED BY <2>1, <3>1, <3>2
  <2>3. ASSUME NEW e \in DOMAIN log, LastInvoice(e)
        PROVE  /\ e \in processed => invoice'[log[e].period].status = log[e].status
               /\ \A h \in Handlers : handler[h].event = e =>
                    invoice'[log[e].period].status \in
                      {handler[h].invoice[log[e].period].status, log[e].status}
    <3> DEFINE p == log[e].period
    <3>1. p \in Periods
      BY <2>3, EventKinds DEF Typed, LastInvoice, IsInvoice, InvoiceEvents
    <3>2. CASE invoice'[p].status = invoice[p].status
      BY <2>3, <3>2 DEF MatchInv, InvoiceInv
    <3>3. CASE \E d \in Unread : /\ IsInvoice(d) /\ log[d].period = p
                                 /\ log[d].status = invoice'[p].status
      <4>1. PICK d \in Unread : /\ IsInvoice(d) /\ log[d].period = p
                                /\ log[d].status = invoice'[p].status
        BY <3>3
      <4>2. d \in DOMAIN log /\ d \in Nat /\ e \in Nat /\ ~(d > e)
        BY <2>3, <4>1 DEF LastInvoice, Unread, Typed
      <4>3. d = e \/ d < e
        BY <4>2
      <4> QED BY <2>3, <4>1, <4>3, Blocks, CalmIs
    <3> QED BY <2>1, <3>1, <3>2, <3>3
  <2> QED BY <1>1, <2>2, <2>3 DEF InvoiceInv, LastInvoice, IsInvoice
<1> QED BY <1>1, <1>2, <1>3, <1>4, SaidSame DEF MatchInv

(* In order, what the handler commits was said last, or something later was *)
(* processed already, which it was not.                                     *)
LEMMA CommitsMatch ==
  ASSUME Typed, HistoryInv, MatchInv, NEW h \in Handlers, Commits(h)
  PROVE  MatchInv'
<1> DEFINE x == handler[h].event
<1>1. /\ UNCHANGED <<remote, log, profile>> /\ Busy(h) /\ x \in DOMAIN log
      /\ processed' = processed \cup {x} /\ handler' = [handler EXCEPT ![h] = waiting]
      /\ CommitsSub(h, x) \/ CommitsInvoice(h, x)
      /\ request' = request /\ (Calm => ~Holding)
      /\ DOMAIN log \subseteq Nat \ {0}
  BY CalmIs DEF Commits, HookSame, Typed
<1> HIDE DEF x
<1>2. InOrder => \A g \in Handlers, e \in DOMAIN log : handler'[g].event # e
  BY <1>1, EndsHandling DEF None
<1>3. ASSUME InOrder, NEW e \in processed, e \in DOMAIN log PROVE e < x
  <2>1. x \notin processed /\ 1..e \subseteq processed
    BY <1>1, <1>3 DEF HistoryInv, OrderInv, x
  <2>2. x \in Nat \ {0} /\ e \in Nat
    BY <1>1, <1>3
  <2> QED BY <2>1, <2>2
<1>4. CommitsSub(h, x) => IsSub(x) /\ ~IsInvoice(x)
  BY DEF CommitsSub, SubEvents, IsSub, IsInvoice
<1>5. CommitsInvoice(h, x) => IsInvoice(x) /\ ~IsSub(x) /\ log[x].period \in Periods
  BY DEF CommitsInvoice, InvoiceEvents, IsSub, IsInvoice
<1>6. AccountInv'
  <2> SUFFICES ASSUME Calm, NEW e \in DOMAIN log, LastSub(e), e \in processed'
               PROVE  \A f \in Fields : account'[f] = log[e][f]
    BY <1>1, <1>2, CalmIs DEF AccountInv, Calm, LastSub, IsSub
  <2> InOrder
    BY CalmIs
  <2>1. CASE e = x
    <3>1. CommitsSub(h, x)
      BY <1>1, <1>5, <2>1 DEF LastSub
    <3>2. \A f \in Fields : account[f] \in {handler[h].account[f], log[e][f]}
      BY <2>1 DEF MatchInv, AccountInv, x
    <3>3. \A f \in Fields : account'[f] = Fill(account[f], handler[h].account[f], log[e][f])
      BY <2>1, <3>1 DEF CommitsSub
    <3> QED BY <3>2, <3>3 DEF Fill
  <2>2. CASE e # x
    <3>1. e \in processed /\ e < x
      BY <1>1, <1>3, <2>2
    <3>2. account' = account
      BY <1>1, <1>4, <3>1 DEF LastSub, CommitsInvoice
    <3> QED BY <3>1, <3>2 DEF MatchInv, AccountInv
  <2> QED BY <2>1, <2>2
<1>7. InvoiceInv'
  <2> SUFFICES ASSUME Calm PROVE InvoiceInv'
    BY <1>1 DEF InvoiceInv, Calm
  <2> InOrder
    BY CalmIs
  <2>1. ASSUME NEW q \in Periods, invoice'[q].status # "none"
        PROVE  \E e \in DOMAIN log : IsInvoice(e) /\ log[e].period = q
    <3>1. CASE invoice[q].status # "none"
      BY <3>1 DEF MatchInv, InvoiceInv
    <3>2. CASE invoice[q].status = "none"
      <4>1. CommitsInvoice(h, x)
        BY <1>1, <2>1, <3>2 DEF CommitsSub
      <4>2. log[x].period = q
        BY <2>1, <3>2, <4>1 DEF CommitsInvoice
      <4> QED BY <1>1, <1>5, <4>1, <4>2
    <3> QED BY <3>1, <3>2
  <2>2. ASSUME NEW e \in DOMAIN log, LastInvoice(e), e \in processed'
        PROVE  invoice'[log[e].period].status = log[e].status
    <3> DEFINE p == log[e].period
    <3>1. p \in Periods
      BY <2>2, EventKinds DEF Typed, LastInvoice, IsInvoice, InvoiceEvents
    <3>2. CASE e = x
      <4>1. CommitsInvoice(h, x)
        BY <1>1, <1>4, <2>2, <3>2 DEF LastInvoice
      <4>2. invoice[p].status \in {handler[h].invoice[p].status, log[e].status}
        BY <2>2, <3>2 DEF MatchInv, InvoiceInv, x
      <4>3. invoice'[p].status = Fill(invoice[p].status, handler[h].invoice[p].status, log[e].status)
        BY <3>2, <4>1 DEF CommitsInvoice
      <4> QED BY <4>2, <4>3 DEF Fill
    <3>3. CASE e # x
      <4>1. e \in processed /\ e < x
        BY <1>1, <1>3, <2>2, <3>3
      <4>2. IsInvoice(x) => log[x].period # p
        BY <1>1, <2>2, <4>1 DEF LastInvoice
      <4>3. invoice'[p] = invoice[p]
        BY <1>1, <1>5, <3>1, <4>2 DEF CommitsSub, CommitsInvoice
      <4> QED BY <2>2, <4>1, <4>3 DEF MatchInv, InvoiceInv
    <3> QED BY <3>2, <3>3
  <2> QED BY <1>1, <1>2, <2>1, <2>2 DEF InvoiceInv, LastInvoice, IsInvoice
<1>8. HeldInv'
  BY <1>1 DEF HeldInv, Held, Holding, Calm
<1> QED BY <1>1, <1>6, <1>7, <1>8, SaidSame DEF MatchInv

(* A handler that begins reads what there is, and in order it is alone.    *)
LEMMA ReadsMatch ==
  ASSUME Typed, MatchInv,
         UNCHANGED <<request, remote, log, profile, processed, account, invoice>>,
         InOrder => \A g \in Handlers :
           handler'[g].event # None => handler'[g].account = account /\ handler'[g].invoice = invoice
  PROVE  MatchInv'
<1>1. \A e \in DOMAIN log : e # None
  BY DEF Typed, None
<1>2. AccountInv'
  <2> SUFFICES ASSUME Calm PROVE AccountInv'
    BY DEF AccountInv, Calm
  <2>1. \A e \in DOMAIN log : LastSub(e) /\ e \in processed =>
          \A f \in Fields : account[f] = log[e][f]
    BY DEF MatchInv, AccountInv
  <2>2. \A e \in DOMAIN log : \A g \in Handlers :
          handler'[g].event = e => handler'[g].account = account
    BY <1>1, CalmIs
  <2> QED BY <2>1, <2>2 DEF AccountInv, LastSub, IsSub
<1>3. InvoiceInv'
  <2> SUFFICES ASSUME Calm PROVE InvoiceInv'
    BY DEF InvoiceInv, Calm
  <2>1. /\ \A p \in Periods : invoice[p].status # "none" =>
             \E e \in DOMAIN log : IsInvoice(e) /\ log[e].period = p
        /\ \A e \in DOMAIN log : LastInvoice(e) /\ e \in processed =>
             invoice[log[e].period].status = log[e].status
    BY DEF MatchInv, InvoiceInv
  <2>2. \A e \in DOMAIN log : \A g \in Handlers :
          handler'[g].event = e => handler'[g].invoice = invoice
    BY <1>1, CalmIs
  <2> QED BY <2>1, <2>2 DEF InvoiceInv, LastInvoice, IsInvoice
<1>4. HeldInv'
  BY KeepsHeld
<1> QED BY <1>2, <1>3, <1>4, SaidSame DEF MatchInv

LEMMA FailsMatch ==
  ASSUME Typed, HistoryInv, MatchInv, NEW h \in Handlers, Fails(h)
  PROVE  MatchInv'
<1>1. /\ UNCHANGED <<request, remote, log, profile, processed, account, invoice>>
      /\ Busy(h) /\ handler' = [handler EXCEPT ![h] = waiting]
  BY DEF Fails, HookSame
<1>2. InOrder => \A g \in Handlers : handler'[g].event = None
  BY <1>1, EndsHandling
<1> QED BY <1>1, <1>2, ReadsMatch

LEMMA ReceivesMatch ==
  ASSUME Typed, MatchInv, NEW h \in Handlers, NEW e \in DOMAIN log, Receives(h, e)
  PROVE  MatchInv'
<1>1. /\ UNCHANGED <<request, remote, log, profile, processed, account, invoice>>
      /\ MyTurn(e)
      /\ handler' = [handler EXCEPT ![h] = [event |-> e, account |-> account,
                                            invoice |-> invoice]]
  BY DEF Receives, HookSame
<1>2. /\ handler'[h].account = account /\ handler'[h].invoice = invoice
      /\ \A g \in Handlers \ {h} : handler'[g] = handler[g]
  BY <1>1 DEF Typed
<1>3. InOrder => \A g \in Handlers : handler[g].event = None
  BY <1>1 DEF MyTurn, InOrder
<1> QED BY <1>1, <1>2, <1>3, ReadsMatch

LEMMA NextMatch == Typed /\ HistoryInv /\ OwnerInv /\ MatchInv /\ [Next]_vars => MatchInv'
<1> SUFFICES ASSUME Typed, HistoryInv, OwnerInv, MatchInv, [Next]_vars PROVE MatchInv'
  OBVIOUS
<1>1. CASE Stripe
  BY <1>1, StripeSteps, PayMatch, ContinuesMatch, RepeatedMatch
<1>4. CASE User
  BY <1>4, UserSteps, WaitsMatch, LinksMatch, OpensMatch, CreatesMatch, SavesMatch, ChangesMatch
<1>5. CASE \E h \in Handlers : Webhook(h)
  BY <1>5, WebhookSteps, CommitsMatch, FailsMatch, ReceivesMatch
<1>6. CASE UNCHANGED vars
  <2>1. UNCHANGED <<request, remote, log, profile, processed, handler, account, invoice>>
    BY <1>6 DEF vars, stripe, local, effects
  <2>2. HeldInv'
    BY <2>1, KeepsHeld
  <2> QED BY <2>1, <2>2, AsideMatch
<1> QED BY <1>1, <1>4, <1>5, <1>6 DEF Next

(* Once all is processed the last that was said has been.                  *)
LEMMA Matches == Typed /\ OwnerInv /\ MatchInv => AccountMatchesStripe
<1> SUFFICES ASSUME Typed, OwnerInv, MatchInv, Settled, Calm, Single, OneUser
             PROVE  /\ (\E t \in Subs : remote[t].status # "none") =>
                         LET s == account.sub IN
                         /\ s # None
                         /\ account.status = remote[s].status /\ account.plan = remote[s].plan
                         /\ account.ending = remote[s].ending
                         /\ Entitled(s) \/ \A t \in Subs : ~Entitled(t)
                    /\ \A p \in Periods : invoice[p].status = Latest(account.customer, p)
  BY CalmIs DEF AccountMatchesStripe, Calm
<1>1. /\ log \in Seq(Events) /\ DOMAIN log = 1..Len(log) /\ Len(log) \in Nat
      /\ processed = DOMAIN log
  <2>1. log \in Seq(Events) /\ processed = 1..Len(log)
    BY DEF Typed, Settled
  <2> QED BY <2>1
<1>2. ASSUME NEW t \in Subs, remote[t].status # "none"
      PROVE  LET s == account.sub IN
             /\ s # None
             /\ account.status = remote[s].status /\ account.plan = remote[s].plan
             /\ account.ending = remote[s].ending
             /\ Entitled(s) \/ \A u \in Subs : ~Entitled(u)
  <2> DEFINE said == {e \in DOMAIN log : IsSub(e)}
  <2>1. said \subseteq 1..Len(log) /\ said # {}
    BY <1>1, <1>2 DEF MatchInv, RemoteInv
  <2>2. PICK e \in said : \A d \in said : d <= e
    <3> HIDE DEF said
    <3> QED BY <1>1, <2>1, LastOf
  <2>3. e \in DOMAIN log /\ LastSub(e)
    <3>1. e \in Nat /\ IsSub(e) /\ \A d \in DOMAIN log : d \in Nat /\ (IsSub(d) => d <= e)
      BY <1>1, <2>2
    <3> QED BY <2>2, <3>1 DEF LastSub
  <2>4. PICK s \in Subs : s = log[e].sub
    <3>1. log[e] \in Events /\ log[e].kind = "subscription"
      BY <1>1, <2>3 DEF LastSub, IsSub
    <3>2. log[e] \in SubEvents
      BY <3>1, EventKinds
    <3> QED BY <3>2 DEF SubEvents
  <2>5. /\ log[e] = SubEvent(s, remote[s])
        /\ \A u \in Subs : Entitled(u) => u = s
        /\ \A f \in Fields : account[f] = log[e][f]
    BY <1>1, <2>3, <2>4 DEF MatchInv, RemoteInv, AccountInv
  <2>6. /\ log[e].status = remote[s].status /\ log[e].plan = remote[s].plan
        /\ log[e].ending = remote[s].ending
    BY <2>5 DEF SubEvent
  <2>7. /\ account.sub = s /\ account.status = remote[s].status
        /\ account.plan = remote[s].plan /\ account.ending = remote[s].ending
    BY <2>4, <2>5, <2>6 DEF Fields
  <2>8. s # None
    BY Bounds DEF Subs, None
  <2> QED BY <2>5, <2>7, <2>8
<1>3. ASSUME NEW p \in Periods
      PROVE  invoice[p].status = Latest(account.customer, p)
  <2> DEFINE k == account.customer
  <2>1. \A e \in DOMAIN log : log[e].customer = k
    BY <1>1 DEF OwnerInv, CustomerInv
  <2> HIDE DEF k
  <2>2. CASE \A d \in DOMAIN log : ~(log[d].kind = "invoice" /\ log[d].period = p)
    <3>1. invoice[p].status = "none"
      BY <1>1, <2>2 DEF MatchInv, InvoiceInv, IsInvoice
    <3>2. Latest(k, p) = "none"
      BY <2>2, LatestIs
    <3> QED BY <3>1, <3>2 DEF k
  <2>3. CASE \E d \in DOMAIN log : log[d].kind = "invoice" /\ log[d].period = p
    <3>1. PICK e \in DOMAIN log :
            /\ log[e].kind = "invoice" /\ log[e].period = p /\ Latest(k, p) = log[e].status
            /\ \A d \in DOMAIN log :
                 log[d].kind = "invoice" /\ log[d].period = p /\ log[d].customer = k => d <= e
      BY <2>1, <2>3, LatestIs
    <3>2. e \in Nat /\ \A d \in DOMAIN log : d \in Nat /\ (d > e => ~(d <= e))
      BY <1>1
    <3>3. LastInvoice(e)
      BY <2>1, <3>1, <3>2 DEF LastInvoice, IsInvoice
    <3> QED BY <1>1, <3>1, <3>3 DEF MatchInv, InvoiceInv, k
  <2> QED BY <2>2, <2>3
<1> QED BY <1>2, <1>3

(* Once every event is handled the account and its invoices are what Stripe *)
(* has, however old was what a request had heard, in a calm behaviour.      *)
THEOREM AccountAlwaysMatches == Spec => []AccountMatchesStripe
<1> DEFINE I == Typed /\ HistoryInv /\ OwnerInv /\ MatchInv
<1>1. Init => I
  BY InitTyped, InitHistory, InitOwner, InitMatch
<1>2. I /\ [Next]_vars => I'
  BY NextTyped, NextHistory, NextOwner, NextMatch
<1>3. I => AccountMatchesStripe
  BY Matches
<1> QED
  <2> HIDE DEF I
  <2> QED BY <1>1, <1>2, <1>3, PTL DEF Spec
=============================================================================
