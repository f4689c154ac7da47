# A verification project for Avenqo's backend

Avenqo is a multi-tenant platform (FastAPI, SQLAlchemy, PostgreSQL, one uvicorn
worker and one replica) that sells AI features to companies: chat and voice
agents billed in *credits*, a model of each company's retail data trained on
what its stores deliver, and a CRM that books appointments. This directory
holds TLA+ models of the parts of it where a mistake costs money or data and
where tests reach least: what several requests, tasks, handlers and outside
services do to the same rows. TLC checks the models on small instances; TLAPS
proves the main results for every value of the constants.

## 1. The system

| Component | State it keeps | Operations | Hard behaviour | Correct when |
|---|---|---|---|---|
| **AI credit ledger** `ai/usage/service.py`, `models/ai_usage.py` | balance row, reservations, purchase lots, audit entries | claim, settle, release, expire, grant, reverse, renew, restore | operations of many requests interleave; each one first expires others' stale reservations; limits and periods change under live reservations | counters, lots, reservations and audit entries agree; a request is charged once; nobody spends what another holds |
| **Credit purchases** `services/billing_service.py` | `AICreditPurchase` rows, `StripeWebhookEvent` rows | checkout, webhook (grant, failure, refund) | events reordered, repeated, retried; row read before the credit lock; rounding of partial refunds | a pack is granted once and only when paid; a refund is taken once |
| **Chat requests** `ai/chat/chat_service.py`, `ai/chat/orchestrator.py` | the running executions, their attempts, the conversation | `send`, `stream`, tool loop | deadlines, disconnections, duplicates, provider errors, crash at any await | one execution per request id; holds end; what was metered is charged, never more |
| **LLM gateway** `ai/llm/gateway.py`, `circuit_breaker.py` | calls in progress; per-provider failure counts | call or stream with retries and failover | calls share the breaker; a stream fails after part of its text is sent | one answer's text; every attempt reported; a circuit opens for a reason |
| **Subscriptions, invoices** `services/billing_service.py`, `stripe_invoice_sync.py` | billing account, invoices, allowance period | checkout, portal, plan change, backfill, webhook | events out of order, at once, again; requests that ask Stripe and write later; two users; e-mail before commit | the account is what Stripe last said; one subscription is paid; a period renews once |
| **Commerce synchronisation** `services/commerce_sync_service.py`, `commerce_sync_runner.py` | connection row (status, heartbeat, cursor), records, dataset, receipts | reserve, resume, page, tombstones, snapshot, webhook, drain, cron, disconnect | takeover of a run that is still alive; changes during a run, which move the records from page to page; crash between commits | one run at a time; the cursor passes over nothing; no older copy wins; receipts are taken up |
| **Training and model registry** `services/training_dispatcher.py`, `shared/ai_engine/registry`, `versioning` | jobs, queue, version directories, ACTIVE file, `model_registries` | dispatch, retraining check, run, activate, complete, roll back, delete | dispatches race; the model served is named in a file, in records written one by one, and in a row; data deleted while it trains; a process nobody watches | a dataset trains once; file, records and row agree; the model served changes for a reason |
| **CRM booking** `services/crm_service.py`, `crm_availability_service.py`, `calendar/google_provider.py` | appointments, calendar connection, advisory lock | create, change, cancel, delete, import of Google's events | the check awaits Google under the lock; a refreshed token commits in the middle; lost answers | no two appointments need one person at once; a failed request changed nothing; Google shows what the CRM has |
| **Voice turns** `voice/usage.py`, `persistent_speech_usage.py` | turns in memory, call journal | reserve, attribute, settle, reconcile | events of one turn arrive late or never; a crash between settlement and journal | a turn is charged once |
| **Authentication** `services/auth_service.py` | sessions with a token hash | login, refresh, revoke | two refreshes of one token | one valid token per session |
| **Voice provisioning** | orders, numbers | order, activate, suspend | several providers, retries | paid numbers only |
| **Contracts** | signature requests | challenge, sign | sequential under a row lock | one signature |
| Media, support chat, ads, agents | - | clients of the credit account | the same claim, call, settlement | as chat requests |
| Rate limit, caches, RLS, ML engine, web, Flutter, migrations | derived or external | - | - | - |

The last six rows are not modelled (section 6).

How they interact. Every AI feature claims a reservation in the credit ledger,
calls providers through the gateway, and settles what the gateway reports or
releases. The Stripe webhook is one handler for both billing components: it
calls the ledger to grant and reverse packs and to renew the allowance, and
updates the account and the invoices. Commerce runs end by writing the dataset
that trainings read. The rest share the database only.

What serialises them is different in each place, and each model has just that:
the ledger's operations take a company's advisory lock and row lock and are
atomic; a webhook handler is not, it reads rows first and locks later; a
commerce run is protected by a *reservation*, columns of a row that a heartbeat
keeps alive; a training dispatch by a unique index; a booking by an advisory
lock of the transaction. Coroutines run on one event loop and interleave at their
awaits; synchronous endpoints run in the thread pool, truly in parallel.

Sessions are opened with `autoflush=False, expire_on_commit=False`
(`database/session.py:60`) in READ COMMITTED: a row already read is *not*
refreshed by a later lock, and the commit writes the columns whose value
differs from what was read. `Write`, `Written` and the handlers' copies in the models are this rule.

The hazards of this code, with the line where each bites and the property that
covers it, are listed in `PROJECT.json`.

## 2. The modules

```
CreditMath ── CreditLedger ─┬─ CreditPurchases
                            ├─ ChatRequests
PrepaidWallet ──────────────┴─ CreditWallet      (CreditLedger and CreditPurchases
                                                  implement PrepaidWallet)
Availability ─┬─ Agenda
              └─ CalendarBooking                 (implements Agenda)
Gateway    BillingAccount    CommerceSync    Training
```

### The credit account

* **CreditMath**: truncated subtraction, sums, and the oldest-lot-first split.
  A sum is the cardinality of the set of credits counted, so no recursion is
  needed and the laws of sums can be proved.
* **CreditLedger**: `AIUsageService` for one company. A variable per column, with
  the code's names. Every operation takes the company lock, works on rows read
  under it and commits once, so every operation is one atomic action, including the
  expiry of stale reservations it starts with (`Stale`, `ExpireOnly`; a settlement
  or a release exempts its own request). An operation that raises rolls back and is a disabled action.
  `posted` keeps the sums of the audit entries' delta columns, and `ledger_keys`
  the idempotency keys the code looks up. `limit` is what `limit_for` returns and
  may change at any time (plan change, override); `aged` are the
  requests whose reservation is older than the TTL.
* **PrepaidWallet**: what the account promises about purchased credits, without
  lots, allowance, audit or clock: a request opens once and closes once, and no hold,
  payment or withdrawal touches what others hold. **CreditWallet** is the
  refinement mapping from CreditLedger to it.
* **CreditPurchases**: the checkout, Stripe, and `process_webhook` in two steps.
  `Deliver` reads the purchase row, `Apply` is everything from the credit lock to
  the commit: `Handle`, which computes from the copy, and `CheckConstraints` of what it
  leaves, as PostgreSQL tests them; a `LedgerOperation` is an `AccountOperation` under
  the same test. `Abort` is an exception, a
  crash or a violated CHECK; Stripe then sends the event again. In a behaviour
  with `overlap` the ledger's operations may step between the two, as
  thread-pool endpoints do; without it only between handlers. Two commits make
  `create_credit_checkout`: `CreateCheckout`, then `CheckoutReady` or
  `CheckoutFailed`, or neither after a crash. A customer has the payment page's
  address only after the second, so payments start there.

### AI requests

* **ChatRequests**: executions of `send` and `stream`. `Start` claims, or is
  refused (a conflict, or the quota). `Call`, `Answer`, `Fallback` and `GiveUp`
  are the tool loop. `ProviderError`, `Abort` (deadline of `send`, disconnection of a
  `stream`), `CancelledInLoop` and `CancelledInChunks` are the early exits with their own
  settlement code; `Pay` and `Persist` are the two transactions of a success.
  `Crash` stops every execution, as there is one process. `known` is the cost of
  the attempts the code has been told of, `metered` that of the attempts the
  gateway metered.
* **Gateway**: `_run` and `stream_events`. A call moves through its candidates
  (`Skip` an open circuit, `Try`, `Retry`), each attempt ends in `Succeed`, `Fail`, `Unpriced`
  (a `ValueError` once the breaker has the outcome), `Unsupported` (no tools) or `Cancel`, and
  the call in a result or an exception that carries `reported` of the attempts it `made`. `AskOpen`, `RecordSuccess` and `RecordFailure` are the circuit
  breaker that all calls share, with the order of the code: asking a cooled
  circuit closes it. The router's score is abstracted to *any* ranking of the
  candidates per call. `streak` is the true count of consecutive failures, which the
  breaker approximates by `failures`.

### Subscriptions

* **BillingAccount**: users' requests (`create_checkout`, `create_portal`, plan
  change, cancellation, backfill of invoices), Stripe (sessions paid,
  subscriptions active, past due, ended, invoices opened, failed, paid, and the
  `log` of events it sends), and handlers in two steps, `Receive`, which reads the
  account and the invoices, and `Commit`, which writes what it found different, with `CommitFails`
  after which Stripe delivers again. A second insertion of one invoice is a
  `Conflict`. A request is one step per call of Stripe or commit, and `request` holds what it
  heard and has yet to write: `Checkout` takes the row's lock
  and asks for subscriptions, then `Link` commits what it found, or `Open` opens a session,
  after `CreateCustomer`, whose commit ends the lock, if there was no customer; `Portal`,
  `Ask` and `Link` are the same without a lock; `CancelSubscription` tells Stripe and
  `MarkEnding` the row; `Backfill` lists at Stripe, `Compare` reads the rows and `Save`
  commits. `Locked` is the `FOR UPDATE` of a checkout: who else writes the account's row waits
  (`MayWrite`, `MayCommit`). `Compare` reads the rows of all invoices at once, where the code reads
  each before it asks for its tax; that differs only when a handler commits in between. E-mails
  are counted to 2. The voice order that the webhook updates last is left out.

### Commerce and training

* **CommerceSync**: one store. `Reserve` is `_begin_or_resume` under the row's
  lock, which endpoint, cron, webhook task and drain all go through; `Begin`, `Connect`,
  `Fetch`, `StorePage`, `Process`, `Finish` and `Drain` are the run, one action per
  stretch between awaits or commits; each page's commit writes the run's own
  copy of the cursor. `HeartbeatAges` lets a reservation expire while its
  run awaits a page, if the profile has "late". The pages of all entities form one list, ordered by the date of change, of one
  record each, and a record's content is that date. What page comes next is what the list says when
  it is asked for: with `"numbered"` in the profile the one after as many as were read (WooCommerce,
  whose records move up when one before them is changed or deleted), otherwise the one after the last
  record read (Shopify's cursor). The lists ordered by id (WooCommerce's customers, Shopify's
  inventory), which nothing moves, are not told apart. From its last page to the end
  of its drain a run awaits nothing, and the cron, webhooks and tasks of the same event loop
  wait for it (`LoopFree`); the thread pool's endpoints and the provider do not.
* **Training**: one task of one company. `Insert` commits a job and `Enqueue`
  puts it in memory; between them `LoseJob` is a stop of the process. `Step` of a
  job: it starts, reads the active version (`seen`), trains, decides, writes its files and
  the ACTIVE file, completes its row, and records its version. A deletion has a database
  part and a file part, and a rollback begins with the ACTIVE file (`RollbackFiles`) and ends
  with the rows (`RollbackRows`). What lies between is `record_version` and
  `reconcile_lifecycle_states`, which write one file after another, without a lock, in the job's
  process or the rollback's request: `SaveRecord`, `Activate`, then `List`, and for each version
  listed `Load` and `Save`, until `Finish`. `sweep` is what such a writer has listed and the
  record it has loaded. `RecordingFails` is a write that fails and is swallowed; `Stop`,
  `StopDeletion` and `RollbackEnds` are a process that stops, or hangs, at any of these places.
  A read and the commit that follows without an await are one step, and a file is written
  whole. Versions are listed in the order of their jobs; the code lists them by name, the
  time at which the job started.

### Booking

* **Availability**: intervals, buffers and working hours; `CheckConflict` is
  `check_conflict`'s query by the longest buffers and its comparison by each
  service's own, and `Clash` what must never be.
* **Agenda**: the promise, a set of booked appointments that never exclude each
  other, changed by `Book`, `Move` and `Release`.
* **CalendarBooking**: requests that take the advisory lock, read and test
  (`Create`, `Move`, `Amend`, `Cancel`, `Delete`), ask Google (`Busy`), flush the
  insertion, and tell Google, which refuses, answers, or whose answer is lost (`Tell`,
  `TellFails`, `Refresh`, `AgainFails`). An update that is tested (`Move`) may name a status too,
  and writes it; an update of an event that is gone at Google (404) is taken for done (`Heard`). `Unlock` is the end of a transaction: at
  the request's end, but also where a refreshed token or a healed connection is
  committed. `StartImport`, `List` and `Apply` are `sync_from_google`, and
  `OwnerEdits` what its owner does at Google. The connection's status is read anew at
  each step.

**\*_proofs** hold the theorems, **MC\*** the instances for TLC.

### Profiles

Most modules have a variable `profile` (`overlap` in CreditPurchases), chosen in
Init and never changed: the set of disturbances that may happen in this
behaviour. One run then covers the orderly behaviours, for which the strong properties
hold, *and* the disturbed ones, and a property says itself under which disturbances
it holds (`profile \cap {"late"} = {} => ...`). This is how the project records
what the code does *not* guarantee: every such condition was found by
TLC, by a counterexample without it (section 3, "What the conditions stand for").

Other abstractions: credits, prices and dates are small numbers (the conversion of a
provider's cost to credits is outside: a settlement is given any `actual`);
requests, events, receipts and executions are model values or numbers; details,
descriptions, localisation and analytics are left out. Every model covers one
company: every lock, key and query of the code is restricted to one.

## 3. What TLC checks

| Run | Module, configuration | Properties | What it shows |
|---|---|---|---|
| `ledger` | MCCreditLedger | `HoldsMatchReservations`, `LotsMatchBalance`, `CreditsCovered`, `PurchasedCreditsAccounted`, `LedgerExplainsBalance`, `ChargedOnce`, `ImplementsWallet` | Balance, lots, reservations and audit entries agree under every order of operations; a request is charged once; the account is a prepaid wallet |
| `purchases` | MCCreditPurchases | `PackAccounted`, `RefundsHandled`, `RefundedCreditsGone`, `EveryEventProcessed` | One pack refunded in parts that round, its events in any order and repeated, with and without operations inside the handler |
| `purchases_lost_update` | MCCreditPurchases, ...LostUpdate | `LotsMatchBalance` | **Violation**: finding 1 |
| `chat` | MCChatRequests | `OneExecutionPerRequest`, `HeldWhileRunning`, `EndedHoldsNothing`, `ChargedAsMetered`, `AnswersArePaid`, `HoldsEnd` | One execution calls the provider, on credits it holds; whatever ends it, its hold ends and what was metered is charged, an answer is paid |
| `chat_stream_cost` | MCChatRequests, ...Stream | `CancelledWithoutMeteredCost` | **Violation**: finding 2 |
| `gateway` | MCGateway | `OneVoice`, `AttemptsReported`, `OpensAfterStreak`, `CallsEnd` | Concurrent calls over shared circuits: one attempt's text, every attempt reported, no circuit opened for another's failures, every call ends though a circuit may stay open |
| `billing` | MCBillingAccount | `AccountMatchesStripe`, `OneSubscription`, `PaidInvoiceOnce`, `EventsHandled` | The account and the history end as Stripe has them, however late a request writes what it heard; one subscription is charged; a paid invoice renews and is mailed once, with events in any order and at once too, or requests of two users |
| `commerce` | MCCommerceSync | `CursorCoversPages`, `OneRunAtATime`, `SnapshotMatchesStore`, `TombstonesLand`, `NoStaleOverwrite`, `ReceiptsTakenUp` | Runs that fail, crash, are resumed and taken over while webhooks and the cron start others |
| `commerce_updates` | MCCommerceSync, ...Updates | `UpdatesLand` | **Violation**: finding 3 |
| `training` | MCTraining | `DispatchedOnce`, `OneModelServes`, `DeletedDataGone`, `ServedForAReason`, `JobsEnd` | Jobs, dispatches, rollbacks and deletions of one task, and the three names of the model served; jobs that overlap, writes that fail and processes that stop: every other job ends |
| `booking` | MCCalendarBooking | `CalendarAgrees`, `ImplementsAgenda`, `FailedChangesNothing`, `RequestsEnd` | Bookings under the lock are an agenda; Google's side agrees; failures change nothing; everything ends |
| `booking_refresh` | MCCalendarBooking, ...Refresh | `NoDoubleBooking` | **Violation**: finding 4 |

Every module also states a type invariant (`TypeOK`, `PurchasesTypeOK`,
`ChatTypeOK`, ...), some with the relation between columns that the module
assumes throughout. They document the state, and TLC finds no error when one is
added to its run; the runs themselves spend their time on the properties above.

Each property has a mutant in `PROJECT.json`, an operator that stands for a
plausible slip in the mapped code (a dropped guard, a forgotten hold, a refund
counted twice), under which its run fails. They stand next to what they mutate,
marked `mutant`.

### Bounds, and why they are enough

* `ledger`: 2 requests (one operates, the other is live, stale or ended), 2 lots
  (a hold that spans lots, a refund of one while the other is held), packs of 2
  and actual cost 0..2 (an overrun above the hold, partial consumption), a limit
  of 1 and no limit (exhausted, truncated and unlimited arithmetic), 2 periods
  and 1 restore (renewal with requests in flight). A third request adds no new
  pair of conflicting operations, and the proofs cover every number anyway.
* `purchases`: 1 request, limit 0 so that only purchased credits pay, a pack of 3
  credits at price 2, so that each refund rounds up (2, then 3 credits), and
  a repeated copy of each event.
* `chat`: 2 executions, of one request id (a duplicate) or of two (competitors for a limit of 2
  credits, or under none), 2 provider turns. `MaxTurns` is 2 for the code's 5; the loop has no
  other use of it.
  On an unlimited plan the account charges nothing, so the
  equalities of `ChargedAsMetered` and `AnswersArePaid` are about limited ones.
* `gateway`: 2 calls, 2 providers, one retry, `Threshold` 2 (5 in the code): a
  streak made by one call, by two, and interrupted by the other's success; a
  failover of both, each with the circuit of either open.
* `billing`: 2 plans, 2 handlers, 2 subscriptions and 2 sessions (the
  second checkout, the old session), 3 periods (forward, and back), 5 events in
  order, 6 where commits fail (a renewal that is not paid and then is) and 4 in the other profiles
  (`Bound`), enough for each pair of events of a subscription and an invoice to be swapped, repeated
  or handled at once, and for one to come between any two steps of a request. Of the 2 requests one,
  `Alone`, acts again and again unless users overlap. Plans matter to `AccountMatchesStripe`, which is
  checked with both in the undisturbed profile; the other profiles have one.
* `commerce`: 2 runners (the taken-over and its successor), 2 records (one
  passed over, one to come, and the two change places), 2 receipts (a deletion and another, which is the
  uninstallation under that profile), a provider clock of 2 (one change after the first import),
  1 crash. The violation needs one page and 3 dates.
* `training`: 2 datasets, 2 dispatchers, 3 jobs in order (a served model, a
  retraining, and a third to compare with or roll back to) and 2 in the disturbed profiles,
  which is what overlaps; 2 generations. Two qualities and 1 rollback are in the profiles where a
  property tells them apart (`Bound`). A rollback that overlaps a job is in no run; what
  holds of it nevertheless, `DispatchedOnce` and `ServedForAReason`, is proved.
* `booking`: 2 rows, 2 requests, 1 key, 3 wanted appointments: two that touch, and one that
  clashes only by its buffer and by being anybody's; `Few`, one of them, where the lock may not last.
* `ledger` uses symmetry on requests; its temporal properties are of the form `Init /\ [][A]_v`.
  The other runs use none.
* `CHECK_DEADLOCK FALSE`: the instances stop when every request, pack, period
  and event of the small sets has been used; the program does not.

### Fairness

* `FairSpecChat`: weak fairness of every execution's step (the event loop runs
  it; a provider or tool answers or times out), of ageing (the clock), and of a
  `LaterOperation`. The last is an assumption about use: nothing in production
  calls `release_stale_reservations` on a timer, so a reservation a crash left
  behind ends only when the company uses its account again, if only by
  `GET /ai-credits` (`routers/billing.py:552-563`).
* `FairSpecPurchases`: weak fairness of deliveries and strong fairness of
  `Apply`: Stripe repeats an event until it is answered 200, and a
  handler that could commit is not interrupted every time. `LiveSpec` of
  BillingAccount is the same, with weak fairness of each request that has begun and of a
  conflicting commit's failure.
* `FairSpec` of Gateway: weak fairness of each call's own steps and of a
  provider's answer or timeout. *Not* of `CooldownElapses`: `CallsEnd` holds even if
  a circuit stays open for ever. Nor of `Cancel`.
* `FairSpec` of CommerceSync: weak fairness of each runner's steps (the provider
  answers or times out), of webhook tasks, of time, and of the cron
  (`reconcile_active`). Not of
  users, of deliveries or of the provider's changes.
* `LiveSpec` of Training: weak fairness of dispatches, of each job's process, and of the
  second halves of a deletion and a rollback. A process is started with `Popen` and nothing
  watches it (`training_subprocess.py:86`), so fairness is only of one that goes on: `Stop` puts a
  job in a place where it has no step, and nothing recovers it, nor a job never enqueued.
* `LiveSpec` of CalendarBooking: weak fairness of a request's steps (Google
  answers or times out; PostgreSQL hands the lock on in turn), strong fairness of the import's, which
  competes for the lock.

A liveness property has the form `[]<>(exempt \/ P)`, where `exempt` names a
constant profile or a state the code never leaves, listed below.

### Findings

1. **Lost update on a purchase lot** (`billing_service.py:568`). The refund
   handler reads the purchase row before the credit lock and never refreshes it. A
   settlement that commits in between is overwritten: `credits_remaining` is
   restored from the copy, and the lots no longer sum to the balance. The
   integrity report says the ledger "is immune to concurrent race conditions,
   duplicate billing, and lost updates" (`phase_8_2_ai_credit_integrity.md:88`).
   What the pack is worth in the balance survives (`PackAccounted`, `RefundsHandled`), and
   so does what live requests hold (`PurchasesImplementWallet`, section 4): the damage is in the lots.
2. **Cost of a cancelled stream** (`chat_service.py:761`). When the client leaves
   after a tool turn, the orchestrator's cancelled result carries the turn's
   attempts; `stream` breaks before copying them and releases the reservation
   with reason `cancelled_without_metered_cost` (818), uncharged. `send` in the
   same place settles them (`ChargedAsMetered`).
3. **An update made during a run is never fetched** (`commerce_sync_service.py:806`).
   The next incremental run asks for what changed since the *completion* of the last; the
   start, which the run stores as its checkpoint (380), is read by nothing. A change made
   after its page was read is older than the completion: the incremental sync that its
   webhook schedules (`docs/connectors/woocommerce.md:69`) does not fetch it, nor does any later one.
4. **A refreshed token frees the booking lock** (`crm_availability_service.py:150`).
   `pg_advisory_xact_lock` ends with the transaction, and `_external_busy` commits a
   refreshed token between the test and the insertion: a second request takes
   the lock, finds the slot free and books it too. `crm_service.py:695` says "Serialize
   tenant appointment changes across Postgres app workers."

### What the conditions stand for

Behaviours in which a property of section 3 does not hold, or which it leaves out; each
property excludes them by name, and TLC finds them when the condition is removed.

* *Chat.* After an expiry or a failed execution the same idempotency key always
  conflicts, so a client must retry with a new one; a crash between `Pay` and
  `Persist` charges an answer that is never stored.
* *Gateway.* Retries of a call go on although its failures have opened the
  circuit, and after the cooldown every waiting call probes at once, not one. A
  cancelled or unpriced stream reports no attempts, and no call reports the attempt that was
  interrupted at the provider, or whose usage or price was refused.
* *Billing.* `create_checkout` asks Stripe for an active subscription (`billing_service.py:107`)
  and opens a session (131) in two calls, and leaves the sessions opened before payable: one paid
  between the calls, or after the new one was opened and beside it, gives a second subscription that
  charges (`"old session"`, excluded by `OneSubscription`). The lock of line 85 is on a row that
  Stripe does not read. Events out of order restore an old status or plan and may move
  `monthly_period` back, since no handler tests an event's age. What a request heard from Stripe
  overwrites what a handler committed meanwhile (`"overtaken"`): a backfill, which waits for
  Stripe's taxes between its listing and its commit, makes a paid invoice open again, and the portal
  an ended subscription active, until Stripe speaks of it again. Two requests at the portal create two customers,
  and the first's events are refused for ever. The paid-invoice e-mail is sent
  before the commit, and again after a commit that failed.
* *Commerce.* The receipts of a failed run end in ERROR, which neither drain nor cron
  reads again (only the same delivery, repeated by its sender, does). WooCommerce's pages of a list ordered by
  date of modification are asked for by number (`woocommerce.py:376`): when a record already read is
  changed or deleted during the run, those behind it move up by one, the first of the next page into
  the page already read. No request returns it, and later runs ask for what was modified after this
  one's completion; so `CursorCoversPages` speaks of runs during which nothing changes. A run resumed after a failure or a crash forgets that the one before
  changed records, so the dataset may stay behind the records. A run taken over
  may store a page with a record whose deletion was handled meanwhile. A store
  disconnected during a run may end READY, without credentials.
* *Training.* `reconcile_lifecycle_states` lists, loads and saves the records one by one without a
  lock (`versioning/lifecycle.py:25`), in processes that may overlap: a job that listed before another
  wrote its record does not archive it, and one that saves a copy it loaded before brings the old
  state back, so two records say production. With jobs overlapping, a retraining is compared with a model no longer served;
  a rollback during a completion gives two active rows; a deletion during a
  training leaves its artifacts. A save that fails leaves a directory without a
  record and ACTIVE naming a version whose job failed; a failed or interrupted `record_version`
  leaves the job completed and its row active, with the records, or the file, as they
  were, and nothing repairs them. A job lost between commit and enqueue, or whose process stops
  or hangs, blocks its dataset, and so does one whose completion updates a deleted row.
* *Booking.* An update of a status or an end alone is not tested (`Amend`). One that
  names `status="cancelled"` beside a start leaves the cancelled appointment its event, moved, at
  Google: only the cancel endpoint removes it. A
  cancellation that fails after a refresh is already committed. Events deleted at Google are
  never removed by the import, which does not list them. A healed connection
  ends the lock as a refreshed token does.

## 4. What is proved

For **every** value of the constants that satisfies the named assumptions
(`LedgerAssumption`: finitely many requests, any number of lots, positive packs,
natural or absent limits, a positive bound on credits; `PurchaseAssumption`: a pack has
credits and a price; `ChatAssumption`: kinds are
`send` and `stream`, at least one turn, `NoRequest` is no request;
`GatewayAssumption`: finitely many providers, a positive threshold;
`BillingAssumption`: at least one subscription, session, period and event;
`SyncAssumption`: at least a page and a date, and a receipt has one topic;
`NoRunAssumption`: no run is `NoRun`; `TrainingAssumption`: at least a job and a
generation; `ServicesAssumption` and `WantedAssumption`: buffers are
naturals and have a longest, an absent service has none, an appointment starts before
it ends; `BookingAssumption`: ids are positive; the profiles are sets of the
disturbances a module names):

* **CreditLedger_proofs**: laws of the sums in CreditMath (`TotalSplit`,
  `TotalUpdate`, `TotalExchange`, ..., lemmas), and that `OldestFirst` takes, in total, the
  lesser of the need and what there is; then `Spec => []IInv`, hence `TypeOK`, `HoldsMatchReservations`,
  `LotsMatchBalance`, `CreditsCovered`, `PurchasedCreditsAccounted`,
  `LedgerExplainsBalance`; `Spec => ChargedOnce`; and the refinement, `Spec => ImplementsWallet`.
* **CreditPurchases_proofs**: `RefundsHandled`, `PackAccounted` and `RefundedCreditsGone`, for
  any price and size of the pack and any number of lots, requests and events;
  `ChecksNeverBite`: without operations inside a handler the same system with *no* CHECK
  constraint has the same behaviours, so none of its commits is ever rolled back by one; and,
  with operations inside a handler too, `SpecPurchases => ImplementsWallet` and
  `SpecPurchases => ChargedOnce`.
* **ChatRequests_proofs**: `HeldWhileRunning`, `EndedHoldsNothing`,
  `OneExecutionPerRequest`, `ChargedAsMetered`, `AnswersArePaid`, and, by the ledger's own
  lemmas, `HoldsMatchReservations` under the chat's use of the account.
* **Gateway_proofs**: `OneVoice`, `AttemptsReported` and `OpensAfterStreak`, for any number
  of calls, candidates and retries and any threshold.
* **BillingAccount_proofs**: `PaidInvoiceOnce`, `OneSubscription` and
  `AccountMatchesStripe`, for any number of plans, requests, handlers, subscriptions,
  sessions, periods and events, and any interleaving of the requests' steps with Stripe's and,
  but for what the property excepts, the handlers'.
* **CommerceSync_proofs**: `CursorCoversPages`, `NoStaleOverwrite`,
  `OneRunAtATime`, `SnapshotMatchesStore` and `TombstonesLand`, for any number of
  runners, pages, receipts and crashes.
* **Training_proofs**: `DispatchedOnce`, `OneModelServes`, `DeletedDataGone` and
  `ServedForAReason`, for any number of datasets, dispatchers, jobs and rollbacks, each file
  of the registry written in a step of its own.
* **CalendarBooking_proofs**: `Spec => ImplementsAgenda`, `FailedChangesNothing` and
  `CalendarAgrees`, for any number of requests, ids and keys and any working hours. Of Agenda
  itself: it never clashes (`AgendaNeverClashes`). Together:
  no two confirmed appointments exclude each other, with answers and processes lost, while every
  change is tested and the lock lasts (`NeverDoubleBooked`), and `check_conflict` finds exactly the
  clashes (`ChecksAreExact`).

Every theorem about a profile is about *all* profiles: where a property names the
disturbances it excepts, so do the invariants behind it, conjunct by conjunct, and the rest of
each holds in every behaviour.

The arguments:

* *Ledger.* The invariants are not inductive alone. A release subtracts a hold
  from a counter, and only because the counter is the *sum* over live holds
  does `max(a - b, 0)` never truncate; lots follow only if an allocation sums to
  its hold (`AllocationsMatchHold`); a grant overwrites a lot's
  columns, which is right only if the lot was empty (`UngrantedLotsEmpty`); and a
  settlement overwrites `settled_purchased`, which is right only if it was zero
  (`NotYetSettled`). `Books` is the conjunction; `IInv` adds `PurchasedCreditsAccounted`, which
  is this module's alone. Each operation starts with the
  expiry of a set X, so lemma `Expiry` states once what remains, and each
  operation's lemma works from there. The refinement needs less (`Counters`): that a claim leaves what
  others hold covered is the wallet's guard, and in the code it follows from the counters being exact.
* *Purchases.* `HookInv` holds in every behaviour. Of the copy it says that the columns *only a
  handler* writes (status, granted, reversed, shortfall, refunded) are the row's, and the other two
  only without overlap (`CopyIsRow`); of Stripe, that what was sent tells the payment and all of it
  (`EventsTell`); of the rows, what was processed (`RowsRight`): the status is that of the last
  word on the payment, in whatever order the words came, and what was reversed or flagged
  is `TargetReversal` of the largest refund. A refund takes the difference to what was taken before, so it needs
  that `TargetReversal` grows with the amount and ends at the whole pack
  (`TargetGrows`, `TargetOfPrice`), for every price. `PackAccounted` adds the sum over granted lots
  (`PacksBalance`): a grant withholds what a refund took before it, so both orders give one
  pack. Without overlap the copy is the whole row, the handlers are the ledger's operations, and the
  ledger's lemmas give `Books` and, with `PacksWorth`, `RefundedCreditsGone`. `Books` alone implies every
  constraint, hence `ChecksNeverBite`. With overlap `Books` fails (finding 1), but `Counters`
  does not: it speaks of no lot, and the CHECK on the balance keeps the holds covered. It is all
  that the wallet needs, so a stale copy of a lot never reaches what other requests hold.
* *Chat.* `ChatInv`: the invariants of executions become inductive with *ownership*: at most one
  execution owns a request id (it called `ClaimCreditReservation`, which
  requires that no row exist, and rows are never deleted); only an owner
  calls the provider; and no reservation an execution holds is old, since
  the TTL (a day) exceeds any execution. With that, expiry by others never hits
  a held reservation. Charging needs more (`PaidInv`): only an owner has been
  metered, what it knows is what was metered, and a request whose owner still holds has been
  charged nothing, so that the settlement charges all of it. A plan
  without a limit charges nothing, so there only the inequality holds.
* *Gateway.* `AttemptsReported` compares what the caller learns with the attempts `made`, so
  it needs `AllRecorded`: between two attempts none is missing from the list. `OneVoice` needs `TextOfOneAttempt`: text comes from the attempt in
  progress, and a call that may still retry or fail over has received none, which is the
  `emitted` test of `stream_events`. `OpensAfterStreak` needs that the shared count
  never exceeds the true streak (`BreakerInv`): every success and every closing of a cooled circuit resets it.
* *Billing.* Every step is first shown to be of one of a few kinds: Stripe changes a subscription
  and says so (`Told`), or says of an invoice what it said (`Repeated`); a user asks, links,
  opens, creates or lists; a handler begins, commits or fails. `HistoryInv` is about time: what is said to be paid
  after a later period was said to be paid before it, too (`LogInv`); in order one handler works,
  on the event after those processed (`OrderInv`); hence a period renewed now is later than the balance's.
  `OwnerInv` is about who pays: while users do not overlap there is one customer, whose are all sessions and events,
  and while the last session is open nothing entitles the company yet. `MatchInv` is about the
  account: what was said last of a subscription *is* the one at Stripe (`RemoteInv`), the account
  has it once it was processed, and until then a column may differ from the handler's copy
  only by being ahead (`AccountInv`; `InvoiceInv` is the same of each invoice). What a request has
  yet to write needs the same (`HeldInv`): it is what the row holds, or what an event not yet
  processed says, because no handler commits while a request holds it. That is why a commit that writes only
  the columns it found different loses nothing although a checkout, a cancellation
  or a listing came between: what they write is what Stripe said last, or will be
  overwritten by it (lemma `Blocks` says which events are still to come).
* *Commerce.* `CoverInv`: the row's cursor covers what it passed over (where pages are numbered,
  as long as nothing changes after the run's start, `Keeps`), *and so does each
  runner's own copy*, taken over or not, since either may become the row's; and a page
  received but not stored (`PagesAreCurrent`) is the provider's current content for its
  window. That is why a runner whose place was taken does no harm to the cursor: what it
  writes is older, but true of its window. `NoStaleOverwrite` follows from
  the comparison in `_upsert_records`. `LockInv` adds to `OneRunAtATime` that while a run
  holds, the row says so, and that only a blocked row says otherwise. `SnapInv`: records that
  differ from the dataset were stored by a run that will hand them on, which is why a
  failure or a crash, after which the next run forgets it, is excepted. `LandInv`: while heartbeats are in time the run in progress is the row's, and
  either the deleted record is gone from the records and from every page still to be stored, or the
  run that holds the deletion has yet to apply it; a deleted record still in the
  dataset keeps the run's `pending` set.
* *Training.* One live job per dataset is the unique index (`LiveInv`); that a generation
  trains once needs that what a dispatcher found when it looked for a duplicate holds
  until it inserts (`TrainedInv`). `OrderInv` is the order in which a version's files, its row and the
  ACTIVE file come and go: one of a running job, a rollback and a deletion at a time (`Exclusive`), a
  version's row and files belong to a job that runs or is recorded (`Kept`), and, but
  while one of them is being carried out, the active row is the one the file names (`Named`) and the
  record that says production is its record (`Produced`). The last is the argument about
  a sweep, which changes one record at a time: a record that its writer has neither still to load nor to
  save already has the state the writer gives it; so when nothing is left, the one it promotes is
  the only one. It needs that nobody else is sweeping (`OneWriter`) and that a writer leaves nothing
  behind (`SweepInv`).
* *Booking.* `IInv` has no more than: who works holds the lock, alone; its copy of the row is
  the row; and what it will write clashes with no live row (`Fits`). Every step is of
  one of four kinds (lemmas `AskStarts`, `ProceedGoesOn`), of which only a write
  changes the rows, and a write is a step of Agenda or a stutter (`WriteIsAgendaStep`).
  The test misses nothing because the query's margins are the longest buffers (`Longest`, `NoConflictNoClash`).
  `CalendarAgrees` needs *claims*, in every behaviour: a row, and a request that read the row before it lost the
  lock, claim the row's event, and no two rows have a claim to one (`EventInv`). In a calm behaviour
  an event is that of an appointment, at its time, and of a confirmed one unless updates name a status (`Shown`). `FailedChangesNothing`
  needs that while the lock lasts the row is what the request found (`FoundStays`).

**Only model-checked**: the findings, which are violations, and all
liveness (`HoldsEnd`, `EveryEventProcessed`, `CallsEnd`, `EventsHandled`, `ReceiptsTakenUp`, `JobsEnd`,
`RequestsEnd`), since fairness and `ENABLED` are beyond the prover. `ChecksNeverBite` is the safety
half of `EveryEventProcessed`: no event is stuck because of what its own handler writes. Every invariant and
every action property that a passing run checks is a theorem.

## 5. The plan

Done: everything in section 2. Next, in order:

1. **VoiceTurns, SpeechUsage** over ChatRequests and CreditLedger: a turn whose
   reservation several usage events and a nested chat request settle; the journal after the
   settlement; late events. Runs: 2 turns, 3 events, crash. Properties: a turn is
   charged once, a turn's cost is charged or reported.
2. **AuthSessions**: refresh token rotation under concurrent refreshes; two handlers.
3. **Voice provisioning** over BillingAccount: order, payment, number and suspension
   at two providers.

## 6. What is not modelled, and why

* The components of section 5 that are still to come; the clients of the credit
  account (media, support chat, ads, agents), whose claims and settlements CreditLedger
  already has; contracts, sequential under a row lock.
* `record_usage`/`_consume_credits` of the ledger: no caller in the application.
  The usage counters of `TenantAIUsage` and analytics decide nothing. A restore is run only by
  an administrator's script, and is modelled.
* The inside of a step that no other actor can see: parsing, normalisation,
  prompts, prices, taxes, time zones and notifications.
* Of the modelled components, what each note in `PROJECT.json` lists: the router's
  score and health registry, the OAuth set-up of connections, the signals and drift reports of the
  retraining policy, the search for free slots.
* Two companies: nothing in the models relates two.
* What PostgreSQL provides (locks, unique keys, atomic commits) and what Stripe, the
  stores, the AI providers and Google do is assumed, as the code uses it (external definitions).
* Numerical learning, request parsing, user interfaces, migrations: no protocol
  to check. Row level security is the database's.
