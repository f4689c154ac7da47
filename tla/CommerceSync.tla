---------------------------- MODULE CommerceSync ----------------------------
(***************************************************************************)
(* The synchronisation of one store: CommerceSyncService                   *)
(* (backend/app/services/commerce_sync_service.py) under                   *)
(* CommerceSyncRunner (commerce_sync_runner.py), with the disconnection of *)
(* CommerceConnectionService.                                              *)
(*                                                                         *)
(* A runner is one background task.  It reserves the connection row, reads *)
(* the provider page by page, and commits after each page what it stored   *)
(* and its own copy of the cursor.  Runners, webhooks, the cron, the user  *)
(* and the provider's changes interleave at the awaits; a run fails or the *)
(* process crashes anywhere, and a run whose heartbeat is late is taken    *)
(* over while it is still awaiting a page.                                 *)
(*                                                                         *)
(* The provider's clock dates changes, and a record's content is the date  *)
(* of its last change.  There is one entity, and a page holds one record   *)
(* of the list the provider orders by date of change.                      *)
(***************************************************************************)
EXTENDS Naturals, FiniteSets

CONSTANTS
  Runners,    \* background tasks
  NumRecords, \* records the provider has
  Hooks,      \* webhook receipts
  Deletes,    \* those that announce the deletion of record 1
  Uninstalls, \* those that announce app/uninstalled, if the profile has it
  MaxClock,   \* bound on the provider's clock
  MaxCrashes, \* bound on crashes
  Profiles,   \* the values of profile a behaviour starts with
  NoRun,      \* a cursor without a run
  NoHook      \* a run no webhook started

ASSUME SyncAssumption ==
  /\ NumRecords \in Nat \ {0} /\ MaxClock \in Nat \ {0} /\ MaxCrashes \in Nat
  /\ Deletes \subseteq Hooks /\ Uninstalls \subseteq Hooks /\ Deletes \cap Uninstalls = {}
  /\ Profiles \subseteq SUBSET {"failure", "late", "crash", "user", "disconnect",
                               "webhook", "uninstall", "numbered"}
  /\ NoHook \notin Hooks

Records == 1..NumRecords
Nothing == 0      \* no content: an empty page, a record not stored

VARIABLES
  clock,     \* the provider's clock
  updated,   \* when the provider last changed a record
  gone,      \* records the provider deleted
  conn,      \* the CommerceConnection row
  store,     \* the NormalizedCommerceRecord rows
  dataset,   \* the retail dataset: the content of each record in it
  receipts,  \* the status of each CommerceWebhookReceipt
  announced, \* the content of record 1 when a receipt was delivered
  tasks,     \* run_webhook tasks not started
  pc,        \* where a runner stands
  run,       \* its copy of the run's state
  local,     \* its variables: page received, changed, receipts to mark
  crashes,
  profile    \* what may happen in this behaviour, beside runs and the cron

provider == <<clock, updated, gone>>
hooks    == <<receipts, announced, tasks>>
runner   == <<pc, run, local>>
context  == <<crashes, profile>>
vars     == <<provider, conn, store, dataset, hooks, runner, context>>

EmptyPage == [record |-> 0, content |-> Nothing, last |-> TRUE]
NewLocal == [page |-> EmptyPage, changed |-> FALSE, first |-> NoHook, mine |-> {}]

Init ==
  /\ clock = 1
  /\ updated = [p \in Records |-> 1]
  /\ gone = {}
  /\ conn = [status |-> "CONNECTED", credentials |-> TRUE, recent |-> FALSE, young |-> FALSE,
             cursor |-> NoRun, success |-> 0]
  /\ store = [p \in Records |-> [content |-> Nothing, deleted |-> FALSE]]
  /\ dataset = [p \in Records |-> Nothing]
  /\ receipts = [w \in Hooks |-> "none"]
  /\ announced = [w \in Hooks |-> Nothing]
  /\ tasks = {}
  /\ pc = [x \in Runners |-> "idle"]
  /\ run = [x \in Runners |-> NoRun]
  /\ local = [x \in Runners |-> NewLocal]
  /\ crashes = 0
  /\ profile \in Profiles

Working == {x \in Runners : pc[x] # "idle"}

-----------------------------------------------------------------------------
(* The provider.                                                           *)

Tick ==
  /\ clock < MaxClock
  /\ clock' = clock + 1
  /\ UNCHANGED <<updated, gone, conn, store, dataset, hooks, runner, context>>

ProviderChanges(p) ==
  /\ clock < MaxClock /\ p \notin gone
  /\ clock' = clock + 1
  /\ updated' = [updated EXCEPT ![p] = clock']
  /\ UNCHANGED <<gone, conn, store, dataset, hooks, runner, context>>

ProviderDeletes ==
  /\ Deletes # {} /\ "webhook" \in profile
  /\ gone' = {1}
  /\ gone' # gone
  /\ UNCHANGED <<clock, updated, conn, store, dataset, hooks, runner, context>>

-----------------------------------------------------------------------------
(* The connection row.                                                     *)

Blocked == conn.status \in {"DISCONNECTED", "REAUTH_REQUIRED"}

ActiveWhileSyncing == conn.status = "SYNCING" /\ conn.recent   \* mutant
IsActive == conn.status \in {"SYNCING", "PROCESSING"} /\ conn.recent

NewRun == [started |-> clock, since |-> conn.success, read |-> 0,
           after |-> [record |-> 0, date |-> 0], done |-> FALSE, pending |-> FALSE]

ResumeWithNewWindow ==   \* mutant
  IF conn.cursor = NoRun THEN NewRun
  ELSE [conn.cursor EXCEPT !.started = clock, !.since = conn.success]
CurrentRun == IF conn.cursor = NoRun THEN NewRun ELSE conn.cursor

(* _begin_or_resume: a resumed run's heartbeat is set to its old start.     *)
BeginOrResume ==
  LET young == conn.cursor = NoRun \/ conn.young IN
  conn' = [conn EXCEPT !.status = "SYNCING", !.cursor = CurrentRun,
             !.young = young, !.recent = young \/ "late" \notin profile]

(* Three minutes since the last heartbeat, or since the run's start.        *)
HeartbeatAges ==
  /\ "late" \in profile \/ Working = {}
  /\ \/ conn.recent /\ conn' = [conn EXCEPT !.recent = FALSE, !.young = FALSE]
     \/ conn.young /\ conn' = [conn EXCEPT !.young = FALSE]
  /\ UNCHANGED <<provider, store, dataset, hooks, runner, context>>

Disconnected == [conn EXCEPT !.status = "DISCONNECTED", !.credentials = FALSE]

UserDisconnects ==
  /\ "disconnect" \in profile /\ conn.credentials
  /\ conn' = Disconnected
  /\ UNCHANGED <<provider, store, dataset, hooks, runner, context>>

-----------------------------------------------------------------------------
(* One event loop runs the cron, the webhooks and the runners: from the last *)
(* page to the end of the drain a runner awaits nothing.                    *)
OnLoop == {"complete", "materialising", "drain"}
LoopFree == \A x \in Runners : pc[x] \notin OnLoop

Uninstalling == {w \in Uninstalls : "uninstall" \in profile}

(* Webhooks: accept_shopify_webhook and accept_woocommerce_webhook record   *)
(* the receipt and start a task; a duplicate starts one after an error.     *)

NewReceipt(w) ==
  /\ receipts[w] = "none"
  /\ receipts' = [receipts EXCEPT ![w] = "RECEIVED"]
  /\ announced' = [announced EXCEPT ![w] = updated[1]]

RepeatedDelivery(w) ==
  /\ receipts[w] = "ERROR"
  /\ UNCHANGED <<receipts, announced>>

Deliver(w) ==
  /\ LoopFree
  /\ "webhook" \in profile \/ w \in Uninstalling
  /\ w \in Deletes => 1 \in gone
  /\ conn.status # "DISCONNECTED"
  /\ NewReceipt(w) \/ RepeatedDelivery(w)
  /\ tasks' = tasks \cup {w}
  /\ UNCHANGED <<provider, conn, store, dataset, runner, context>>

Mark(ws, s) == receipts' = [w \in Hooks |-> IF w \in ws THEN s ELSE receipts[w]]

Goto(x, place) == pc' = [pc EXCEPT ![x] = place]

(* A runner with work to do for some receipts: the row is reserved.         *)
Reserve(x, first, mine) ==
  /\ ~Blocked /\ ~IsActive
  /\ BeginOrResume
  /\ Mark(mine, "PROCESSING")
  /\ local' = [local EXCEPT ![x] = [NewLocal EXCEPT !.first = first, !.mine = mine]]
  /\ Goto(x, "reserved")

(* run_webhook.                                                             *)
WebhookLeft(w) ==
  /\ receipts[w] = "PROCESSED" \/ IsActive
  /\ UNCHANGED <<conn, receipts, runner>>

WebhookUninstalls(w) ==
  /\ receipts[w] # "PROCESSED" /\ ~IsActive /\ w \in Uninstalling
  /\ conn' = Disconnected
  /\ Mark({w}, "PROCESSED")
  /\ UNCHANGED runner

WebhookRefused(w) ==
  /\ receipts[w] # "PROCESSED" /\ ~IsActive /\ w \notin Uninstalling
  /\ Blocked
  /\ Mark({w}, "ERROR")
  /\ UNCHANGED <<conn, runner>>

WebhookReserves(x, w) ==
  /\ receipts[w] # "PROCESSED" /\ w \notin Uninstalling
  /\ Reserve(x, w, {w})
  /\ UNCHANGED run

RunWebhook(x, w) ==
  /\ LoopFree
  /\ pc[x] = "idle" /\ w \in tasks
  /\ tasks' = tasks \ {w}
  /\ WebhookLeft(w) \/ WebhookUninstalls(w) \/ WebhookRefused(w) \/ WebhookReserves(x, w)
  /\ UNCHANGED <<provider, store, dataset, announced, context>>

(* synchronize_connection, the endpoint, and its task run_reserved.         *)
SyncNow(x) ==
  /\ "user" \in profile /\ pc[x] = "idle"
  /\ Reserve(x, NoHook, {})
  /\ UNCHANGED <<provider, store, dataset, announced, tasks, run, context>>

(* reconcile_active, the cron; a FAILED connection is none of its candidates. *)
Reconcile(x) ==
  /\ LoopFree
  /\ pc[x] = "idle"
  /\ conn.credentials
  /\ conn.status \in {"CONNECTED", "SYNCING", "PROCESSING", "READY"}
  /\ Reserve(x, NoHook, {})
  /\ UNCHANGED <<provider, store, dataset, announced, tasks, run, context>>

-----------------------------------------------------------------------------
(* synchronize.                                                            *)

Begin(x) ==
  /\ pc[x] = "reserved" /\ ~Blocked
  /\ BeginOrResume
  /\ run' = [run EXCEPT ![x] = CurrentRun]
  /\ Goto(x, "connecting")
  /\ UNCHANGED <<provider, store, dataset, hooks, local, context>>

(* sync_context.                                                            *)
Connect(x) ==
  /\ pc[x] = "connecting"
  /\ ~Blocked /\ conn.credentials
  /\ Goto(x, IF run[x].done THEN "complete" ELSE "fetching")
  /\ UNCHANGED <<provider, conn, store, dataset, hooks, run, local, context>>

(* The provider lists what changed since the run's updated_since, by date.  *)
Listed(c) == {p \in Records \ gone : updated[p] >= c.since}
Ahead(q, p) == updated[q] < updated[p] \/ (updated[q] = updated[p] /\ q < p)

(* WooCommerce numbers the pages of the list as it is at each request: the  *)
(* cursor is how many were read.  Shopify's says which record was read last. *)
Numbered == "numbered" \in profile
IsAfter(c, p) ==
  IF Numbered THEN Cardinality({q \in Listed(c) : Ahead(q, p)}) >= c.read
  ELSE \/ c.after.date < updated[p]
       \/ c.after.date = updated[p] /\ c.after.record < p
Rest(c) == {p \in Listed(c) : IsAfter(c, p)}

Page(p, c) == [record |-> p, content |-> updated[p], last |-> Rest(c) = {p}]
First(c) == {p \in Rest(c) : \A q \in Rest(c) \ {p} : Ahead(p, q)}
Answers(c) == IF Rest(c) = {} THEN {EmptyPage} ELSE {Page(p, c) : p \in First(c)}

Fetch(x) ==
  /\ pc[x] = "fetching"
  /\ \E page \in Answers(run[x]) : local' = [local EXCEPT ![x].page = page]
  /\ Goto(x, "arrived")
  /\ UNCHANGED <<provider, conn, store, dataset, hooks, run, context>>

OtherContent(p, content) ==   \* mutant
  content # Nothing /\ [content |-> content, deleted |-> FALSE] # store[p]
(* _upsert_records skips a record older than the stored one or equal to it. *)
Newer(p, content) ==
  /\ content # Nothing /\ content >= store[p].content
  /\ [content |-> content, deleted |-> FALSE] # store[p]

(* The page's cursor; after the last page, the entity is completed.         *)
Advanced(c, page) ==
  [c EXCEPT !.read = IF Numbered THEN @ + 1 ELSE @,
            !.after = IF Numbered THEN @ ELSE [record |-> page.record, date |-> page.content],
            !.done = page.last]

(* _upsert_records, then the cursor and the heartbeat, in one commit.       *)
StorePage(x) ==
  /\ pc[x] = "arrived"
  /\ LET page  == local[x].page
         newer == Newer(page.record, page.content)
         state == Advanced(run[x], page)
     IN
     /\ store' = IF newer
                 THEN [store EXCEPT ![page.record] = [content |-> page.content, deleted |-> FALSE]]
                 ELSE store
     /\ local' = [local EXCEPT ![x].page = EmptyPage, ![x].changed = @ \/ newer]
     /\ run' = [run EXCEPT ![x] = state]
     /\ conn' = [conn EXCEPT !.cursor = state, !.recent = TRUE,
                   !.young = @ /\ conn.cursor = run[x]]
     /\ Goto(x, IF page.last THEN "complete" ELSE "fetching")
  /\ UNCHANGED <<provider, dataset, hooks, context>>

TombstonesOfReceived == {w \in Deletes : receipts[w] = "RECEIVED"}   \* mutant
PendingTombstones == {w \in Deletes : receipts[w] \in {"RECEIVED", "PROCESSING"}}

(* _apply_pending_tombstones, and the commit as PROCESSING.                 *)
Tombstoned ==
  IF PendingTombstones # {} /\ store[1].content # Nothing
  THEN [store EXCEPT ![1].deleted = TRUE]
  ELSE store

MaterializePages(x) == local[x].changed \/ run[x].pending   \* mutant
ShouldMaterialize(x) ==
  \/ local[x].changed \/ Tombstoned # store
  \/ \A p \in Records : dataset[p] = Nothing
  \/ run[x].pending

Process(x) ==
  /\ pc[x] = "complete"
  /\ store' = Tombstoned
  /\ LET state == [run[x] EXCEPT !.pending = @ \/ ShouldMaterialize(x)] IN
     /\ run' = [run EXCEPT ![x] = state]
     /\ conn' = [conn EXCEPT !.status = "PROCESSING", !.recent = TRUE,
                   !.cursor = IF state.pending THEN state ELSE @]
  /\ Goto(x, "materialising")
  /\ UNCHANGED <<provider, dataset, hooks, local, context>>

Live == [p \in Records |-> IF store[p].deleted THEN Nothing ELSE store[p].content]

Materialized(x) == IF run[x].pending THEN Live ELSE dataset

(* The snapshot, the commit as READY, and the receipts of the run.          *)
Finish(x) ==
  /\ pc[x] = "materialising"
  /\ dataset' = Materialized(x)
  /\ conn' = [conn EXCEPT !.status = "READY", !.recent = TRUE, !.cursor = NoRun,
                !.success = clock]
  /\ Mark(local[x].mine, "PROCESSED")
  /\ local' = [local EXCEPT ![x].changed = FALSE, ![x].mine = {}]
  /\ run' = [run EXCEPT ![x] = NoRun]
  /\ Goto(x, "drain")
  /\ UNCHANGED <<provider, store, announced, tasks, context>>

End(x) ==
  /\ Goto(x, "idle")
  /\ run' = [run EXCEPT ![x] = NoRun]
  /\ local' = [local EXCEPT ![x] = NewLocal]

ErrorReceipts(x) == Mark(local[x].mine \cup ({local[x].first} \ {NoHook}), "ERROR")

(* synchronize refuses a connection blocked since its reservation.          *)
BeginRefused(x) ==
  /\ pc[x] = "reserved" /\ Blocked
  /\ ErrorReceipts(x)
  /\ End(x)
  /\ UNCHANGED <<provider, conn, store, dataset, announced, tasks, context>>

(* except Exception: what is not committed is lost, the status is written   *)
(* whatever it is, the receipts of the run end in ERROR.                    *)
Fail(x) ==
  /\ \/ "failure" \in profile /\ pc[x] \in {"connecting", "fetching", "arrived", "materialising"}
     \/ pc[x] = "connecting" /\ (Blocked \/ ~conn.credentials)
  /\ \E s \in {"FAILED", "REAUTH_REQUIRED"} :
       conn' = [conn EXCEPT !.status = s, !.recent = TRUE]
  /\ ErrorReceipts(x)
  /\ End(x)
  /\ UNCHANGED <<provider, store, dataset, announced, tasks, context>>

-----------------------------------------------------------------------------
(* _drain_pending_webhooks, after a run that succeeded.                     *)

WaitingForRetry == {w \in Hooks : receipts[w] = "ERROR"}   \* mutant
Waiting == {w \in Hooks : receipts[w] = "RECEIVED"}

DrainNothing(x) ==
  /\ Waiting = {}
  /\ End(x)
  /\ UNCHANGED <<conn, receipts>>

DrainUninstall(x) ==
  /\ Waiting \cap Uninstalling # {}
  /\ conn' = Disconnected
  /\ Mark(Waiting, "PROCESSED")
  /\ End(x)

DrainReserve(x) ==
  /\ Waiting # {} /\ Waiting \cap Uninstalling = {}
  /\ Reserve(x, local[x].first, Waiting)
  /\ UNCHANGED run

(* The receipt that started the task is set back, or to ERROR, although its *)
(* own run has succeeded.                                                   *)
DrainRefused(x) ==
  /\ Waiting # {} /\ Waiting \cap Uninstalling = {}
  /\ \/ Blocked /\ ErrorReceipts(x)
     \/ ~Blocked /\ IsActive /\ Mark({local[x].first} \ {NoHook}, "RECEIVED")
  /\ End(x)
  /\ UNCHANGED conn

Drain(x) ==
  /\ pc[x] = "drain"
  /\ DrainNothing(x) \/ DrainUninstall(x) \/ DrainReserve(x) \/ DrainRefused(x)
  /\ UNCHANGED <<provider, store, dataset, announced, tasks, context>>

-----------------------------------------------------------------------------
Crash ==
  /\ "crash" \in profile /\ crashes < MaxCrashes
  /\ crashes' = crashes + 1
  /\ pc' = [x \in Runners |-> "idle"]
  /\ run' = [x \in Runners |-> NoRun]
  /\ local' = [x \in Runners |-> NewLocal]
  /\ tasks' = {}
  /\ UNCHANGED <<provider, conn, store, dataset, receipts, announced, profile>>

Turn(x) == LoopFree \/ pc[x] \in OnLoop

Step(x) ==
  /\ Turn(x)
  /\ \/ Begin(x) \/ BeginRefused(x) \/ Connect(x) \/ Fetch(x) \/ StorePage(x)
     \/ Process(x) \/ Finish(x) \/ Drain(x)

Next ==
  \/ Tick \/ ProviderDeletes \/ \E p \in Records : ProviderChanges(p)
  \/ \E w \in Hooks : Deliver(w)
  \/ UserDisconnects \/ HeartbeatAges \/ Crash
  \/ \E x \in Runners :
       \/ Step(x) \/ (Turn(x) /\ Fail(x)) \/ SyncNow(x) \/ Reconcile(x)
       \/ \E w \in Hooks : RunWebhook(x, w)

Spec == Init /\ [][Next]_vars

(* The event loop runs every task, the provider answers, time passes and    *)
(* the cron comes back.                                                     *)
FairSpec ==
  /\ Spec
  /\ \A x \in Runners : WF_vars(Step(x))
  /\ WF_vars(\E x \in Runners, w \in Hooks : RunWebhook(x, w))
  /\ WF_vars(HeartbeatAges)
  /\ WF_vars(\E x \in Runners : Reconcile(x))
-----------------------------------------------------------------------------
(* Properties.                                                             *)

Cursor == [started : 1..MaxClock, since : 0..MaxClock, read : Nat,
           after : [record : 0..NumRecords, date : 0..MaxClock],
           done : BOOLEAN, pending : BOOLEAN]

ASSUME NoRunAssumption == NoRun \notin Cursor

(* The rows and the tasks have their types. *)
SyncTypeOK ==
  /\ clock \in 1..MaxClock /\ updated \in [Records -> 1..MaxClock] /\ gone \subseteq Records
  /\ conn \in [status : {"CONNECTED", "SYNCING", "PROCESSING", "READY", "FAILED",
                         "REAUTH_REQUIRED", "DISCONNECTED"},
               credentials : BOOLEAN, recent : BOOLEAN, young : BOOLEAN,
               cursor : Cursor \cup {NoRun}, success : 0..MaxClock]
  /\ store \in [Records -> [content : 0..MaxClock, deleted : BOOLEAN]]
  /\ dataset \in [Records -> 0..MaxClock]
  /\ receipts \in [Hooks -> {"none", "RECEIVED", "PROCESSING", "PROCESSED", "ERROR"}]
  /\ announced \in [Hooks -> 0..MaxClock]
  /\ tasks \subseteq Hooks
  /\ pc \in [Runners -> {"idle", "reserved", "connecting", "fetching", "arrived",
                         "complete", "materialising", "drain"}]
  /\ run \in [Runners -> Cursor \cup {NoRun}]
  /\ local \in [Runners -> [page : [record : 0..NumRecords, content : 0..MaxClock,
                                    last : BOOLEAN],
                            changed : BOOLEAN, first : Hooks \cup {NoHook}, mine : SUBSET Hooks]]
  /\ crashes \in 0..MaxCrashes

(* A record never goes back to an older content, even when a run whose      *)
(* place was taken stores a page it received long before.                   *)
NoStaleOverwrite == [][\A p \in Records : store'[p].content >= store[p].content]_vars

(* The cursor a run leaves, and a later one resumes, passes over nothing:   *)
(* the records changed since its updated_since that it has read, or had to  *)
(* read when it read the last page, are stored with their last change,      *)
(* whoever stored them and whatever changes meanwhile.  With numbered pages *)
(* this holds as long as no record is changed or deleted after the run's    *)
(* start: the records behind one that is move up into pages already read,   *)
(* and no run fetches them.                                                 *)
Keeps(c) == Numbered => gone = {} /\ \A p \in Records : updated[p] <= c.started
CursorCoversPages ==
  LET c == conn.cursor IN
  c # NoRun /\ Keeps(c) =>
    \A p \in Listed(c) :
      p \notin Rest(c) \/ (c.done /\ updated[p] <= c.started)
        => store[p].content = updated[p]

(* The reservation of the row is a lock as long as no heartbeat is late:    *)
(* one runner at a time is between its reservation and its last commit.     *)
OneRunAtATime ==
  "late" \notin profile => Cardinality({x \in Runners : pc[x] \notin {"idle", "drain"}}) <= 1

Quiet == Working = {} /\ tasks = {}

(* "Persist provider pages and hand one stable snapshot to Retail            *)
(* ingestion": unless a run fails or crashes, the dataset is the stored     *)
(* records once the work is done, though runs overlap.                      *)
SnapshotMatchesStore ==
  profile \cap {"failure", "crash"} = {} =>
    (conn.status = "READY" /\ Quiet => dataset = Live)

(* A deletion whose receipt is PROCESSED is in the records, and in the      *)
(* dataset when the store is ready: unless a heartbeat is late, no run      *)
(* stores the record anew.                                                  *)
TombstonesLand ==
  "late" \notin profile =>
    \A w \in Deletes :
      receipts[w] = "PROCESSED" =>
        /\ Live[1] = Nothing
        /\ conn.status = "READY" /\ Quiet => dataset[1] = Nothing

(* An update announced by a webhook is in the records once its receipt is   *)
(* PROCESSED: the incremental sync it schedules has fetched it.             *)
UpdatesLand ==
  \A w \in Hooks \ (Deletes \cup Uninstalling) :
    receipts[w] = "PROCESSED" => store[1].content >= announced[w]

(* Every receipt recorded is taken up, by its task, the run in progress or  *)
(* the cron, though processes crash and heartbeats age.                     *)
ReceiptsTakenUp ==
  \A w \in Hooks :
    []<>(profile \subseteq {"webhook", "crash"} => receipts[w] # "RECEIVED")
=============================================================================
