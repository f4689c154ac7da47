-------------------------- MODULE CommerceSync_proofs --------------------------
(***************************************************************************)
(* Theorems of CommerceSync, for any number of runners, records, webhooks  *)
(* and crashes, and whatever may happen: the cursor passes over nothing,   *)
(* no record goes back, and the reservation is a lock while heartbeats are *)
(* in time; the dataset is the records unless a run fails, and deletions   *)
(* announced are in both unless a heartbeat is late.                       *)
(***************************************************************************)
EXTENDS CommerceSync, FiniteSetTheorems, TLAPS

Places == {"idle", "reserved", "connecting", "fetching", "arrived", "complete",
           "materialising", "drain"}
Statuses == {"CONNECTED", "SYNCING", "PROCESSING", "READY", "FAILED", "REAUTH_REQUIRED",
             "DISCONNECTED"}
Rows == [status : Statuses, credentials : BOOLEAN, recent : BOOLEAN, young : BOOLEAN,
         cursor : Cursor \cup {NoRun}, success : 0..MaxClock]
Answered == [record : 0..NumRecords, content : 0..MaxClock, last : BOOLEAN]
Locals == [page : Answered, changed : BOOLEAN, first : Hooks \cup {NoHook},
           mine : SUBSET Hooks]
RecordRows == [content : 0..MaxClock, deleted : BOOLEAN]

-----------------------------------------------------------------------------
(* The invariant.                                                          *)

RowTyped == conn \in Rows
ProviderTyped ==
  clock \in 1..MaxClock /\ updated \in [Records -> 1..MaxClock] /\ gone \subseteq {1}
RecordsTyped == store \in [Records -> RecordRows]
RunnersTyped ==
  /\ pc \in [Runners -> Places]
  /\ run \in [Runners -> Cursor \cup {NoRun}]
  /\ local \in [Runners -> Locals]
Typed == RowTyped /\ ProviderTyped /\ RecordsTyped /\ RunnersTyped

(* A runner between sync_context and the end of its run has a run, and a   *)
(* page without a record is empty.                                         *)
AtRun == {"connecting", "fetching", "arrived", "complete", "materialising"}
RunsGoOn ==
  \A x \in Runners :
    /\ pc[x] \in AtRun => run[x] \in Cursor
    /\ local[x].page.record = 0 => local[x].page.content = Nothing

(* What a cursor has passed over is stored, as long as the list keeps.     *)
Over(c, p) == p \in Listed(c) /\ (p \notin Rest(c) \/ (c.done /\ updated[p] <= c.started))
Covers(c) ==
  /\ c.started <= clock /\ c.after.date <= clock
  /\ Keeps(c) => \A p \in Records : Over(c, p) => store[p].content = updated[p]

DatesInOrder ==
  \A p \in Records : updated[p] <= clock /\ store[p].content <= updated[p]

RowCovers == conn.cursor # NoRun => Covers(conn.cursor)
RunsCover == \A x \in Runners : pc[x] \in AtRun => Covers(run[x])

(* The page a runner has received is all its cursor will pass over; if its *)
(* record changed since, it did after the run's start.                     *)
PageIsCurrent(x) ==
  LET page == local[x].page
      next == Advanced(run[x], page)
  IN
  /\ page.record # 0 => page.content <= updated[page.record]
  /\ Keeps(run[x]) =>
       \A p \in Records : Over(next, p) =>
         \/ store[p].content = updated[p]
         \/ p = page.record /\ page.content = updated[p]
PagesAreCurrent == \A x \in Runners : pc[x] = "arrived" => PageIsCurrent(x)

CoverInv == /\ Typed /\ RunsGoOn /\ DatesInOrder
            /\ RowCovers /\ RunsCover /\ PagesAreCurrent

(* While heartbeats are in time, the row says that a run is active for as  *)
(* long as one is, unless it is blocked, and then none begins.             *)
Holds(x) == pc[x] \notin {"idle", "drain"}
LockInv ==
  "late" \notin profile =>
    /\ \A x, y \in Runners : Holds(x) /\ Holds(y) => x = y
    /\ (\E x \in Runners : Holds(x)) => IsActive \/ Blocked

-----------------------------------------------------------------------------
(* The provider's list.                                                    *)

LEMMA FewAhead ==
  ASSUME NEW c, NEW p
  PROVE  /\ IsFiniteSet({q \in Listed(c) : Ahead(q, p)})
         /\ Cardinality({q \in Listed(c) : Ahead(q, p)}) \in Nat
<1>1. IsFiniteSet(Records)
  BY FS_Interval, SyncAssumption DEF Records
<1>2. {q \in Listed(c) : Ahead(q, p)} \subseteq Records
  BY DEF Listed
<1>3. QED
  BY <1>1, <1>2, FS_Subset, FS_CardinalityType

(* A record behind another of the list has more records ahead of it.       *)
LEMMA MoreAhead ==
  ASSUME ProviderTyped, NEW c, NEW s \in Listed(c), NEW p \in Listed(c), Ahead(s, p)
  PROVE  Cardinality({q \in Listed(c) : Ahead(q, s)})
           < Cardinality({q \in Listed(c) : Ahead(q, p)})
<1> DEFINE S == {q \in Listed(c) : Ahead(q, s)}
           P == {q \in Listed(c) : Ahead(q, p)}
<1>1. /\ \A q \in Listed(c) : q \in Nat /\ updated[q] \in Nat
      /\ Listed(c) \subseteq Records
  BY SyncAssumption DEF ProviderTyped, Listed, Records
<1>2. S \subseteq P /\ s \in P /\ s \notin S
  BY <1>1 DEF Ahead
<1>3. IsFiniteSet(P) /\ Cardinality(P) \in Nat /\ Cardinality(S) \in Nat
  BY FewAhead
<1>4. Cardinality(S) <= Cardinality(P) /\ (Cardinality(S) = Cardinality(P) => S = P)
  BY <1>2, <1>3, FS_Subset
<1>5. QED
  BY <1>2, <1>3, <1>4

(* What the answer holds: the first of the rest, and whether it is all.    *)
LEMMA AnswerIs ==
  ASSUME ProviderTyped, NEW c, NEW page \in Answers(c)
  PROVE  /\ page \in Answered
         /\ \/ page = EmptyPage /\ Rest(c) = {}
            \/ /\ page.record \in Rest(c) /\ page.content = updated[page.record]
               /\ \A q \in Rest(c) \ {page.record} : Ahead(page.record, q)
               /\ page.last => Rest(c) = {page.record}
         /\ page.record = 0 => page.content = Nothing
<1>1. CASE Rest(c) = {}
  <2>1. page = EmptyPage
    BY <1>1 DEF Answers
  <2>2. EmptyPage \in Answered /\ EmptyPage.content = Nothing
    BY SyncAssumption DEF EmptyPage, Answered, Nothing
  <2>3. QED
    BY <1>1, <2>1, <2>2
<1>2. CASE Rest(c) # {}
  <2>1. PICK p \in First(c) : page = Page(p, c)
    BY <1>2 DEF Answers
  <2>2. p \in Rest(c) /\ p \in Records /\ \A q \in Rest(c) \ {p} : Ahead(p, q)
    BY <2>1 DEF First, Rest, Listed
  <2>3. p # 0 /\ p \in 0..NumRecords /\ updated[p] \in 0..MaxClock
    BY <2>2, SyncAssumption DEF Records, ProviderTyped
  <2>4. page.record = p /\ page.content = updated[p] /\ page.last = (Rest(c) = {p})
        /\ page \in Answered
    BY <2>1, <2>3 DEF Page, Answered
  <2>5. QED
    BY <2>2, <2>3, <2>4
<1>3. QED
  BY <1>1, <1>2

LEMMA AdvancedIs ==
  ASSUME NEW c \in Cursor, NEW page \in Answered
  PROVE  LET d == Advanced(c, page)
         IN /\ d \in Cursor /\ d.started = c.started /\ d.since = c.since
            /\ d.pending = c.pending /\ d.done = page.last
            /\ Numbered => d.read = c.read + 1 /\ d.after = c.after
            /\ ~Numbered => d.after.record = page.record /\ d.after.date = page.content
<1>1. CASE Numbered
  <2>1. Advanced(c, page) = [c EXCEPT !.read = c.read + 1, !.after = c.after,
                                      !.done = page.last]
    BY <1>1 DEF Advanced, Cursor
  <2>2. c.read + 1 \in Nat /\ page.last \in BOOLEAN
    BY DEF Cursor, Answered
  <2>3. QED
    BY <1>1, <2>1, <2>2 DEF Cursor
<1>2. CASE ~Numbered
  <2> DEFINE key == [record |-> page.record, date |-> page.content]
  <2>1. key \in [record : 0..NumRecords, date : 0..MaxClock]
        /\ key.record = page.record /\ key.date = page.content
    BY DEF Answered
  <2>2. Advanced(c, page) = [c EXCEPT !.read = c.read, !.after = key, !.done = page.last]
    BY <1>2 DEF Advanced, Cursor
  <2>3. QED
    BY <1>2, <2>1, <2>2 DEF Cursor, Answered
<1>3. QED
  BY <1>1, <1>2

(* After the answer, the cursor has passed over nothing but its record.    *)
LEMMA AnswerCovers ==
  ASSUME ProviderTyped, NEW c \in Cursor, Covers(c), NEW page \in Answers(c)
  PROVE  /\ page.record # 0 => page.content <= updated[page.record]
         /\ Keeps(c) => \A p \in Records : Over(Advanced(c, page), p) =>
                          \/ store[p].content = updated[p]
                          \/ p = page.record /\ page.content = updated[p]
<1> DEFINE d == Advanced(c, page)
           s == page.record
<1>1. /\ page \in Answered
      /\ \/ page = EmptyPage /\ Rest(c) = {}
         \/ /\ s \in Rest(c) /\ page.content = updated[s]
            /\ \A q \in Rest(c) \ {s} : Ahead(s, q)
            /\ page.last => Rest(c) = {s}
  BY AnswerIs
<1>2. /\ d.started = c.started /\ d.since = c.since /\ d.done = page.last
      /\ Numbered => d.read = c.read + 1 /\ d.after = c.after
      /\ ~Numbered => d.after.record = s /\ d.after.date = page.content
  BY <1>1, AdvancedIs
<1>3. s # 0 => page.content <= updated[s]
  <2>1. \A p \in Rest(c) : updated[p] \in Nat
    BY SyncAssumption DEF Rest, Listed, ProviderTyped
  <2>2. QED
    BY <1>1, <2>1 DEF EmptyPage
<1>4. ASSUME NEW p \in Records, Over(d, p), p \in Rest(c)
      PROVE  p = s /\ page.content = updated[p]
  <2>1. /\ s \in Rest(c) /\ page.content = updated[s]
        /\ \A q \in Rest(c) \ {s} : Ahead(s, q)
        /\ page.last => Rest(c) = {s}
    BY <1>1, <1>4
  <2>2. SUFFICES ASSUME p # s PROVE FALSE
    BY <2>1
  <2>3. Ahead(s, p) /\ p \notin Rest(d) /\ p \in Listed(c)
    BY <1>2, <1>4, <2>1, <2>2 DEF Over, Rest
  <2>4. Listed(d) = Listed(c)
    BY <1>2 DEF Listed
  <2>5. CASE Numbered
    <3>1. Cardinality({q \in Listed(c) : Ahead(q, s)})
            < Cardinality({q \in Listed(c) : Ahead(q, p)})
      BY <2>1, <2>3, MoreAhead DEF Rest
    <3>2. Cardinality({q \in Listed(c) : Ahead(q, s)}) >= c.read
      BY <2>1, <2>5 DEF Rest, IsAfter
    <3>3. /\ Cardinality({q \in Listed(c) : Ahead(q, s)}) \in Nat /\ c.read \in Nat
          /\ Cardinality({q \in Listed(c) : Ahead(q, p)}) \in Nat
      BY FewAhead DEF Cursor
    <3>4. Cardinality({q \in Listed(c) : Ahead(q, p)}) >= d.read
      BY <1>2, <2>5, <3>1, <3>2, <3>3
    <3>5. QED
      BY <2>3, <2>4, <2>5, <3>4 DEF Rest, IsAfter
  <2>6. CASE ~Numbered
    BY <1>2, <2>1, <2>3, <2>4, <2>6 DEF Rest, IsAfter, Ahead
  <2>7. QED
    BY <2>5, <2>6
<1>5. ASSUME Keeps(c), NEW p \in Records, Over(d, p), p \notin Rest(c)
      PROVE  store[p].content = updated[p]
  <2>1. p \in Listed(c)
    BY <1>2, <1>5 DEF Over, Listed
  <2>2. QED
    BY <1>5, <2>1 DEF Covers, Over
<1>6. QED
  BY <1>3, <1>4, <1>5

-----------------------------------------------------------------------------
(* The run a reservation starts or resumes, and the row it leaves.         *)
LEMMA RunIsCursor ==
  ASSUME Typed
  PROVE  CurrentRun \in Cursor
<1>1. NewRun \in Cursor
  BY SyncAssumption DEF Typed, RowTyped, Rows, ProviderTyped, NewRun, Cursor
<1>2. QED
  BY <1>1 DEF Typed, RowTyped, Rows, CurrentRun

LEMMA ResumedCovers ==
  ASSUME Typed, RowCovers
  PROVE  Covers(CurrentRun)
<1>1. CASE conn.cursor = NoRun
  <2>1. /\ CurrentRun.read = 0 /\ CurrentRun.started = clock /\ ~CurrentRun.done
        /\ CurrentRun.after.date = 0 /\ CurrentRun.after.record = 0
        /\ clock \in Nat /\ \A p \in Records : updated[p] > 0
    BY <1>1, SyncAssumption DEF CurrentRun, NewRun, Typed, ProviderTyped
  <2>2. ASSUME NEW p \in Listed(CurrentRun) PROVE p \in Rest(CurrentRun)
    <3>1. Cardinality({q \in Listed(CurrentRun) : Ahead(q, p)}) \in Nat
      BY FewAhead
    <3>2. p \in Records
      BY DEF Listed
    <3>3. QED
      BY <2>1, <3>1, <3>2 DEF Rest, IsAfter
  <2>3. QED
    BY <2>1, <2>2 DEF Covers, Over
<1>2. CASE conn.cursor # NoRun
  BY <1>2 DEF CurrentRun, RowCovers
<1>3. QED
  BY <1>1, <1>2

LEMMA NewLocalTyped ==
  /\ NewLocal \in Locals /\ EmptyPage \in Answered
  /\ NewLocal.page = EmptyPage /\ NewLocal.page.content = Nothing
  /\ EmptyPage.content = Nothing
<1>1. 0 \in 0..MaxClock /\ 0 \in 0..NumRecords
  BY SyncAssumption
<1>2. EmptyPage \in Answered /\ EmptyPage.content = Nothing
  BY <1>1 DEF EmptyPage, Answered, Nothing
<1>3. NewLocal \in Locals /\ NewLocal.page = EmptyPage
  BY <1>2 DEF NewLocal, Locals
<1>4. QED
  BY <1>2, <1>3

LEMMA RowAfterBegin ==
  ASSUME Typed, BeginOrResume
  PROVE  /\ conn' \in Rows
         /\ conn'.status = "SYNCING" /\ conn'.cursor = CurrentRun
         /\ "late" \notin profile => conn'.recent
BY RunIsCursor DEF Typed, RowTyped, Rows, BeginOrResume, Statuses

LEMMA Reserved ==
  ASSUME Typed, NEW x \in Runners, NEW first \in Hooks \cup {NoHook},
         NEW mine \in SUBSET Hooks, Reserve(x, first, mine)
  PROVE  /\ conn' \in Rows
         /\ conn'.status = "SYNCING" /\ conn'.cursor = CurrentRun
         /\ "late" \notin profile => conn'.recent
         /\ local' \in [Runners -> Locals]
         /\ pc' = [pc EXCEPT ![x] = "reserved"]
<1>1. BeginOrResume
  BY DEF Reserve
<1>2. [NewLocal EXCEPT !.first = first, !.mine = mine] \in Locals
  <2>1. NewLocal \in Locals
    BY NewLocalTyped
  <2>2. QED
    BY <2>1 DEF Locals
<1>3. local' \in [Runners -> Locals]
  BY <1>2 DEF Typed, RunnersTyped, Reserve
<1>4. QED
  BY <1>1, <1>3, RowAfterBegin DEF Reserve, Goto

(* A step of a runner keeps the types.                                     *)
LEMMA RunnerTyped ==
  ASSUME Typed, RunsGoOn, NEW x \in Runners,
         Step(x) \/ Fail(x) \/ SyncNow(x) \/ Reconcile(x) \/ \E w \in Hooks : RunWebhook(x, w)
  PROVE  Typed' /\ RunsGoOn'
<1> DEFINE New == Typed' /\ RunsGoOn'
<1>0. /\ NewLocal \in Locals /\ EmptyPage \in Answered
      /\ NewLocal.page.content = Nothing /\ EmptyPage.content = Nothing
  BY NewLocalTyped
<1>1. ASSUME NEW first \in Hooks \cup {NoHook}, NEW mine \in SUBSET Hooks,
             Reserve(x, first, mine), UNCHANGED <<provider, store, run>>
      PROVE  New
  <2>1. /\ conn' \in Rows /\ local' \in [Runners -> Locals]
        /\ pc' = [pc EXCEPT ![x] = "reserved"]
    BY <1>1, Reserved
  <2>2. /\ local'[x].page = NewLocal.page
        /\ \A y \in Runners \ {x} : local'[y] = local[y]
    BY <1>0, <1>1 DEF Reserve, Typed, RunnersTyped, Locals
  <2>3. QED
    BY <1>0, <1>1, <2>1, <2>2 DEF Typed, RowTyped, ProviderTyped, RecordsTyped, RunnersTyped, Places,
                      provider, RunsGoOn, AtRun
<1>2. ASSUME End(x), conn' \in Rows, UNCHANGED <<provider, store>>
      PROVE  New
  <2>1. /\ local' \in [Runners -> Locals] /\ local'[x] = NewLocal
        /\ \A y \in Runners \ {x} : local'[y] = local[y]
    BY <1>0, <1>2 DEF End, Typed, RunnersTyped
  <2>2. QED
    BY <1>0, <1>2, <2>1 DEF End, Goto, Typed, RowTyped, ProviderTyped, RecordsTyped,
                            RunnersTyped, Places, provider, RunsGoOn, AtRun
<1>3. CASE Begin(x)
  <2>1. conn' \in Rows /\ CurrentRun \in Cursor
    BY <1>3, RowAfterBegin, RunIsCursor DEF Begin
  <2>2. QED
    BY <1>3, <2>1 DEF Begin, Goto, Typed, RowTyped, ProviderTyped, RecordsTyped,
                      RunnersTyped, Places, provider, RunsGoOn, AtRun
<1>4. CASE BeginRefused(x)
  BY <1>2, <1>4 DEF BeginRefused, Typed, RowTyped
<1>5. CASE Connect(x)
  BY <1>5 DEF Connect, Goto, Typed, RowTyped, ProviderTyped, RecordsTyped, RunnersTyped,
              Places, provider, RunsGoOn, AtRun
<1>6. CASE Fetch(x)
  <2>1. PICK page \in Answers(run[x]) : local' = [local EXCEPT ![x].page = page]
    BY <1>6 DEF Fetch
  <2>2. page \in Answered /\ (page.record = 0 => page.content = Nothing)
    BY <2>1, AnswerIs DEF Typed
  <2>3. /\ local' \in [Runners -> Locals] /\ local'[x].page = page
        /\ \A y \in Runners \ {x} : local'[y] = local[y]
    BY <2>1, <2>2 DEF Typed, RunnersTyped, Locals
  <2>4. QED
    BY <1>6, <2>2, <2>3 DEF Fetch, Goto, Typed, RowTyped, ProviderTyped, RecordsTyped,
                      RunnersTyped, Places, provider, RunsGoOn, AtRun
<1>7. CASE StorePage(x)
  <2> DEFINE page == local[x].page
             state == Advanced(run[x], page)
             newer == Newer(page.record, page.content)
  <2>1. run[x] \in Cursor /\ local[x] \in Locals /\ page \in Answered
    BY <1>7 DEF StorePage, RunsGoOn, AtRun, Typed, RunnersTyped, Locals
  <2>2. state \in Cursor
    BY <2>1, AdvancedIs
  <2>3. newer => page.record \in Records
    BY <2>1, SyncAssumption DEF Newer, RunsGoOn, Answered, Records
  <2>4. /\ local' \in [Runners -> Locals] /\ local'[x].page = EmptyPage
        /\ \A y \in Runners \ {x} : local'[y] = local[y]
    <3>1. newer \in BOOLEAN
      BY DEF Newer
    <3>2. local' = [local EXCEPT ![x].page = EmptyPage, ![x].changed = @ \/ newer]
      BY <1>7 DEF StorePage
    <3>3. QED
      BY <1>0, <2>1, <3>1, <3>2 DEF Typed, RunnersTyped, Locals
  <2>5. store' \in [Records -> RecordRows]
    <3>1. store' = IF newer
                   THEN [store EXCEPT ![page.record] =
                           [content |-> page.content, deleted |-> FALSE]]
                   ELSE store
      BY <1>7 DEF StorePage
    <3>2. QED
      BY <2>1, <2>3, <3>1 DEF Typed, RecordsTyped, RecordRows, Answered
  <2>6. conn' \in Rows
    <3>1. conn' = [conn EXCEPT !.cursor = state, !.recent = TRUE,
                     !.young = @ /\ conn.cursor = run[x]]
      BY <1>7 DEF StorePage
    <3>2. QED
      BY <2>2, <3>1 DEF Typed, RowTyped, Rows
  <2>7. /\ run' = [run EXCEPT ![x] = state]
        /\ pc' = [pc EXCEPT ![x] = IF page.last THEN "complete" ELSE "fetching"]
        /\ UNCHANGED provider
    BY <1>7 DEF StorePage, Goto
  <2>8. Typed'
    BY <2>2, <2>4, <2>5, <2>6, <2>7 DEF Typed, RowTyped, ProviderTyped, RecordsTyped,
       RunnersTyped, Places, provider
  <2>9. RunsGoOn'
    BY <1>0, <1>7, <2>2, <2>4, <2>7 DEF RunsGoOn, AtRun, StorePage, Typed, RunnersTyped
  <2>10. QED
    BY <2>8, <2>9
<1>8. CASE Process(x)
  <2>1. run[x] \in Cursor
    BY <1>8 DEF Process, RunsGoOn, AtRun
  <2>2. [run[x] EXCEPT !.pending = @ \/ ShouldMaterialize(x)] \in Cursor
    BY <2>1 DEF Cursor, ShouldMaterialize
  <2>3. store' \in [Records -> RecordRows]
    BY <1>8 DEF Process, Tombstoned, Typed, RecordsTyped, RecordRows
  <2>4. conn' \in Rows
    BY <1>8, <2>2 DEF Process, Typed, RowTyped, Rows, Statuses
  <2>5. QED
    BY <1>8, <2>2, <2>3, <2>4 DEF Process, Goto, Typed, RowTyped, ProviderTyped,
       RecordsTyped, RunnersTyped, Places, provider, RunsGoOn, AtRun
<1>9. CASE Finish(x)
  <2>1. conn' \in Rows
    <3>1. clock \in 0..MaxClock
      BY SyncAssumption DEF Typed, ProviderTyped
    <3>2. QED
      BY <1>9, <3>1 DEF Finish, Typed, RowTyped, Rows, Statuses
  <2>2. /\ local' \in [Runners -> Locals]
        /\ \A y \in Runners : local'[y].page = local[y].page
    BY <1>9 DEF Finish, Typed, RunnersTyped, Locals
  <2>3. QED
    BY <1>9, <2>1, <2>2 DEF Finish, Goto, Typed, RowTyped, ProviderTyped, RecordsTyped,
       RunnersTyped, Places, provider, RunsGoOn, AtRun
<1>10. CASE Fail(x)
  <2>1. conn' \in Rows
    BY <1>10 DEF Fail, Typed, RowTyped, Rows, Statuses
  <2>2. QED
    BY <1>2, <1>10, <2>1 DEF Fail
<1>11. CASE Drain(x)
  <2>1. Disconnected \in Rows
    BY DEF Disconnected, Typed, RowTyped, Rows, Statuses
  <2>2. CASE DrainNothing(x) \/ DrainUninstall(x) \/ DrainRefused(x)
    BY <1>2, <1>11, <2>1, <2>2 DEF Drain, DrainNothing, DrainUninstall, DrainRefused, Typed,
       RowTyped
  <2>3. CASE DrainReserve(x)
    <3>1. local[x].first \in Hooks \cup {NoHook} /\ Waiting \in SUBSET Hooks
      BY DEF Typed, RunnersTyped, Locals, Waiting
    <3>2. QED
      BY <1>1, <1>11, <2>3, <3>1 DEF Drain, DrainReserve
  <2>4. QED
    BY <1>11, <2>2, <2>3 DEF Drain
<1>12. CASE SyncNow(x) \/ Reconcile(x)
  BY <1>1, <1>12 DEF SyncNow, Reconcile
<1>13. ASSUME NEW w \in Hooks, RunWebhook(x, w)
       PROVE  New
  <2>1. Disconnected \in Rows
    BY DEF Disconnected, Typed, RowTyped, Rows, Statuses
  <2>2. CASE WebhookReserves(x, w)
    BY <1>1, <1>13, <2>2 DEF RunWebhook, WebhookReserves
  <2>3. CASE WebhookLeft(w) \/ WebhookUninstalls(w) \/ WebhookRefused(w)
    <3>1. conn' \in Rows /\ UNCHANGED <<provider, store, runner>>
      BY <1>13, <2>1, <2>3 DEF RunWebhook, WebhookLeft, WebhookUninstalls, WebhookRefused,
         Typed, RowTyped
    <3>2. QED
      BY <3>1 DEF Typed, RowTyped, ProviderTyped, RecordsTyped, RunnersTyped, provider,
         runner, RunsGoOn
  <2>4. QED
    BY <1>13, <2>2, <2>3 DEF RunWebhook
<1>14. QED
  BY <1>3, <1>4, <1>5, <1>6, <1>7, <1>8, <1>9, <1>10, <1>11, <1>12, <1>13 DEF Step

-----------------------------------------------------------------------------
(* What a step may do to the pages: time passes, a change is dated after   *)
(* the clock, and a record's content stays or becomes newer, never newer   *)
(* than its last change.                                                   *)
PagesKept ==
  /\ profile' = profile
  /\ clock \in Nat /\ clock' \in Nat /\ clock <= clock' /\ gone \subseteq gone'
  /\ \A p \in Records :
       /\ \/ updated'[p] = updated[p]
          \/ updated'[p] \in Nat /\ clock < updated'[p] /\ updated'[p] <= clock'
       /\ \/ store'[p].content = store[p].content
          \/ /\ updated'[p] = updated[p]
             /\ store[p].content <= store'[p].content /\ store'[p].content <= updated[p]
             /\ store'[p].content \in Nat

(* What a cursor has passed over, it had passed over before the step.      *)
LEMMA WasOver ==
  ASSUME Typed, Typed', PagesKept, DatesInOrder, NEW c \in Cursor,
         c.started <= clock, c.after.date <= clock, Keeps(c)',
         NEW p \in Records, Over(c, p)'
  PROVE  Keeps(c) /\ Over(c, p) /\ updated'[p] = updated[p]
<1>1. /\ c.started \in Nat /\ c.after.date \in Nat
      /\ \A q \in Records : updated[q] \in Nat /\ updated'[q] \in Nat /\ updated[q] <= clock
      /\ p \in Nat /\ clock \in Nat
  BY SyncAssumption DEF Cursor, Typed, ProviderTyped, DatesInOrder, PagesKept, Records
<1>2. CASE Numbered
  <2>1. gone' = {} /\ gone = {} /\ \A q \in Records : updated'[q] <= c.started
    BY <1>2 DEF Keeps, Numbered, PagesKept
  <2>2. \A q \in Records : updated'[q] = updated[q]
    BY <1>1, <2>1 DEF PagesKept
  <2>3. UNCHANGED <<updated, gone, profile>>
    BY <2>1, <2>2 DEF Typed, ProviderTyped, PagesKept
  <2>4. QED
    BY <2>3 DEF Keeps, Numbered, Over, Listed, Rest, IsAfter, Ahead
<1>3. CASE ~Numbered
  <2>1. Keeps(c) /\ ~Numbered'
    BY <1>3 DEF Keeps, Numbered, PagesKept
  <2>2. updated'[p] <= clock
    <3>1. SUFFICES ASSUME updated'[p] > clock PROVE FALSE
      BY <1>1
    <3>2. c.after.date < updated'[p] /\ ~(updated'[p] <= c.started)
      BY <1>1, <3>1
    <3>3. (p \in Rest(c))'
      BY <2>1, <3>2 DEF Over, Rest, IsAfter
    <3>4. QED
      BY <3>2, <3>3 DEF Over
  <2>3. updated'[p] = updated[p] /\ (p \notin gone' => p \notin gone)
    BY <1>1, <2>2 DEF PagesKept
  <2>4. (p \in Listed(c))' => p \in Listed(c)
    BY <2>3 DEF Listed
  <2>5. p \in Rest(c) /\ (p \in Listed(c))' => (p \in Rest(c))'
    BY <1>3, <2>1, <2>3 DEF Rest, IsAfter
  <2>6. QED
    BY <2>1, <2>3, <2>4, <2>5 DEF Over
<1>4. QED
  BY <1>2, <1>3

(* A cursor stays covered: what it passed over stays the same, or changes  *)
(* after its run's start.                                                  *)
LEMMA StillCovers ==
  ASSUME Typed, Typed', PagesKept, DatesInOrder, NEW c \in Cursor, Covers(c)
  PROVE  Covers(c)'
<1>1. c.started <= clock' /\ c.after.date <= clock'
  BY SyncAssumption DEF Cursor, Covers, PagesKept
<1>2. ASSUME Keeps(c)', NEW p \in Records, Over(c, p)'
      PROVE  store'[p].content = updated'[p]
  <2>1. Keeps(c) /\ Over(c, p) /\ updated'[p] = updated[p]
    BY <1>2, WasOver DEF Covers
  <2>2. store[p].content = updated[p] /\ updated[p] \in Nat
    BY <2>1, SyncAssumption DEF Covers, Typed, ProviderTyped
  <2>3. QED
    BY <2>1, <2>2 DEF PagesKept
<1>3. QED
  BY <1>1, <1>2 DEF Covers

(* A run advances over a page it has stored, or that was already newer.    *)
LEMMA PageStored ==
  ASSUME CoverInv, NEW x \in Runners, StorePage(x)
  PROVE  LET page == local[x].page
         IN /\ page \in Answered /\ run[x] \in Cursor
            /\ \A p \in Records :
                 /\ store'[p].content >= store[p].content
                 /\ store'[p].content <= updated[p]
                 /\ p = page.record /\ page.content = updated[p]
                      => store'[p].content = updated[p]
<1> DEFINE page == local[x].page
           newer == Newer(page.record, page.content)
<1>1. page \in Answered /\ run[x] \in Cursor
  BY DEF CoverInv, StorePage, RunsGoOn, AtRun, Typed, RunnersTyped, Locals
<1>2. page.record # 0 => page.content <= updated[page.record]
  BY DEF CoverInv, PagesAreCurrent, PageIsCurrent, StorePage
<1>3. store' = IF newer
               THEN [store EXCEPT ![page.record] = [content |-> page.content, deleted |-> FALSE]]
               ELSE store
  BY DEF StorePage
<1>4. ASSUME NEW p \in Records
      PROVE  /\ store'[p].content >= store[p].content
             /\ store'[p].content <= updated[p]
             /\ p = page.record /\ page.content = updated[p]
                  => store'[p].content = updated[p]
  <2>1. /\ store[p].content \in Nat /\ updated[p] \in Nat /\ updated[p] # 0
        /\ store[p].content <= updated[p] /\ p # 0 /\ page.content \in Nat
    BY <1>1, <1>4, SyncAssumption DEF CoverInv, Typed, RecordsTyped, RecordRows, ProviderTyped,
       DatesInOrder, Records, Answered
  <2>2. CASE p # page.record \/ ~newer
    <3>1. store'[p] = store[p]
      BY <1>3, <1>4, <2>2 DEF CoverInv, Typed, RecordsTyped
    <3>2. ASSUME p = page.record, page.content = updated[p], ~newer
          PROVE  store[p].content = updated[p]
      <4>1. \/ ~(page.content >= store[p].content) \/ page.content = 0
            \/ [content |-> page.content, deleted |-> FALSE] = store[p]
        BY <3>2 DEF Newer, Nothing
      <4>2. QED
        BY <2>1, <3>2, <4>1
    <3>3. QED
      BY <2>1, <2>2, <3>1, <3>2
  <2>3. CASE p = page.record /\ newer
    <3>1. store'[p].content = page.content /\ page.content >= store[p].content
      BY <1>3, <1>4, <2>3 DEF CoverInv, Typed, RecordsTyped, Newer
    <3>2. QED
      BY <1>2, <2>1, <2>3, <3>1
  <2>4. QED
    BY <2>2, <2>3
<1>5. QED
  BY <1>1, <1>4

(* Tombstones keep a record's content.                                     *)
LEMMA TombstonesKeepContent ==
  ASSUME Typed
  PROVE  \A p \in Records : Tombstoned[p].content = store[p].content
BY DEF Tombstoned, Typed, RecordsTyped, RecordRows

(* A cursor after a step is one that was covered before it, but for what  *)
(* is pending.                                                             *)
SameWindow(c, d) ==
  /\ c.started = d.started /\ c.since = d.since
  /\ c.read = d.read /\ c.after = d.after /\ c.done = d.done
Known(d) == \E c \in Cursor : Covers(c) /\ SameWindow(c, d)

(* A step that keeps the pages, and hands cursors and pages on, keeps the  *)
(* cursors covered.                                                        *)
LEMMA CoverKept ==
  ASSUME CoverInv, Typed', RunsGoOn', PagesKept,
         \/ conn'.cursor = NoRun \/ Known(conn'.cursor) \/ Covers(conn.cursor)',
         \A y \in Runners : pc'[y] \in AtRun => Known(run'[y]) \/ Covers(run[y])',
         \A y \in Runners :
           \/ pc'[y] = "arrived" => /\ pc[y] = "arrived" /\ run'[y] = run[y]
                                    /\ local'[y].page = local[y].page
           \/ PageIsCurrent(y)'
  PROVE  CoverInv'
<1>1. DatesInOrder'
  <2>1. ASSUME NEW p \in Records
        PROVE  updated'[p] <= clock' /\ store'[p].content <= updated'[p]
    <3>1. /\ updated[p] \in Nat /\ store[p].content \in Nat
          /\ updated[p] <= clock /\ store[p].content <= updated[p]
      BY SyncAssumption DEF CoverInv, DatesInOrder, Typed, ProviderTyped, RecordsTyped, RecordRows
    <3>2. QED
      BY <3>1 DEF PagesKept
  <2>2. QED
    BY <2>1 DEF DatesInOrder
<1>2. RowCovers'
  <2>1. CASE Known(conn'.cursor)
    <3>1. PICK c \in Cursor : Covers(c) /\ SameWindow(c, conn'.cursor)
      BY <2>1 DEF Known
    <3>2. Covers(c)'
      BY <3>1, StillCovers DEF CoverInv
    <3>3. QED
      BY <3>1, <3>2 DEF RowCovers, Covers, Keeps, Over, Listed, Rest, IsAfter, SameWindow
  <2>2. QED
    BY <2>1 DEF RowCovers
<1>3. RunsCover'
  <2>1. ASSUME NEW y \in Runners, Known(run'[y])
        PROVE  Covers(run[y])'
    <3>1. PICK c \in Cursor : Covers(c) /\ SameWindow(c, run'[y])
      BY <2>1 DEF Known
    <3>2. Covers(c)'
      BY <3>1, StillCovers DEF CoverInv
    <3>3. QED
      BY <3>1, <3>2 DEF Covers, Keeps, Over, Listed, Rest, IsAfter, SameWindow
  <2>2. QED
    BY <2>1 DEF RunsCover
<1>4. PagesAreCurrent'
  <2>1. ASSUME NEW y \in Runners, pc[y] = "arrived", run'[y] = run[y],
               local'[y].page = local[y].page
        PROVE  PageIsCurrent(y)'
    <3> DEFINE page == local[y].page
    <3>0. PICK next : next = Advanced(run[y], page)
      OBVIOUS
    <3>1. /\ run[y] \in Cursor /\ Covers(run[y]) /\ PageIsCurrent(y) /\ page \in Answered
      BY <2>1 DEF CoverInv, RunsGoOn, RunsCover, PagesAreCurrent, AtRun, Typed, RunnersTyped,
         Locals
    <3>2. /\ next \in Cursor /\ next.started = run[y].started
          /\ next.after.date <= clock
      <4>1. next \in Cursor /\ next.started = run[y].started
            /\ next.after.date \in {run[y].after.date, page.content}
        BY <3>0, <3>1, AdvancedIs
      <4>2. page.record # 0 => page.record \in Records
        BY <3>1, SyncAssumption DEF Answered, Records
      <4>3. page.content <= clock
        <5>1. CASE page.record = 0
          <6>1. page.content = 0
            BY <5>1 DEF CoverInv, RunsGoOn, Nothing
          <6>2. QED
            BY <6>1 DEF PagesKept
        <5>2. CASE page.record # 0
          <6>1. /\ page.content <= updated[page.record] /\ updated[page.record] <= clock
                /\ page.content \in Nat /\ updated[page.record] \in Nat /\ clock \in Nat
            BY <3>1, <4>2, <5>2, SyncAssumption DEF PageIsCurrent, CoverInv, DatesInOrder, Typed,
               ProviderTyped, Answered
          <6>2. QED
            BY <6>1
        <5>3. QED
          BY <5>1, <5>2
      <4>4. QED
        BY <3>1, <4>1, <4>3 DEF Covers
    <3>3. page.record # 0 => page.content <= updated'[page.record]
      <4>1. ASSUME page.record # 0 PROVE page.content <= updated'[page.record]
        <5>1. page.record \in Records /\ page.content \in Nat
          BY <3>1, <4>1, SyncAssumption DEF Answered, Records
        <5>2. /\ page.content <= updated[page.record] /\ updated[page.record] \in Nat
              /\ updated[page.record] <= clock /\ clock \in Nat
          BY <3>1, <4>1, <5>1, SyncAssumption DEF PageIsCurrent, CoverInv, DatesInOrder, Typed,
             ProviderTyped
        <5>3. QED
          BY <5>1, <5>2 DEF PagesKept
      <4>2. QED
        BY <4>1
    <3>4. ASSUME Keeps(run[y])', NEW p \in Records, Over(Advanced(run[y], local[y].page), p)'
          PROVE  \/ store'[p].content = updated'[p]
                 \/ p = page.record /\ page.content = updated'[p]
      <4>1. next = Advanced(run[y], local[y].page)'
        BY <2>1, <3>0 DEF Advanced, Numbered, PagesKept
      <4>2. Over(next, p)'
        BY <3>4, <4>1 DEF Over, Listed, Rest, IsAfter
      <4>3. Keeps(next)'
        BY <2>1, <3>2, <3>4 DEF Keeps
      <4>4. Keeps(next) /\ Over(next, p) /\ updated'[p] = updated[p]
        BY <3>1, <3>2, <4>2, <4>3, WasOver DEF CoverInv, Covers
      <4>5. Keeps(run[y])
        BY <3>2, <4>4 DEF Keeps
      <4>6. store[p].content = updated[p] \/ (p = page.record /\ page.content = updated[p])
        BY <3>0, <3>1, <4>4, <4>5 DEF PageIsCurrent
      <4>7. updated[p] \in Nat
        BY SyncAssumption DEF CoverInv, Typed, ProviderTyped
      <4>8. QED
        BY <4>4, <4>6, <4>7 DEF PagesKept
    <3>5. QED
      BY <2>1, <3>3, <3>4 DEF PageIsCurrent
  <2>2. QED
    BY <2>1 DEF PagesAreCurrent
<1>5. QED
  BY <1>1, <1>2, <1>3, <1>4 DEF CoverInv

(* Runs and pages of the runners that do not move.                         *)
LEMMA OthersKnown ==
  ASSUME CoverInv, NEW y \in Runners, pc[y] \in AtRun
  PROVE  Known(run[y])
BY DEF CoverInv, RunsGoOn, RunsCover, Known, SameWindow

LEMMA RowKnown ==
  ASSUME CoverInv
  PROVE  conn.cursor = NoRun \/ Known(conn.cursor)
BY DEF CoverInv, RowCovers, Known, SameWindow, Typed, RowTyped, Rows

LEMMA NothingPaged ==
  ASSUME Typed, UNCHANGED <<provider, store, profile>>
  PROVE  PagesKept
BY SyncAssumption DEF Typed, ProviderTyped, PagesKept, provider

-----------------------------------------------------------------------------
(* Steps of a runner keep the cursors covered.                             *)

(* A step that moves one runner, whose run after it is known or none.      *)
LEMMA RunnerMoves ==
  ASSUME CoverInv, Typed', RunsGoOn', NEW x \in Runners,
         UNCHANGED <<provider, store, profile>>,
         conn'.cursor = NoRun \/ Known(conn'.cursor),
         pc'[x] \in AtRun => Known(run'[x]),
         pc'[x] # "arrived",
         \A y \in Runners \ {x} : /\ pc'[y] = pc[y] /\ run'[y] = run[y]
                                  /\ local'[y].page = local[y].page
  PROVE  CoverInv'
<1>1. PagesKept
  BY NothingPaged DEF CoverInv
<1>2. \A y \in Runners : pc'[y] \in AtRun => Known(run'[y])
  BY OthersKnown
<1>3. QED
  BY <1>1, <1>2, CoverKept

LEMMA ReserveCovers ==
  ASSUME CoverInv, Typed', RunsGoOn', NEW x \in Runners, NEW first \in Hooks \cup {NoHook},
         NEW mine \in SUBSET Hooks, Reserve(x, first, mine),
         UNCHANGED <<provider, store, run, profile>>
  PROVE  CoverInv'
<1>1. Known(CurrentRun)
  BY RunIsCursor, ResumedCovers DEF CoverInv, Known, SameWindow
<1>2. conn'.cursor = CurrentRun /\ pc' = [pc EXCEPT ![x] = "reserved"]
  BY Reserved DEF CoverInv
<1>3. \A y \in Runners \ {x} : local'[y] = local[y]
  BY DEF Reserve, CoverInv, Typed, RunnersTyped
<1>4. QED
  BY <1>1, <1>2, <1>3, RunnerMoves DEF CoverInv, Typed, RunnersTyped, AtRun

LEMMA EndCovers ==
  ASSUME CoverInv, Typed', RunsGoOn', NEW x \in Runners, End(x),
         conn'.cursor = conn.cursor, UNCHANGED <<provider, store, profile>>
  PROVE  CoverInv'
<1>1. /\ pc'[x] = "idle"
      /\ \A y \in Runners \ {x} : pc'[y] = pc[y] /\ run'[y] = run[y] /\ local'[y] = local[y]
  BY DEF End, Goto, CoverInv, Typed, RunnersTyped
<1>2. QED
  BY <1>1, RowKnown, RunnerMoves DEF AtRun

(* Storing a page moves the cursor over it.                                *)
LEMMA StoreCovers ==
  ASSUME CoverInv, Typed', RunsGoOn', NEW x \in Runners, StorePage(x)
  PROVE  CoverInv'
<1> DEFINE page == local[x].page
<1>0. PICK state : state = Advanced(run[x], page)
  OBVIOUS
<1>1. /\ page \in Answered /\ run[x] \in Cursor
      /\ \A p \in Records :
           /\ store'[p].content >= store[p].content
           /\ store'[p].content <= updated[p]
           /\ p = page.record /\ page.content = updated[p] => store'[p].content = updated[p]
  BY PageStored
<1>2. UNCHANGED <<provider, profile>>
  BY DEF StorePage, context
<1>3. PagesKept
  <2>1. /\ \A p \in Records : store'[p].content \in Nat /\ store[p].content \in Nat
        /\ clock \in Nat
    BY <1>1, SyncAssumption DEF CoverInv, Typed, RecordsTyped, RecordRows, ProviderTyped
  <2>2. QED
    BY <1>1, <1>2, <2>1 DEF PagesKept, provider
<1>4. /\ pc[x] = "arrived" /\ pc'[x] # "arrived"
      /\ run'[x] = state /\ conn'.cursor = state
      /\ \A y \in Runners \ {x} : pc'[y] = pc[y] /\ run'[y] = run[y]
                                  /\ local'[y].page = local[y].page
  BY <1>0 DEF StorePage, Goto, CoverInv, Typed, RunnersTyped, RowTyped, Rows
<1>5. state.started = run[x].started /\ state.after.date \in {run[x].after.date, page.content}
  BY <1>0, <1>1, AdvancedIs
<1>6. PageIsCurrent(x) /\ Covers(run[x])
  BY <1>4 DEF CoverInv, PagesAreCurrent, RunsCover, AtRun
<1>7. page.content <= clock
  <2>1. CASE page.record = 0
    BY <1>3, <2>1 DEF CoverInv, RunsGoOn, Nothing, PagesKept
  <2>2. CASE page.record # 0
    <3>1. page.record \in Records /\ page.content \in Nat
      BY <1>1, <2>2, SyncAssumption DEF Answered, Records
    <3>2. /\ page.content <= updated[page.record] /\ updated[page.record] <= clock
          /\ updated[page.record] \in Nat /\ clock \in Nat
      BY <1>6, <2>2, <3>1, SyncAssumption DEF PageIsCurrent, CoverInv, DatesInOrder, Typed,
         ProviderTyped
    <3>3. QED
      BY <3>1, <3>2
  <2>3. QED
    BY <2>1, <2>2
<1>8. ASSUME Keeps(run[x]), NEW p \in Records, Over(state, p)
      PROVE  store'[p].content = updated[p]
  <2>1. store[p].content = updated[p] \/ (p = page.record /\ page.content = updated[p])
    BY <1>0, <1>6, <1>8 DEF PageIsCurrent
  <2>2. updated[p] \in Nat /\ store'[p].content \in Nat
    BY SyncAssumption DEF CoverInv, Typed, ProviderTyped, RecordsTyped, RecordRows
  <2>3. QED
    BY <1>1, <2>1, <2>2
<1>9. Covers(run[x])' /\ Covers(conn.cursor)'
  <2>1. UNCHANGED <<clock, updated, gone, profile>>
    BY <1>2 DEF provider
  <2>2. state.started <= clock' /\ state.after.date <= clock'
    BY <1>5, <1>6, <1>7, <2>1 DEF Covers
  <2>3. ASSUME Keeps(state)', NEW p \in Records, Over(state, p)'
        PROVE  store'[p].content = updated'[p]
    <3>1. Keeps(run[x])
      BY <1>5, <2>1, <2>3 DEF Keeps, Numbered
    <3>2. Over(state, p)
      BY <2>1, <2>3 DEF Over, Listed, Rest, IsAfter, Ahead, Numbered
    <3>3. QED
      BY <1>8, <2>1, <3>1, <3>2
  <2>4. Covers(state)'
    BY <2>2, <2>3 DEF Covers
  <2>5. QED
    BY <1>4, <2>4 DEF Covers, Keeps, Over, Listed, Rest, IsAfter
<1>10. QED
  BY <1>3, <1>4, <1>9, OthersKnown, CoverKept

LEMMA RunnerCovers ==
  ASSUME CoverInv, NEW x \in Runners, UNCHANGED profile,
         Step(x) \/ Fail(x) \/ SyncNow(x) \/ Reconcile(x) \/ \E w \in Hooks : RunWebhook(x, w)
  PROVE  CoverInv'
<1>1. Typed' /\ RunsGoOn'
  BY RunnerTyped DEF CoverInv
<1>2. CASE Begin(x)
  <2>1. Known(CurrentRun)
    BY RunIsCursor, ResumedCovers DEF CoverInv, Known, SameWindow
  <2>2. /\ conn'.cursor = CurrentRun /\ run'[x] = CurrentRun /\ pc'[x] # "arrived"
        /\ \A y \in Runners \ {x} : pc'[y] = pc[y] /\ run'[y] = run[y] /\ local'[y] = local[y]
        /\ UNCHANGED <<provider, store>>
    BY <1>2, RowAfterBegin DEF Begin, Goto, CoverInv, Typed, RunnersTyped
  <2>3. QED
    BY <1>1, <2>1, <2>2, RunnerMoves
<1>3. CASE BeginRefused(x) \/ Fail(x)
  <2>1. conn'.cursor = conn.cursor /\ End(x) /\ UNCHANGED <<provider, store>>
    BY <1>3 DEF BeginRefused, Fail, CoverInv, Typed, RowTyped, Rows
  <2>2. QED
    BY <1>1, <2>1, EndCovers
<1>4. CASE Connect(x)
  <2>1. /\ pc[x] \in AtRun /\ run'[x] = run[x] /\ pc'[x] # "arrived"
        /\ conn'.cursor = conn.cursor
        /\ \A y \in Runners \ {x} : pc'[y] = pc[y] /\ run'[y] = run[y] /\ local'[y] = local[y]
        /\ UNCHANGED <<provider, store>>
    BY <1>4 DEF Connect, Goto, AtRun, CoverInv, Typed, RunnersTyped
  <2>2. QED
    BY <1>1, <2>1, RowKnown, OthersKnown, RunnerMoves
<1>5. CASE Fetch(x)
  <2> DEFINE c == run[x]
  <2>0. PICK page \in Answers(c) : local' = [local EXCEPT ![x].page = page]
    BY <1>5 DEF Fetch
  <2>1. /\ pc[x] = "fetching" /\ UNCHANGED <<provider, conn, store, run, profile>>
        /\ local'[x].page = page
        /\ \A y \in Runners \ {x} : pc'[y] = pc[y] /\ local'[y] = local[y]
    BY <1>5, <2>0 DEF Fetch, Goto, CoverInv, Typed, RunnersTyped, Locals, context
  <2>2. /\ c \in Cursor /\ Covers(c) /\ ProviderTyped /\ page \in Answered
        /\ \/ page = EmptyPage /\ Rest(c) = {}
           \/ /\ page.record \in Rest(c) /\ page.content = updated[page.record]
              /\ \A q \in Rest(c) \ {page.record} : Ahead(page.record, q)
              /\ page.last => Rest(c) = {page.record}
    BY <2>1, AnswerIs DEF CoverInv, RunsGoOn, RunsCover, AtRun, Typed
  <2>3. /\ page.record # 0 => page.content <= updated[page.record]
        /\ Keeps(c) => \A p \in Records : Over(Advanced(c, page), p) =>
                         \/ store[p].content = updated[p]
                         \/ p = page.record /\ page.content = updated[p]
    BY <2>2, AnswerCovers DEF EmptyPage
  <2>4. PageIsCurrent(x)'
    <3>1. UNCHANGED <<updated, gone, profile, store>> /\ run'[x] = c /\ local'[x].page = page
      BY <2>1 DEF provider
    <3>2. Advanced(run[x], local[x].page)' = Advanced(c, page)
      BY <3>1 DEF Advanced, Numbered
    <3>3. Keeps(run[x])' => Keeps(c)
      BY <3>1 DEF Keeps, Numbered
    <3>4. \A p \in Records :
            Over(Advanced(run[x], local[x].page), p)' => Over(Advanced(c, page), p)
      BY <3>1, <3>2 DEF Over, Listed, Rest, IsAfter, Ahead, Numbered
    <3>5. QED
      BY <2>3, <3>1, <3>3, <3>4 DEF PageIsCurrent
  <2>5. PagesKept
    BY <2>1, NothingPaged DEF CoverInv
  <2>6. pc[x] \in AtRun /\ conn'.cursor = conn.cursor /\ \A y \in Runners : run'[y] = run[y]
    BY <2>1 DEF AtRun
  <2>7. \A y \in Runners : pc'[y] \in AtRun => Known(run'[y])
    BY <2>1, <2>6, OthersKnown
  <2>8. QED
    BY <1>1, <2>1, <2>4, <2>5, <2>6, <2>7, RowKnown, CoverKept
<1>6. CASE StorePage(x)
  BY <1>1, <1>6, StoreCovers
<1>7. CASE Process(x)
  <2> DEFINE state == [run[x] EXCEPT !.pending = @ \/ ShouldMaterialize(x)]
  <2>1. run[x] \in Cursor /\ Covers(run[x]) /\ SameWindow(run[x], state)
    BY <1>7 DEF Process, CoverInv, RunsGoOn, RunsCover, AtRun, SameWindow, Cursor
  <2>2. Known(state)
    BY <2>1 DEF Known
  <2>3. /\ run'[x] = state /\ conn'.cursor \in {state, conn.cursor} /\ pc'[x] # "arrived"
        /\ UNCHANGED provider
        /\ \A y \in Runners \ {x} : pc'[y] = pc[y] /\ run'[y] = run[y] /\ local'[y] = local[y]
    BY <1>7 DEF Process, Goto, CoverInv, Typed, RunnersTyped, RowTyped, Rows
  <2>4. \A p \in Records : store'[p].content = store[p].content
    BY <1>7, TombstonesKeepContent DEF Process, CoverInv
  <2>5. PagesKept
    BY <2>3, <2>4, SyncAssumption DEF PagesKept, provider, CoverInv, Typed, ProviderTyped
  <2>6. \A y \in Runners : pc'[y] \in AtRun => Known(run'[y])
    BY <2>2, <2>3, OthersKnown
  <2>7. conn'.cursor = NoRun \/ Known(conn'.cursor)
    BY <2>2, <2>3, RowKnown
  <2>8. QED
    BY <1>1, <2>3, <2>5, <2>6, <2>7, CoverKept
<1>8. CASE Finish(x)
  <2>1. /\ pc'[x] = "drain" /\ conn'.cursor = NoRun
        /\ \A y \in Runners \ {x} : pc'[y] = pc[y] /\ run'[y] = run[y] /\ local'[y] = local[y]
        /\ UNCHANGED <<provider, store>>
    BY <1>8 DEF Finish, Goto, CoverInv, Typed, RunnersTyped, RowTyped, Rows
  <2>2. QED
    BY <1>1, <2>1, RunnerMoves DEF AtRun
<1>9. CASE Drain(x)
  <2>1. CASE DrainNothing(x) \/ DrainUninstall(x) \/ DrainRefused(x)
    <3>1. conn'.cursor = conn.cursor /\ End(x) /\ UNCHANGED <<provider, store>>
      BY <1>9, <2>1 DEF Drain, DrainNothing, DrainUninstall, DrainRefused, Disconnected,
         CoverInv, Typed, RowTyped, Rows
    <3>2. QED
      BY <1>1, <3>1, EndCovers
  <2>2. CASE DrainReserve(x)
    <3>1. local[x].first \in Hooks \cup {NoHook} /\ Waiting \in SUBSET Hooks
      BY DEF CoverInv, Typed, RunnersTyped, Locals, Waiting
    <3>2. QED
      BY <1>1, <1>9, <2>2, <3>1, ReserveCovers DEF Drain, DrainReserve
  <2>3. QED
    BY <1>9, <2>1, <2>2 DEF Drain
<1>10. CASE SyncNow(x) \/ Reconcile(x)
  BY <1>1, <1>10, ReserveCovers DEF SyncNow, Reconcile
<1>11. ASSUME NEW w \in Hooks, RunWebhook(x, w)
       PROVE  CoverInv'
  <2>1. CASE WebhookReserves(x, w)
    BY <1>1, <1>11, <2>1, ReserveCovers DEF RunWebhook, WebhookReserves
  <2>2. CASE WebhookLeft(w) \/ WebhookUninstalls(w) \/ WebhookRefused(w)
    <3>1. conn'.cursor = conn.cursor /\ UNCHANGED <<provider, store, runner>>
      BY <1>11, <2>2 DEF RunWebhook, WebhookLeft, WebhookUninstalls, WebhookRefused,
         Disconnected, CoverInv, Typed, RowTyped, Rows
    <3>2. PagesKept
      BY <3>1, NothingPaged DEF CoverInv
    <3>3. \A y \in Runners : pc'[y] \in AtRun => Known(run'[y])
      BY <3>1, OthersKnown DEF runner
    <3>4. QED
      BY <1>1, <3>1, <3>2, <3>3, RowKnown, CoverKept DEF runner
  <2>3. QED
    BY <1>11, <2>1, <2>2 DEF RunWebhook
<1>12. QED
  BY <1>2, <1>3, <1>4, <1>5, <1>6, <1>7, <1>8, <1>9, <1>10, <1>11 DEF Step

(* Steps of the provider, the user, the clock, webhooks and a crash.       *)
Environment ==
  \/ Tick \/ ProviderDeletes \/ \E p \in Records : ProviderChanges(p)
  \/ \E w \in Hooks : Deliver(w)
  \/ UserDisconnects \/ HeartbeatAges \/ Crash

LEMMA EnvironmentMoves ==
  ASSUME CoverInv, Environment
  PROVE  /\ Typed' /\ PagesKept
         /\ conn'.cursor = conn.cursor
         /\ \/ UNCHANGED runner
            \/ \A y \in Runners : pc'[y] = "idle" /\ local'[y] = NewLocal
<1> USE DEF CoverInv, Typed, RowTyped, ProviderTyped, RecordsTyped, RunnersTyped
<1>1. CASE Tick
  BY <1>1, SyncAssumption DEF Tick, PagesKept, runner, context
<1>2. CASE ProviderDeletes
  BY <1>2, SyncAssumption DEF ProviderDeletes, PagesKept, Records, runner, context
<1>3. ASSUME NEW p \in Records, ProviderChanges(p)
      PROVE  /\ Typed' /\ PagesKept
             /\ conn'.cursor = conn.cursor
             /\ UNCHANGED runner
  BY <1>3, SyncAssumption DEF ProviderChanges, PagesKept, runner, context
<1>4. CASE \E w \in Hooks : Deliver(w)
  BY <1>4, NothingPaged DEF Deliver, runner, provider, context
<1>5. CASE UserDisconnects
  <2>1. conn' \in Rows /\ conn'.cursor = conn.cursor
    BY <1>5 DEF UserDisconnects, Disconnected, Rows, Statuses
  <2>2. QED
    BY <1>5, <2>1, NothingPaged DEF UserDisconnects, runner, provider, context
<1>6. CASE HeartbeatAges
  <2>1. conn' \in Rows /\ conn'.cursor = conn.cursor
    BY <1>6 DEF HeartbeatAges, Rows
  <2>2. QED
    BY <1>6, <2>1, NothingPaged DEF HeartbeatAges, runner, provider, context
<1>7. CASE Crash
  <2>1. NewLocal \in Locals
    BY NewLocalTyped
  <2>2. QED
    BY <1>7, <2>1, NothingPaged DEF Crash, provider, Places
<1>8. QED
  BY <1>1, <1>2, <1>3, <1>4, <1>5, <1>6, <1>7 DEF Environment

LEMMA EnvironmentCovers ==
  ASSUME CoverInv, Environment
  PROVE  CoverInv'
<1>1. /\ Typed' /\ PagesKept /\ conn'.cursor = conn.cursor
      /\ UNCHANGED runner \/ \A y \in Runners : pc'[y] = "idle" /\ local'[y] = NewLocal
  BY EnvironmentMoves
<1>2. RunsGoOn'
  BY <1>1, NewLocalTyped DEF CoverInv, RunsGoOn, runner, AtRun
<1>3. \A y \in Runners : pc'[y] \in AtRun => Known(run'[y])
  BY <1>1, OthersKnown DEF runner, AtRun
<1>4. QED
  BY <1>1, <1>2, <1>3, RowKnown, CoverKept DEF runner

-----------------------------------------------------------------------------
(* The reservation.                                                        *)

LEMMA ReserveLocks ==
  ASSUME Typed, LockInv, NEW x \in Runners, NEW first \in Hooks \cup {NoHook},
         NEW mine \in SUBSET Hooks, Reserve(x, first, mine), UNCHANGED profile
  PROVE  LockInv'
<1>1. /\ conn'.status = "SYNCING"
      /\ "late" \notin profile => conn'.recent
      /\ pc' = [pc EXCEPT ![x] = "reserved"]
  BY Reserved
<1>2. "late" \notin profile => \A y \in Runners : ~Holds(y)
  BY DEF LockInv, Reserve
<1>3. "late" \notin profile => IsActive'
  BY <1>1 DEF IsActive
<1>4. QED
  BY <1>1, <1>2, <1>3 DEF LockInv, Holds, Typed, RunnersTyped

(* A runner that ends or drains lets no other in: none other holds.        *)
LEMMA EndLocks ==
  ASSUME Typed, LockInv, NEW x \in Runners, pc'[x] \in {"idle", "drain"},
         \A y \in Runners \ {x} : pc'[y] = pc[y],
         Holds(x) \/ conn' = conn \/ conn' = Disconnected, UNCHANGED profile
  PROVE  LockInv'
<1>1. \A y \in Runners : Holds(y)' => Holds(y) /\ y # x
  BY DEF Holds
<1>2. CASE Holds(x)
  BY <1>1, <1>2 DEF LockInv
<1>3. CASE conn' = conn
  BY <1>1, <1>3 DEF LockInv, IsActive, Blocked
<1>4. CASE conn' = Disconnected
  <2>1. Blocked'
    BY <1>4 DEF Blocked, Disconnected, Typed, RowTyped, Rows
  <2>2. QED
    BY <1>1, <2>1 DEF LockInv
<1>5. QED
  BY <1>2, <1>3, <1>4

(* A runner that goes on keeps the row active, or blocked.                 *)
LEMMA HolderLocks ==
  ASSUME Typed, LockInv, NEW x \in Runners, Holds(x),
         \A y \in Runners \ {x} : pc'[y] = pc[y], UNCHANGED profile,
         "late" \notin profile /\ (IsActive \/ Blocked) => IsActive' \/ Blocked'
  PROVE  LockInv'
BY DEF LockInv, Holds

LEMMA RunnerLocks ==
  ASSUME Typed, LockInv, NEW x \in Runners,
         Step(x) \/ Fail(x) \/ SyncNow(x) \/ Reconcile(x) \/ \E w \in Hooks : RunWebhook(x, w)
  PROVE  LockInv'
<1>1. CASE Begin(x)
  <2>1. /\ Holds(x) /\ \A y \in Runners \ {x} : pc'[y] = pc[y]
        /\ UNCHANGED profile /\ BeginOrResume
    BY <1>1 DEF Begin, Holds, Goto, Typed, RunnersTyped, context
  <2>2. "late" \notin profile => IsActive'
    BY <2>1, RowAfterBegin DEF IsActive
  <2>3. QED
    BY <2>1, <2>2, HolderLocks
<1>2. CASE Connect(x) \/ Fetch(x)
  <2>1. /\ Holds(x) /\ \A y \in Runners \ {x} : pc'[y] = pc[y]
        /\ UNCHANGED <<profile, conn>>
    BY <1>2 DEF Connect, Fetch, Holds, Goto, Typed, RunnersTyped, context
  <2>2. QED
    BY <2>1, HolderLocks DEF IsActive, Blocked
<1>3. CASE StorePage(x) \/ Process(x)
  <2>1. /\ Holds(x) /\ \A y \in Runners \ {x} : pc'[y] = pc[y]
        /\ UNCHANGED profile
        /\ conn'.recent /\ conn'.status \in {"PROCESSING", conn.status}
    BY <1>3 DEF StorePage, Process, Holds, Goto, Typed, RunnersTyped, RowTyped, Rows, context
  <2>2. QED
    BY <2>1, HolderLocks DEF IsActive, Blocked
<1>4. CASE Finish(x) \/ BeginRefused(x) \/ Fail(x)
  BY <1>4, EndLocks DEF Finish, BeginRefused, Fail, End, Goto, Holds, Typed, RunnersTyped,
     context
<1>5. CASE Drain(x)
  <2>1. CASE DrainNothing(x) \/ DrainUninstall(x) \/ DrainRefused(x)
    BY <1>5, <2>1, EndLocks DEF Drain, DrainNothing, DrainUninstall, DrainRefused, End, Goto,
       Typed, RunnersTyped, context
  <2>2. CASE DrainReserve(x)
    <3>1. local[x].first \in Hooks \cup {NoHook} /\ Waiting \in SUBSET Hooks
      BY DEF Typed, RunnersTyped, Locals, Waiting
    <3>2. QED
      BY <1>5, <2>2, <3>1, ReserveLocks DEF Drain, DrainReserve, context
  <2>3. QED
    BY <1>5, <2>1, <2>2 DEF Drain
<1>6. CASE SyncNow(x) \/ Reconcile(x)
  BY <1>6, ReserveLocks DEF SyncNow, Reconcile, context
<1>7. ASSUME NEW w \in Hooks, RunWebhook(x, w)
      PROVE  LockInv'
  <2>1. CASE WebhookReserves(x, w)
    BY <1>7, <2>1, ReserveLocks DEF RunWebhook, WebhookReserves, context
  <2>2. CASE WebhookLeft(w) \/ WebhookUninstalls(w) \/ WebhookRefused(w)
    BY <1>7, <2>2, EndLocks DEF RunWebhook, WebhookLeft, WebhookUninstalls, WebhookRefused,
       runner, context
  <2>3. QED
    BY <1>7, <2>1, <2>2 DEF RunWebhook
<1>8. QED
  BY <1>1, <1>2, <1>3, <1>4, <1>5, <1>6, <1>7 DEF Step

LEMMA EnvironmentLocks ==
  ASSUME Typed, LockInv, Environment
  PROVE  LockInv'
<1>1. CASE Tick \/ ProviderDeletes \/ (\E p \in Records : ProviderChanges(p))
             \/ \E w \in Hooks : Deliver(w)
  <2>1. UNCHANGED <<conn, pc, profile>>
    BY <1>1 DEF Tick, ProviderDeletes, ProviderChanges, Deliver, runner, context
  <2>2. QED
    BY <2>1 DEF LockInv, Holds, IsActive, Blocked
<1>2. CASE UserDisconnects
  <2>1. Blocked' /\ UNCHANGED <<pc, profile>>
    BY <1>2 DEF UserDisconnects, Disconnected, Blocked, Typed, RowTyped, Rows, runner, context
  <2>2. QED
    BY <2>1 DEF LockInv, Holds
<1>3. CASE HeartbeatAges
  <2>1. "late" \notin profile => \A x \in Runners : ~Holds(x)
    BY <1>3 DEF HeartbeatAges, Working, Holds
  <2>2. QED
    BY <1>3, <2>1 DEF HeartbeatAges, LockInv, Holds, runner, context
<1>4. CASE Crash
  BY <1>4 DEF Crash, LockInv, Holds
<1>5. QED
  BY <1>1, <1>2, <1>3, <1>4 DEF Environment

-----------------------------------------------------------------------------
(* Runners.                                                                *)

Moving(x) == \/ Step(x) \/ Fail(x) \/ SyncNow(x) \/ Reconcile(x)
             \/ \E w \in Hooks : RunWebhook(x, w)

(* A runner that moves leaves the others alone.                            *)
LEMMA OthersStand ==
  ASSUME Typed, NEW x \in Runners, Moving(x)
  PROVE  /\ UNCHANGED <<provider, profile>>
         /\ \A y \in Runners \ {x} : pc'[y] = pc[y] /\ run'[y] = run[y] /\ local'[y] = local[y]
<1> USE DEF Typed, RunnersTyped, context, runner
<1>1. CASE Begin(x) \/ Connect(x) \/ Fetch(x) \/ StorePage(x) \/ Process(x) \/ Finish(x)
  BY <1>1 DEF Begin, Connect, Fetch, StorePage, Process, Finish, Goto
<1>2. CASE BeginRefused(x) \/ Fail(x)
  BY <1>2 DEF BeginRefused, Fail, End, Goto
<1>3. CASE Drain(x)
  BY <1>3 DEF Drain, DrainNothing, DrainUninstall, DrainReserve, DrainRefused, Reserve, End, Goto
<1>4. CASE SyncNow(x) \/ Reconcile(x) \/ \E w \in Hooks : RunWebhook(x, w)
  BY <1>4 DEF SyncNow, Reconcile, RunWebhook, WebhookLeft, WebhookUninstalls, WebhookRefused,
              WebhookReserves, Reserve, Goto
<1>5. QED
  BY <1>1, <1>2, <1>3, <1>4 DEF Moving, Step

-----------------------------------------------------------------------------
(* The invariant holds.                                                    *)
LEMMA Moves ==
  ASSUME Next
  PROVE  \/ Environment
         \/ \E x \in Runners : \/ Step(x) \/ Fail(x) \/ SyncNow(x) \/ Reconcile(x)
                               \/ \E w \in Hooks : RunWebhook(x, w)
BY DEF Next, Environment

LEMMA Invariant == Spec => [](CoverInv /\ LockInv)
<1>1. Init => CoverInv /\ LockInv
  <2> SUFFICES ASSUME Init PROVE CoverInv /\ LockInv
    OBVIOUS
  <2>0. 0 \in 0..MaxClock /\ 1 \in 1..MaxClock
    BY SyncAssumption
  <2>1. RowTyped
    BY <2>0 DEF Init, RowTyped, Rows, Statuses
  <2>2. ProviderTyped /\ RecordsTyped
    BY <2>0 DEF Init, ProviderTyped, RecordsTyped, RecordRows, Nothing
  <2>3. RunnersTyped
    BY NewLocalTyped DEF Init, RunnersTyped, Places
  <2>4. RunsGoOn /\ DatesInOrder /\ RowCovers /\ RunsCover /\ PagesAreCurrent
    BY <2>0, NewLocalTyped DEF Init, RunsGoOn, DatesInOrder, RowCovers, RunsCover,
       PagesAreCurrent, AtRun, Nothing
  <2>5. LockInv
    BY DEF Init, LockInv, Holds
  <2>6. QED
    BY <2>1, <2>2, <2>3, <2>4, <2>5 DEF CoverInv, Typed
<1>2. ASSUME CoverInv, LockInv, [Next]_vars
      PROVE  CoverInv' /\ LockInv'
  <2>1. CASE UNCHANGED vars
    <3>1. UNCHANGED <<clock, updated, gone, conn, store, pc, run, local, profile>>
      BY <2>1 DEF vars, provider, runner, context
    <3>2. CoverInv'
      <4>1. Typed' /\ RunsGoOn' /\ DatesInOrder'
        BY <1>2, <3>1 DEF CoverInv, Typed, RowTyped, ProviderTyped, RecordsTyped, RunnersTyped,
           RunsGoOn, DatesInOrder
      <4>2. PagesKept
        BY <1>2, <3>1, NothingPaged DEF CoverInv, provider
      <4>3. \A y \in Runners : pc'[y] \in AtRun => Known(run'[y])
        BY <1>2, <3>1, OthersKnown
      <4>4. QED
        BY <1>2, <3>1, <4>1, <4>2, <4>3, RowKnown, CoverKept
    <3>3. LockInv'
      BY <1>2, <3>1 DEF LockInv, Holds, IsActive, Blocked
    <3>4. QED
      BY <3>2, <3>3
  <2>2. CASE Environment
    BY <1>2, <2>2, EnvironmentCovers, EnvironmentLocks DEF CoverInv
  <2>3. ASSUME NEW x \in Runners, \/ Step(x) \/ Fail(x) \/ SyncNow(x) \/ Reconcile(x)
                                  \/ \E w \in Hooks : RunWebhook(x, w)
        PROVE  CoverInv' /\ LockInv'
    <3>1. UNCHANGED profile
      BY <1>2, <2>3, OthersStand DEF CoverInv, Moving
    <3>2. QED
      BY <1>2, <2>3, <3>1, RunnerCovers, RunnerLocks DEF CoverInv
  <2>4. QED
    BY <1>2, <2>1, <2>2, <2>3, Moves
<1>3. QED
  BY <1>1, <1>2, PTL DEF Spec

-----------------------------------------------------------------------------
(* However runs fail, crash, are taken over and resumed, and whatever the  *)
(* provider changes meanwhile, the cursor a run leaves passes over nothing *)
(* of its window (synchronize, _begin_or_resume).                          *)
THEOREM NothingPassedOver == Spec => []CursorCoversPages
<1>1. CoverInv => CursorCoversPages
  BY DEF CoverInv, RowCovers, Covers, Over, CursorCoversPages, Listed
<1>2. QED
  BY <1>1, Invariant, PTL

(* No record goes back to an older content, whichever run stores it last   *)
(* (_upsert_records).                                                      *)
THEOREM NeverOlder == Spec => NoStaleOverwrite
<1>1. ASSUME CoverInv, [Next]_vars
      PROVE  [\A p \in Records : store'[p].content >= store[p].content]_vars
  <2>1. \A p \in Records : store[p].content \in Nat
    BY <1>1, SyncAssumption DEF CoverInv, Typed, RecordsTyped, RecordRows
  <2>2. CASE UNCHANGED vars
    BY <2>2
  <2>3. CASE Environment
    BY <1>1, <2>1, <2>3, EnvironmentMoves DEF PagesKept
  <2>4. ASSUME NEW x \in Runners, StorePage(x)
        PROVE  \A p \in Records : store'[p].content >= store[p].content
    BY <1>1, <2>1, <2>4, PageStored
  <2>5. ASSUME NEW x \in Runners, Process(x)
        PROVE  \A p \in Records : store'[p].content >= store[p].content
    BY <1>1, <2>1, <2>5, TombstonesKeepContent DEF Process, CoverInv
  <2>6. ASSUME NEW x \in Runners,
               \/ Begin(x) \/ BeginRefused(x) \/ Connect(x) \/ Fetch(x) \/ Finish(x)
               \/ Drain(x) \/ Fail(x) \/ SyncNow(x) \/ Reconcile(x)
               \/ \E w \in Hooks : RunWebhook(x, w)
        PROVE  UNCHANGED store
    BY <2>6 DEF Begin, BeginRefused, Connect, Fetch, Finish, Drain, Fail, SyncNow, Reconcile,
       RunWebhook
  <2>7. CASE \E x \in Runners : \/ Step(x) \/ Fail(x) \/ SyncNow(x) \/ Reconcile(x)
                                \/ \E w \in Hooks : RunWebhook(x, w)
    BY <2>1, <2>4, <2>5, <2>6, <2>7 DEF Step
  <2>8. QED
    BY <1>1, <2>2, <2>3, <2>7, Moves
<1>2. QED
  BY <1>1, Invariant, PTL DEF Spec, NoStaleOverwrite

(* The reservation of the row is a lock, for any number of runners, while  *)
(* no heartbeat is late (reserve, _begin_or_resume, _is_active_sync).      *)
THEOREM ReservationLocks == Spec => []OneRunAtATime
<1>1. ASSUME LockInv PROVE OneRunAtATime
  <2> DEFINE holding == {x \in Runners : pc[x] \notin {"idle", "drain"}}
  <2>1. ASSUME "late" \notin profile
        PROVE  Cardinality(holding) <= 1
    <3>1. \A x, y \in holding : x = y
      BY <1>1, <2>1 DEF LockInv, Holds
    <3>2. holding = {} \/ \E x \in Runners : holding = {x}
      BY <3>1
    <3>3. Cardinality({}) = 0 /\ \A x \in Runners : Cardinality({x}) = 1
      BY FS_EmptySet, FS_Singleton
    <3>4. QED
      BY <3>2, <3>3
  <2>2. QED
    BY <2>1 DEF OneRunAtATime
<1>2. QED
  BY <1>1, Invariant, PTL

-----------------------------------------------------------------------------
(* The snapshot                                                            *)

(* Records that differ from the dataset were stored by a run that has yet  *)
(* to hand them on.                                                        *)
WillHandOn(x) ==
  \/ pc[x] \in {"fetching", "arrived", "complete"} /\ local[x].changed
  \/ pc[x] = "materialising" /\ run[x].pending
SnapInv ==
  profile \cap {"failure", "crash"} = {} => dataset = Live \/ \E x \in Runners : WillHandOn(x)

LEMMA RunnerHandsOn ==
  ASSUME CoverInv, SnapInv, NEW x \in Runners, Moving(x)
  PROVE  SnapInv'
<1>1. /\ Typed /\ profile' = profile
      /\ \A y \in Runners \ {x} : pc'[y] = pc[y] /\ run'[y] = run[y] /\ local'[y] = local[y]
  BY OthersStand DEF CoverInv
<1>2. SUFFICES ASSUME profile \cap {"failure", "crash"} = {}
               PROVE  dataset' = Live' \/ \E y \in Runners : WillHandOn(y)'
  BY <1>1 DEF SnapInv
<1>3. \A y \in Runners \ {x} : WillHandOn(y) => WillHandOn(y)'
  BY <1>1 DEF WillHandOn
<1>4. ASSUME UNCHANGED <<store, dataset>>, WillHandOn(x) => WillHandOn(x)'
      PROVE  dataset' = Live' \/ \E y \in Runners : WillHandOn(y)'
  BY <1>2, <1>3, <1>4 DEF SnapInv, Live
<1>5. CASE Begin(x) \/ Connect(x) \/ BeginRefused(x) \/ Drain(x)
  BY <1>4, <1>5 DEF Begin, Connect, BeginRefused, Drain, WillHandOn
<1>6. CASE Fail(x) \/ SyncNow(x) \/ Reconcile(x) \/ \E w \in Hooks : RunWebhook(x, w)
  <2>1. UNCHANGED <<store, dataset>>
    BY <1>6 DEF Fail, SyncNow, Reconcile, RunWebhook
  <2>2. WillHandOn(x) => WillHandOn(x)'
    BY <1>2, <1>6 DEF Fail, SyncNow, Reconcile, RunWebhook, WebhookLeft, WebhookUninstalls,
       WebhookRefused, WebhookReserves, Reserve, WillHandOn, runner
  <2>3. QED
    BY <1>4, <2>1, <2>2
<1>7. CASE Fetch(x)
  <2>1. pc'[x] = "arrived" /\ local'[x].changed = local[x].changed /\ pc[x] = "fetching"
    BY <1>1, <1>7 DEF Fetch, Goto, Typed, RunnersTyped, Locals
  <2>2. QED
    BY <1>4, <1>7, <2>1 DEF Fetch, WillHandOn
<1>8. CASE StorePage(x)
  <2> DEFINE newer == Newer(local[x].page.record, local[x].page.content)
  <2>1. /\ pc[x] = "arrived" /\ pc'[x] \in {"fetching", "complete"}
        /\ local'[x].changed = (local[x].changed \/ newer)
        /\ dataset' = dataset /\ (~newer => store' = store)
    BY <1>1, <1>8 DEF StorePage, Goto, Typed, RunnersTyped, Locals
  <2>2. CASE newer
    BY <2>1, <2>2 DEF WillHandOn
  <2>3. CASE ~newer
    BY <1>4, <2>1, <2>3 DEF WillHandOn
  <2>4. QED
    BY <2>2, <2>3
<1>9. CASE Process(x)
  <2>1. /\ pc[x] = "complete" /\ pc'[x] = "materialising" /\ store' = Tombstoned
        /\ dataset' = dataset
        /\ run'[x].pending = (run[x].pending \/ ShouldMaterialize(x))
    <3>1. run[x] \in Cursor
      BY <1>9 DEF Process, CoverInv, RunsGoOn, AtRun
    <3>2. QED
      BY <1>1, <1>9, <3>1 DEF Process, Goto, Typed, RunnersTyped, Cursor
  <2>2. CASE local[x].changed \/ Tombstoned # store
    BY <2>1, <2>2 DEF ShouldMaterialize, WillHandOn
  <2>3. CASE ~(local[x].changed \/ Tombstoned # store)
    BY <1>4, <2>1, <2>3 DEF WillHandOn
  <2>4. QED
    BY <2>2, <2>3
<1>10. CASE Finish(x)
  <2>1. pc[x] = "materialising" /\ store' = store /\ dataset' = Materialized(x)
    BY <1>10 DEF Finish
  <2>2. CASE run[x].pending
    BY <2>1, <2>2 DEF Materialized, Live
  <2>3. CASE ~run[x].pending
    BY <1>4, <2>1, <2>3 DEF Materialized, WillHandOn
  <2>4. QED
    BY <2>2, <2>3
<1>11. QED
  BY <1>5, <1>6, <1>7, <1>8, <1>9, <1>10 DEF Moving, Step

LEMMA EnvironmentHandsOn ==
  ASSUME SnapInv, Environment
  PROVE  SnapInv'
<1>1. UNCHANGED <<store, dataset, profile>>
  BY DEF Environment, Tick, ProviderDeletes, ProviderChanges, Deliver, UserDisconnects,
     HeartbeatAges, Crash, context
<1>2. UNCHANGED runner \/ "crash" \in profile
  BY DEF Environment, Tick, ProviderDeletes, ProviderChanges, Deliver, UserDisconnects,
     HeartbeatAges, Crash
<1>3. QED
  BY <1>1, <1>2 DEF SnapInv, WillHandOn, Live, runner

(* Unless a run fails or crashes, the dataset is the records when the work *)
(* is done, for any number of runs that overlap (synchronize,              *)
(* _should_materialize).                                                   *)
THEOREM SnapshotIsStable == Spec => []SnapshotMatchesStore
<1>1. Init => SnapInv
  BY DEF Init, SnapInv, Live
<1>2. ASSUME CoverInv, SnapInv, [Next]_vars
      PROVE  SnapInv'
  <2>1. CASE UNCHANGED vars
    <3>1. UNCHANGED <<store, dataset, profile, pc, run, local>>
      BY <2>1 DEF vars, runner, context
    <3>2. QED
      BY <1>2, <3>1 DEF SnapInv, WillHandOn, Live
  <2>2. QED
    BY <1>2, <2>1, RunnerHandsOn, EnvironmentHandsOn, Moves DEF Moving
<1>3. SnapInv => SnapshotMatchesStore
  BY DEF SnapInv, SnapshotMatchesStore, Quiet, Working, WillHandOn
<1>4. QED
  BY <1>1, <1>2, <1>3, Invariant, PTL DEF Spec

-----------------------------------------------------------------------------
(* Deletions: the invariant                                                *)

(* Whoever has to do with the receipt of a deletion knows that the record  *)
(* is gone.                                                                *)
ToldOf(w) == \/ receipts[w] # "none" \/ w \in tasks
             \/ \E x \in Runners : w \in local[x].mine \/ w = local[x].first
Heard == DOMAIN receipts = Hooks /\ \A w \in Deletes : ToldOf(w) => 1 \in gone

(* The record is gone for good: no run has a page with it.                 *)
Dead ==
  /\ 1 \in gone /\ Live[1] = Nothing
  /\ \A x \in Runners : pc[x] = "arrived" => local[x].page.record # 1

(* The run in progress is the row's; during a drain only a user's run      *)
(* begins, without receipts.                                               *)
RunIsRow == \A x \in Runners : pc[x] \in AtRun => run[x] = conn.cursor
WhileDraining ==
  \A x, y \in Runners : pc[y] = "drain" /\ x # y =>
    pc[x] = "idle" \/ (pc[x] = "reserved" /\ local[x].mine = {})

(* The deletions a run has passed, and those it has yet to apply.          *)
Passed(w) ==
  \/ receipts[w] = "PROCESSED"
  \/ receipts[w] = "RECEIVED" /\ \E x \in Runners : pc[x] \in {"materialising", "drain"}
ToApply(x, w) == pc[x] # "materialising" /\ receipts[w] = "PROCESSING" /\ w \notin tasks
Landing ==
  /\ \A w \in Deletes : ~Passed(w)
  /\ \A x \in Runners : Holds(x) => \A w \in Deletes \cap local[x].mine : ToApply(x, w)

(* A deleted record that is still in the dataset makes the next run hand   *)
(* the records on.                                                         *)
DataGoes == Live[1] = Nothing /\ dataset[1] # Nothing => conn.cursor # NoRun /\ conn.cursor.pending
ReadyMeans == conn.status = "READY" => conn.cursor = NoRun

LandInv ==
  /\ Heard
  /\ "late" \notin profile =>
       RunIsRow /\ WhileDraining /\ (Dead \/ Landing) /\ DataGoes /\ ReadyMeans

-----------------------------------------------------------------------------
(* Deletions: a runner's steps                                             *)

InTime == CoverInv /\ LockInv /\ LandInv /\ "late" \notin profile

(* While one runner holds, no other does.                                  *)
LEMMA HoldsAlone ==
  ASSUME InTime, NEW x \in Runners, Holds(x)
  PROVE  /\ \A y \in Runners \ {x} : ~Holds(y)
         /\ conn.status \in {"SYNCING", "PROCESSING", "DISCONNECTED", "REAUTH_REQUIRED"}
BY DEF InTime, LockInv, IsActive, Blocked

(* A reservation is made when nobody holds, and keeps the row's run.       *)
LEMMA ReserveAlone ==
  ASSUME InTime, NEW x \in Runners, NEW first \in Hooks \cup {NoHook}, NEW mine \in SUBSET Hooks,
         Reserve(x, first, mine)
  PROVE  /\ \A y \in Runners : ~Holds(y)
         /\ pc'[x] = "reserved" /\ local'[x].mine = mine
         /\ receipts' = [w \in Hooks |-> IF w \in mine THEN "PROCESSING" ELSE receipts[w]]
         /\ conn'.status = "SYNCING" /\ (conn.cursor # NoRun => conn'.cursor = conn.cursor)
<1>1. \A y \in Runners : ~Holds(y)
  BY DEF InTime, LockInv, Reserve
<1>2. conn'.status = "SYNCING" /\ conn'.cursor = CurrentRun /\ pc'[x] = "reserved"
  BY Reserved DEF InTime, CoverInv, Typed, RunnersTyped
<1>3. local'[x].mine = mine
  BY DEF Reserve, NewLocal, InTime, CoverInv, Typed, RunnersTyped
<1>4. QED
  BY <1>1, <1>2, <1>3 DEF Reserve, Mark, CurrentRun

(* Whose step it is, and what it may do to the row and the receipts.       *)
Ending(x) == BeginRefused(x) \/ Fail(x)
Leaving(x) ==
  /\ pc[x] = "drain" /\ UNCHANGED <<store, dataset, tasks>>
  /\ DrainNothing(x) \/ DrainUninstall(x) \/ DrainRefused(x)
Reserving(x) ==
  \E first \in Hooks \cup {NoHook}, mine \in SUBSET Hooks :
    /\ Reserve(x, first, mine) /\ UNCHANGED <<store, dataset, run>>
    /\ \/ mine = {} /\ UNCHANGED tasks /\ first = NoHook
       \/ /\ mine = Waiting /\ pc[x] = "drain" /\ UNCHANGED tasks /\ first = local[x].first
       \/ \E w \in tasks : mine = {w} /\ first = w /\ tasks' = tasks \ {w} /\ LoopFree
Hooking(x) ==
  \E w \in Hooks \cap tasks :
    /\ LoopFree /\ tasks' = tasks \ {w} /\ UNCHANGED <<store, dataset, runner>>
    /\ WebhookLeft(w) \/ WebhookUninstalls(w) \/ WebhookRefused(w)

LEMMA MovesAre ==
  ASSUME Typed, NEW x \in Runners, Moving(x)
  PROVE  \/ Begin(x) \/ Connect(x) \/ Fetch(x) \/ StorePage(x) \/ Process(x) \/ Finish(x)
         \/ Ending(x) \/ Leaving(x) \/ Reserving(x) \/ Hooking(x)
<1>1. CASE Drain(x)
  <2>1. local[x].first \in Hooks \cup {NoHook} /\ Waiting \in SUBSET Hooks
    BY DEF Typed, RunnersTyped, Locals, Waiting
  <2>2. CASE DrainReserve(x)
    BY <1>1, <2>1, <2>2 DEF Drain, DrainReserve, Reserving
  <2>3. QED
    BY <1>1, <2>2 DEF Drain, Leaving
<1>2. CASE SyncNow(x) \/ Reconcile(x)
  BY <1>2 DEF SyncNow, Reconcile, Reserving
<1>3. ASSUME NEW w \in Hooks, RunWebhook(x, w)
      PROVE  Reserving(x) \/ Hooking(x)
  <2>1. CASE WebhookReserves(x, w)
    BY <1>3, <2>1 DEF RunWebhook, WebhookReserves, Reserving
  <2>2. CASE WebhookLeft(w) \/ WebhookUninstalls(w) \/ WebhookRefused(w)
    <3>1. UNCHANGED runner
      BY <2>2 DEF WebhookLeft, WebhookUninstalls, WebhookRefused
    <3>2. w \in tasks /\ LoopFree /\ tasks' = tasks \ {w} /\ UNCHANGED <<store, dataset>>
      BY <1>3 DEF RunWebhook
    <3>3. QED
      BY <2>2, <3>1, <3>2 DEF Hooking
  <2>3. QED
    BY <1>3, <2>1, <2>2 DEF RunWebhook
<1>4. QED
  BY <1>1, <1>2, <1>3 DEF Moving, Step, Ending

(* Only those already told of a deletion are told of it.                   *)
LEMMA RunnerHears ==
  ASSUME CoverInv, Heard, NEW x \in Runners, Moving(x)
  PROVE  Heard'
<1>1. /\ Typed /\ UNCHANGED provider /\ DOMAIN receipts = Hooks
      /\ \A y \in Runners \ {x} : local'[y] = local[y]
  BY OthersStand DEF CoverInv, Heard
<1>2. NewLocal.mine = {} /\ NewLocal.first = NoHook /\ NoHook \notin Hooks
  BY SyncAssumption DEF NewLocal
<1>3. SUFFICES DOMAIN receipts' = Hooks /\ \A w \in Deletes : ToldOf(w)' => ToldOf(w)
  BY <1>1 DEF Heard, provider
<1>4. ASSUME UNCHANGED tasks, NEW ws, NEW s, Mark(ws, s) \/ UNCHANGED receipts,
             \A w \in Deletes \cap ws : ToldOf(w),
             \A w \in Deletes : w \in local'[x].mine \/ w = local'[x].first => ToldOf(w)
      PROVE  DOMAIN receipts' = Hooks /\ \A w \in Deletes : ToldOf(w)' => ToldOf(w)
  <2>1. DOMAIN receipts' = Hooks /\ \A w \in Deletes : receipts'[w] # "none" => ToldOf(w)
    BY <1>1, <1>4, SyncAssumption DEF Mark, ToldOf
  <2>2. QED
    BY <1>1, <1>4, <2>1 DEF ToldOf
<1>5. CASE Begin(x) \/ Connect(x) \/ Fetch(x) \/ StorePage(x) \/ Process(x)
  <2>1. UNCHANGED hooks
    BY <1>5 DEF Begin, Connect, Fetch, StorePage, Process
  <2>2. local'[x].mine = local[x].mine /\ local'[x].first = local[x].first
    BY <1>1, <1>5 DEF Begin, Connect, Fetch, StorePage, Process, Typed, RunnersTyped, Locals
  <2>3. QED
    BY <1>4, <2>1, <2>2 DEF hooks, ToldOf
<1>6. CASE Finish(x)
  <2>1. Mark(local[x].mine, "PROCESSED") /\ UNCHANGED tasks
    BY <1>6 DEF Finish
  <2>2. local'[x].mine = {} /\ local'[x].first = local[x].first
    BY <1>1, <1>6 DEF Finish, Typed, RunnersTyped, Locals
  <2>3. QED
    BY <1>4, <2>1, <2>2 DEF ToldOf
<1>7. CASE Ending(x)
  <2>1. /\ Mark(local[x].mine \cup ({local[x].first} \ {NoHook}), "ERROR") /\ UNCHANGED tasks
        /\ local'[x] = NewLocal
    BY <1>1, <1>7 DEF Ending, BeginRefused, Fail, ErrorReceipts, End, Typed, RunnersTyped
  <2>2. QED
    BY <1>2, <1>4, <2>1, SyncAssumption DEF ToldOf
<1>8. CASE Leaving(x)
  <2>1. local'[x] = NewLocal
    BY <1>1, <1>8 DEF Leaving, DrainNothing, DrainUninstall, DrainRefused, End, Typed, RunnersTyped
  <2>2. UNCHANGED tasks
    BY <1>8 DEF Leaving
  <2>3. \A w \in Deletes : w \in local'[x].mine \/ w = local'[x].first => ToldOf(w)
    BY <1>2, <2>1, SyncAssumption
  <2>4. \A w \in Deletes : w \in Waiting \/ w \in local[x].mine \/ w = local[x].first => ToldOf(w)
    BY DEF Waiting, ToldOf
  <2>5. CASE DrainNothing(x)
    BY <1>4, <2>2, <2>3, <2>5 DEF DrainNothing
  <2>6. CASE DrainUninstall(x)
    BY <1>4, <2>2, <2>3, <2>4, <2>6 DEF DrainUninstall
  <2>7. CASE DrainRefused(x) /\ ErrorReceipts(x)
    <3>1. \A w \in Deletes \cap (local[x].mine \cup ({local[x].first} \ {NoHook})) : ToldOf(w)
      BY <2>4
    <3>2. QED
      BY <1>4, <2>2, <2>3, <2>7, <3>1 DEF ErrorReceipts
  <2>8. CASE DrainRefused(x) /\ Mark({local[x].first} \ {NoHook}, "RECEIVED")
    <3>1. \A w \in Deletes \cap ({local[x].first} \ {NoHook}) : ToldOf(w)
      BY <2>4
    <3>2. QED
      BY <1>4, <2>2, <2>3, <2>8, <3>1
  <2>9. QED
    BY <1>8, <2>5, <2>6, <2>7, <2>8 DEF Leaving, DrainRefused
<1>9. CASE Reserving(x)
  <2>1. PICK first \in Hooks \cup {NoHook}, mine \in SUBSET Hooks :
          /\ Reserve(x, first, mine) /\ tasks' \subseteq tasks
          /\ \A w \in Deletes : w \in mine \/ w = first => ToldOf(w)
    <3>1. ASSUME NEW first \in Hooks \cup {NoHook}, NEW mine \in SUBSET Hooks,
                 \/ mine = {} /\ UNCHANGED tasks /\ first = NoHook
                 \/ /\ mine = Waiting /\ UNCHANGED tasks /\ first = local[x].first
                 \/ \E w \in tasks : mine = {w} /\ first = w /\ tasks' = tasks \ {w}
          PROVE  tasks' \subseteq tasks /\ \A w \in Deletes : w \in mine \/ w = first => ToldOf(w)
      BY <1>2, <3>1, SyncAssumption DEF Waiting, ToldOf
    <3>2. QED
      BY <1>9, <3>1 DEF Reserving
  <2>2. local'[x].mine = mine /\ local'[x].first = first
    BY <1>1, <2>1, Reserved DEF Reserve, Typed, RunnersTyped, NewLocal
  <2>3. receipts' = [w \in Hooks |-> IF w \in mine THEN "PROCESSING" ELSE receipts[w]]
    BY <2>1 DEF Reserve, Mark
  <2>4. \A w \in Deletes : receipts'[w] # "none" => ToldOf(w)
    BY <2>1, <2>3, SyncAssumption DEF ToldOf
  <2>5. QED
    BY <1>1, <2>1, <2>2, <2>3, <2>4 DEF ToldOf
<1>10. CASE Hooking(x)
  <2>1. PICK w \in Hooks \cap tasks :
          /\ tasks' = tasks \ {w} /\ UNCHANGED runner
          /\ WebhookLeft(w) \/ WebhookUninstalls(w) \/ WebhookRefused(w)
    BY <1>10 DEF Hooking
  <2>2. UNCHANGED receipts \/ \E s : Mark({w}, s)
    BY <2>1 DEF WebhookLeft, WebhookUninstalls, WebhookRefused
  <2>3. DOMAIN receipts' = Hooks /\ \A d \in Hooks : d # w => receipts'[d] = receipts[d]
    BY <1>1, <2>2 DEF Mark
  <2>4. QED
    BY <2>1, <2>3, SyncAssumption DEF ToldOf, runner
<1>11. QED
  BY <1>1, <1>5, <1>6, <1>7, <1>8, <1>9, <1>10, MovesAre

(* While heartbeats are in time, the run in progress is the row's.         *)
LEMMA RunStaysRow ==
  ASSUME InTime, NEW x \in Runners, Moving(x)
  PROVE  RunIsRow' /\ ReadyMeans'
<1>1. /\ Typed /\ RunIsRow /\ ReadyMeans
      /\ \A y \in Runners \ {x} : pc'[y] = pc[y] /\ run'[y] = run[y]
  BY OthersStand DEF InTime, CoverInv, LandInv
<1>2. \A y \in Runners \ {x} : pc'[y] \in AtRun => Holds(y) /\ run[y] = conn.cursor
  BY <1>1 DEF Holds, AtRun, RunIsRow
<1>3. ASSUME Holds(x), pc'[x] \in AtRun => run'[x] = conn'.cursor
      PROVE  RunIsRow'
  BY <1>1, <1>2, <1>3, HoldsAlone DEF RunIsRow
<1>4. ASSUME conn'.cursor = conn.cursor, pc'[x] \notin AtRun
      PROVE  RunIsRow'
  BY <1>1, <1>2, <1>4 DEF RunIsRow
<1>5. CASE Begin(x)
  <2>1. Holds(x) /\ run'[x] = CurrentRun
    BY <1>1, <1>5 DEF Begin, Holds, Typed, RunnersTyped
  <2>2. conn'.cursor = CurrentRun /\ conn'.status = "SYNCING"
    BY <1>1, <1>5, RowAfterBegin DEF Begin
  <2>3. QED
    BY <1>3, <2>1, <2>2 DEF ReadyMeans
<1>6. CASE Connect(x) \/ Fetch(x)
  <2>1. pc[x] \in AtRun /\ Holds(x) /\ UNCHANGED <<conn, run>>
    BY <1>6 DEF Connect, Fetch, Holds, AtRun
  <2>2. QED
    BY <1>1, <1>3, <2>1 DEF RunIsRow, ReadyMeans
<1>7. CASE StorePage(x)
  <2>1. Holds(x) /\ run'[x] = conn'.cursor /\ conn'.status = conn.status
    BY <1>1, <1>7 DEF StorePage, Holds, Typed, RunnersTyped, RowTyped, Rows
  <2>2. QED
    BY <1>3, <2>1, HoldsAlone DEF ReadyMeans
<1>8. CASE Process(x)
  <2> DEFINE state == [run[x] EXCEPT !.pending = @ \/ ShouldMaterialize(x)]
  <2>1. Holds(x) /\ run[x] = conn.cursor /\ run[x] \in Cursor
    BY <1>1, <1>8 DEF Process, Holds, RunIsRow, AtRun, InTime, CoverInv, RunsGoOn
  <2>2. /\ run'[x] = state /\ conn'.status = "PROCESSING"
        /\ conn'.cursor = IF state.pending THEN state ELSE conn.cursor
    BY <1>1, <1>8 DEF Process, Typed, RunnersTyped, RowTyped, Rows
  <2>3. ~state.pending => state = run[x]
    BY <2>1 DEF Cursor, ShouldMaterialize
  <2>4. QED
    BY <1>3, <2>1, <2>2, <2>3 DEF ReadyMeans
<1>9. CASE Finish(x)
  <2>1. Holds(x) /\ pc'[x] = "drain" /\ conn'.cursor = NoRun
    BY <1>1, <1>9 DEF Finish, Goto, Holds, Typed, RunnersTyped, RowTyped, Rows
  <2>2. QED
    BY <1>3, <2>1 DEF ReadyMeans, AtRun
<1>10. CASE Ending(x)
  <2>1. /\ pc'[x] = "idle" /\ conn'.cursor = conn.cursor
        /\ conn' = conn \/ conn'.status # "READY"
    BY <1>1, <1>10 DEF Ending, BeginRefused, Fail, End, Goto, Typed, RunnersTyped, RowTyped, Rows
  <2>2. QED
    BY <1>1, <1>4, <2>1 DEF ReadyMeans, AtRun
<1>11. conn = conn' \/ conn' = Disconnected => conn'.cursor = conn.cursor /\ ReadyMeans'
  BY <1>1 DEF Disconnected, Typed, RowTyped, Rows, ReadyMeans
<1>12. CASE Leaving(x)
  <2>1. pc'[x] = "idle" /\ (conn = conn' \/ conn' = Disconnected)
    BY <1>1, <1>12 DEF Leaving, DrainNothing, DrainUninstall, DrainRefused, End, Goto, Typed, RunnersTyped
  <2>2. QED
    BY <1>4, <1>11, <2>1 DEF AtRun
<1>13. CASE Reserving(x)
  <2>1. /\ \A y \in Runners : ~Holds(y)
        /\ pc'[x] = "reserved" /\ conn'.status = "SYNCING"
    BY <1>13, ReserveAlone DEF Reserving
  <2>2. QED
    BY <1>1, <1>2, <2>1 DEF ReadyMeans, RunIsRow, AtRun
<1>14. CASE Hooking(x)
  <2>1. UNCHANGED runner /\ (conn = conn' \/ conn' = Disconnected)
    BY <1>14 DEF Hooking, WebhookLeft, WebhookUninstalls, WebhookRefused
  <2>2. QED
    BY <1>1, <1>11, <2>1 DEF runner, RunIsRow
<1>15. QED
  BY <1>1, <1>5, <1>6, <1>7, <1>8, <1>9, <1>10, <1>12, <1>13, <1>14, MovesAre

(* Nothing but a user's reservation happens during a drain.                *)
LEMMA DrainsAlone ==
  ASSUME InTime, NEW x \in Runners, Moving(x), Turn(x) \/ Reserving(x) \/ Hooking(x)
  PROVE  WhileDraining'
<1>1. /\ Typed /\ WhileDraining
      /\ \A y \in Runners \ {x} : pc'[y] = pc[y] /\ local'[y] = local[y]
  BY OthersStand DEF InTime, CoverInv, LandInv
<1>2. CASE Hooking(x)
  BY <1>1, <1>2 DEF Hooking, runner, WhileDraining
<1>3. CASE Reserving(x)
  <2>1. PICK first \in Hooks \cup {NoHook}, mine \in SUBSET Hooks :
          /\ Reserve(x, first, mine)
          /\ mine = {} \/ pc[x] = "drain" \/ LoopFree
    BY <1>3 DEF Reserving
  <2>2. /\ \A y \in Runners : ~Holds(y)
        /\ pc'[x] = "reserved" /\ local'[x].mine = mine
    BY <2>1, ReserveAlone
  <2>3. pc[x] = "drain" => \A y \in Runners \ {x} : pc[y] # "drain"
    BY <1>1 DEF WhileDraining
  <2>4. LoopFree => \A y \in Runners : pc[y] # "drain"
    BY DEF LoopFree, OnLoop
  <2>5. ASSUME NEW y \in Runners, NEW z \in Runners, pc'[y] = "drain", z # y
        PROVE  pc'[z] = "idle" \/ (pc'[z] = "reserved" /\ local'[z].mine = {})
    <3>1. y # x /\ pc[y] = "drain"
      BY <1>1, <2>2, <2>5
    <3>2. mine = {}
      BY <2>1, <2>3, <2>4, <3>1
    <3>3. QED
      BY <1>1, <2>2, <2>5, <3>1, <3>2 DEF WhileDraining
  <2>6. QED
    BY <2>5 DEF WhileDraining
<1>4. ASSUME Holds(x), Turn(x)
      PROVE  \A y \in Runners : pc[y] # "drain"
  <2>1. SUFFICES ASSUME NEW y \in Runners, pc[y] = "drain" PROVE FALSE
    OBVIOUS
  <2>2. y # x /\ pc[x] = "reserved"
    BY <1>1, <1>4, <2>1 DEF WhileDraining, Holds
  <2>3. QED
    BY <1>4, <2>1, <2>2 DEF Turn, LoopFree, OnLoop
<1>5. CASE /\ Holds(x) /\ Turn(x) /\ ~Reserving(x) /\ ~Hooking(x)
           /\ Begin(x) \/ Connect(x) \/ Fetch(x) \/ StorePage(x) \/ Process(x) \/ Ending(x)
  <2>1. pc'[x] # "drain"
    BY <1>1, <1>5 DEF Begin, Connect, Fetch, StorePage, Process, Ending, BeginRefused, Fail, End, Goto, Typed, RunnersTyped
  <2>2. QED
    BY <1>1, <1>4, <1>5, <2>1 DEF WhileDraining
<1>6. CASE Finish(x) /\ Turn(x)
  <2>1. Holds(x)
    BY <1>6 DEF Finish, Holds
  <2>2. \A y \in Runners \ {x} : pc'[y] = "idle"
    BY <1>1, <1>4, <1>6, <2>1, HoldsAlone DEF Holds
  <2>3. QED
    BY <2>2 DEF WhileDraining
<1>7. CASE Leaving(x)
  <2>1. pc[x] = "drain" /\ pc'[x] = "idle"
    BY <1>1, <1>7 DEF Leaving, DrainNothing, DrainUninstall, DrainRefused, End, Goto, Typed, RunnersTyped
  <2>2. \A y \in Runners : pc'[y] # "drain"
    BY <1>1, <2>1 DEF WhileDraining
  <2>3. QED
    BY <2>2 DEF WhileDraining
<1>8. Begin(x) \/ Connect(x) \/ Fetch(x) \/ StorePage(x) \/ Process(x) \/ Ending(x) => Holds(x)
  BY DEF Begin, Connect, Fetch, StorePage, Process, Ending, BeginRefused, Fail, Holds
<1>9. QED
  BY <1>1, <1>2, <1>3, <1>5, <1>6, <1>7, <1>8, MovesAre

(* A deletion that is not in the dataset yet stays pending.                *)
LEMMA DeletionStaysPending ==
  ASSUME InTime, NEW x \in Runners, Moving(x)
  PROVE  DataGoes'
<1>1. Typed /\ RunIsRow /\ DataGoes /\ 1 \in Records /\ ReadyMeans
  BY SyncAssumption DEF InTime, CoverInv, LandInv, Records
<1>2. ASSUME UNCHANGED <<store, dataset>>, conn'.cursor = conn.cursor \/ conn.cursor = NoRun
      PROVE  DataGoes'
  BY <1>1, <1>2 DEF DataGoes, Live
<1>3. CASE Begin(x)
  <2>1. conn'.cursor = CurrentRun /\ UNCHANGED <<store, dataset>>
    BY <1>1, <1>3, RowAfterBegin DEF Begin
  <2>2. QED
    BY <1>2, <2>1 DEF CurrentRun
<1>4. CASE Connect(x) \/ Fetch(x)
  BY <1>2, <1>4 DEF Connect, Fetch
<1>5. CASE StorePage(x)
  <2>1. run[x] = conn.cursor /\ run[x] \in Cursor
    BY <1>1, <1>5 DEF StorePage, RunIsRow, AtRun, InTime, CoverInv, RunsGoOn
  <2> DEFINE page == local[x].page
             state == Advanced(run[x], page)
  <2>2. /\ conn'.cursor = state /\ dataset' = dataset
        /\ store' = IF Newer(page.record, page.content)
                    THEN [store EXCEPT ![page.record] =
                            [content |-> page.content, deleted |-> FALSE]]
                    ELSE store
    BY <1>1, <1>5 DEF StorePage, Typed, RowTyped, Rows
  <2>3. Live'[1] = Nothing => Live[1] = Nothing
    BY <1>1, <2>2 DEF Live, Newer, Typed, RecordsTyped
  <2>4. state.pending = run[x].pending /\ state \in Cursor
    <3>1. page \in Answered
      BY <1>1 DEF Typed, RunnersTyped, Locals
    <3>2. QED
      BY <2>1, <3>1, AdvancedIs
  <2>5. QED
    BY <1>1, <2>1, <2>2, <2>3, <2>4, NoRunAssumption DEF DataGoes
<1>6. CASE Process(x)
  <2> DEFINE state == [run[x] EXCEPT !.pending = @ \/ ShouldMaterialize(x)]
  <2>1. run[x] = conn.cursor /\ run[x] \in Cursor
    BY <1>1, <1>6 DEF Process, RunIsRow, AtRun, InTime, CoverInv, RunsGoOn
  <2>2. /\ store' = Tombstoned /\ dataset' = dataset
        /\ conn'.cursor = IF state.pending THEN state ELSE conn.cursor
    BY <1>1, <1>6 DEF Process, Typed, RowTyped, Rows
  <2>3. state.pending = (run[x].pending \/ ShouldMaterialize(x)) /\ state \in Cursor
    BY <2>1 DEF Cursor, ShouldMaterialize
  <2>4. CASE Tombstoned # store
    BY <2>2, <2>3, <2>4, NoRunAssumption DEF ShouldMaterialize, DataGoes
  <2>5. CASE Tombstoned = store
    <3>1. UNCHANGED <<store, dataset>>
      BY <2>2, <2>5
    <3>2. QED
      BY <1>1, <2>1, <2>2, <2>3, <3>1, NoRunAssumption DEF DataGoes, Live
  <2>6. QED
    BY <2>4, <2>5
<1>7. CASE Finish(x)
  <2>1. run[x] = conn.cursor
    BY <1>1, <1>7 DEF Finish, RunIsRow, AtRun
  <2>2. store' = store /\ dataset' = Materialized(x)
    BY <1>7 DEF Finish
  <2>3. CASE run[x].pending
    BY <2>2, <2>3 DEF Materialized, DataGoes, Live
  <2>4. CASE ~run[x].pending
    BY <1>1, <2>1, <2>2, <2>4 DEF Materialized, DataGoes, Live
  <2>5. QED
    BY <2>3, <2>4
<1>8. CASE Ending(x)
  BY <1>1, <1>2, <1>8 DEF Ending, BeginRefused, Fail, Typed, RowTyped, Rows
<1>9. conn' = conn \/ conn' = Disconnected => conn'.cursor = conn.cursor
  BY <1>1 DEF Disconnected, Typed, RowTyped, Rows
<1>10. CASE Leaving(x)
  BY <1>2, <1>9, <1>10 DEF Leaving, DrainNothing, DrainUninstall, DrainRefused
<1>11. CASE Reserving(x)
  BY <1>2, <1>11, ReserveAlone DEF Reserving
<1>12. CASE Hooking(x)
  BY <1>2, <1>9, <1>12 DEF Hooking, WebhookLeft, WebhookUninstalls, WebhookRefused
<1>13. QED
  BY <1>1, <1>3, <1>4, <1>5, <1>6, <1>7, <1>8, <1>10, <1>11, <1>12, MovesAre

(* A record gone for good stays so: no run has a page with it.             *)
LEMMA DeadStays ==
  ASSUME CoverInv, Dead, NEW x \in Runners, Moving(x)
  PROVE  Dead'
<1>1. /\ Typed /\ UNCHANGED provider /\ 1 \in Records
      /\ \A y \in Runners \ {x} : pc'[y] = pc[y] /\ run'[y] = run[y] /\ local'[y] = local[y]
  BY OthersStand, SyncAssumption DEF CoverInv, Records
<1>2. ASSUME Live'[1] = Nothing, pc'[x] = "arrived" => local'[x].page.record # 1
      PROVE  Dead'
  BY <1>1, <1>2 DEF Dead, provider
<1>3. ASSUME UNCHANGED store, pc'[x] # "arrived"
      PROVE  Dead'
  BY <1>2, <1>3 DEF Dead, Live
<1>4. CASE Begin(x) \/ Connect(x) \/ Finish(x)
  BY <1>1, <1>3, <1>4 DEF Begin, Connect, Finish, Goto, Typed, RunnersTyped
<1>5. CASE Ending(x) \/ Leaving(x)
  BY <1>1, <1>3, <1>5 DEF Ending, BeginRefused, Fail, Leaving, DrainNothing, DrainUninstall, DrainRefused,
                          End, Goto, Typed, RunnersTyped
<1>6. CASE Reserving(x)
  BY <1>1, <1>3, <1>6, Reserved DEF Reserving, Typed, RunnersTyped
<1>7. CASE Hooking(x)
  <2>1. UNCHANGED <<store, pc, run, local>>
    BY <1>7 DEF Hooking, runner
  <2>2. QED
    BY <1>2, <2>1 DEF Dead, Live
<1>8. CASE Fetch(x)
  <2>0. PICK page \in Answers(run[x]) : local' = [local EXCEPT ![x].page = page]
    BY <1>8 DEF Fetch
  <2>1. local'[x].page.record # 1
    <3>1. local'[x].page = page
      BY <1>1, <2>0 DEF Typed, RunnersTyped, Locals
    <3>2. 1 \notin Rest(run[x])
      BY DEF Rest, Listed, Dead
    <3>3. page.record # 1
      BY <1>1, <3>2, AnswerIs DEF Typed, EmptyPage
    <3>4. QED
      BY <3>1, <3>3
  <2>2. UNCHANGED <<store, run>>
    BY <1>8 DEF Fetch
  <2>3. QED
    BY <1>2, <2>1, <2>2 DEF Dead, Live
<1>9. CASE StorePage(x)
  <2> DEFINE page == local[x].page
  <2>1. /\ pc[x] = "arrived" /\ pc'[x] # "arrived"
        /\ store' = IF Newer(page.record, page.content)
                    THEN [store EXCEPT ![page.record] =
                            [content |-> page.content, deleted |-> FALSE]]
                    ELSE store
    BY <1>1, <1>9 DEF StorePage, Goto, Typed, RunnersTyped
  <2>2. page.record # 1
    BY <2>1 DEF Dead
  <2>3. store'[1] = store[1]
    BY <1>1, <2>1, <2>2 DEF Typed, RecordsTyped
  <2>4. QED
    BY <1>1, <1>2, <2>1, <2>3 DEF Dead, Live
<1>10. CASE Process(x)
  <2>1. pc'[x] # "arrived" /\ store' = Tombstoned
    BY <1>1, <1>10 DEF Process, Goto, Typed, RunnersTyped
  <2>2. Live'[1] = Nothing
    BY <1>1, <2>1 DEF Tombstoned, Live, Dead, Typed, RecordsTyped, RecordRows
  <2>3. QED
    BY <1>2, <2>1, <2>2
<1>11. QED
  BY <1>1, <1>4, <1>5, <1>6, <1>7, <1>8, <1>9, <1>10, MovesAre

(* A run that finds a deletion announced makes the record dead.            *)
LEMMA ProcessKills ==
  ASSUME InTime, NEW x \in Runners, Process(x), PendingTombstones # {}
  PROVE  Dead'
<1>1. /\ Typed /\ UNCHANGED provider /\ Holds(x) /\ 1 \in Records
      /\ \A y \in Runners \ {x} : pc'[y] = pc[y]
  <2>1. Typed /\ UNCHANGED provider /\ Holds(x) /\ 1 \in Records
    BY SyncAssumption DEF InTime, CoverInv, Process, Holds, Records
  <2>2. QED
    BY <2>1 DEF Process, Goto, Typed, RunnersTyped
<1>2. \A y \in Runners : pc'[y] # "arrived"
  BY <1>1, HoldsAlone DEF Process, Goto, Holds, Typed, RunnersTyped
<1>3. 1 \in gone
  BY DEF InTime, LandInv, Heard, PendingTombstones, ToldOf
<1>4. store' = Tombstoned
  BY DEF Process
<1>5. Live'[1] = Nothing
  BY <1>1, <1>4 DEF Tombstoned, Live, Typed, RecordsTyped, RecordRows
<1>6. QED
  BY <1>1, <1>2, <1>3, <1>5 DEF Dead, provider

(* Until then, no run has passed a deletion, and those that a run took up  *)
(* wait for it.                                                            *)
LEMMA LandingStays ==
  ASSUME InTime, Landing, ~Dead', NEW x \in Runners, Moving(x)
  PROVE  Landing'
<1>1. /\ Typed /\ WhileDraining
      /\ \A y \in Runners \ {x} : pc'[y] = pc[y] /\ local'[y] = local[y]
  BY OthersStand DEF InTime, CoverInv, LandInv
<1>2. /\ Deletes \subseteq Hooks /\ Deletes \cap Uninstalls = {}
      /\ \A w \in Deletes : receipts[w] # "PROCESSED"
      /\ \A w \in Deletes : receipts[w] = "RECEIVED" =>
           \A y \in Runners : pc[y] # "materialising" /\ pc[y] # "drain"
  BY SyncAssumption DEF Landing, Passed
<1>3. ASSUME Holds(x), pc'[x] # "drain", pc'[x] # "materialising",
             \A w \in Deletes : \/ receipts'[w] = receipts[w]
                                \/ receipts'[w] = "ERROR" /\ ~Holds(x)',
             tasks' = tasks, Holds(x)' => local'[x].mine = local[x].mine
      PROVE  Landing'
  <2>1. ASSUME NEW w \in Deletes PROVE ~Passed(w)'
    BY <1>1, <1>2, <1>3, <2>1 DEF Passed
  <2>2. ASSUME NEW y \in Runners, Holds(y)', NEW w \in Deletes, w \in local'[y].mine
        PROVE  ToApply(y, w)'
    <3>1. y = x
      BY <1>1, <1>3, <2>2, HoldsAlone DEF Holds
    <3>2. ToApply(x, w)
      BY <1>3, <2>2, <3>1 DEF Landing
    <3>3. QED
      BY <1>3, <2>2, <3>1, <3>2 DEF ToApply
  <2>3. QED
    BY <2>1, <2>2 DEF Landing
<1>4. CASE Begin(x) \/ Connect(x) \/ Fetch(x) \/ StorePage(x)
  <2>1. Holds(x) /\ UNCHANGED hooks /\ pc'[x] # "drain" /\ pc'[x] # "materialising"
    BY <1>1, <1>4 DEF Begin, Connect, Fetch, StorePage, Holds, Goto, Typed, RunnersTyped
  <2>2. local'[x].mine = local[x].mine
    BY <1>1, <1>4 DEF Begin, Connect, Fetch, StorePage, Typed, RunnersTyped, Locals
  <2>3. QED
    BY <1>3, <2>1, <2>2 DEF hooks
<1>5. CASE Process(x)
  <2>1. \A w \in Deletes : receipts[w] # "RECEIVED" /\ receipts[w] # "PROCESSING"
    BY <1>5, ProcessKills DEF PendingTombstones
  <2>2. Holds(x) /\ UNCHANGED <<hooks, local>>
    BY <1>5 DEF Process, Holds
  <2>3. \A w \in Deletes : ~Passed(w)'
    BY <1>2, <2>1, <2>2 DEF Passed, hooks
  <2>4. \A w \in Deletes : w \notin local[x].mine
    BY <2>1, <2>2 DEF Landing, ToApply
  <2>5. QED
    BY <1>1, <2>2, <2>3, <2>4, HoldsAlone DEF Landing, Holds
<1>6. CASE Finish(x)
  <2>1. /\ Holds(x) /\ pc[x] = "materialising" /\ pc'[x] = "drain"
        /\ Mark(local[x].mine, "PROCESSED") /\ tasks' = tasks
    BY <1>1, <1>6 DEF Finish, Holds, Goto, Typed, RunnersTyped
  <2>2. \A w \in Deletes : w \notin local[x].mine /\ receipts[w] # "RECEIVED"
    BY <1>2, <2>1 DEF Landing, ToApply
  <2>3. \A w \in Deletes : receipts'[w] = receipts[w]
    BY <1>2, <2>1, <2>2 DEF Mark
  <2>4. \A w \in Deletes : ~Passed(w)'
    BY <1>2, <2>2, <2>3 DEF Passed
  <2>5. \A y \in Runners : ~Holds(y)'
    BY <1>1, <2>1, HoldsAlone DEF Holds
  <2>6. QED
    BY <2>4, <2>5 DEF Landing
<1>7. CASE Ending(x)
  <2>1. /\ Holds(x) /\ pc'[x] = "idle" /\ tasks' = tasks
        /\ Mark(local[x].mine \cup ({local[x].first} \ {NoHook}), "ERROR")
    BY <1>1, <1>7 DEF Ending, BeginRefused, Fail, ErrorReceipts, End, Goto, Holds, Typed, RunnersTyped
  <2>2. ~Holds(x)'
    BY <2>1 DEF Holds
  <2>3. \A w \in Deletes : receipts'[w] = receipts[w] \/ receipts'[w] = "ERROR"
    BY <1>2, <2>1 DEF Mark
  <2>4. QED
    BY <1>3, <2>1, <2>2, <2>3
<1>8. ASSUME pc[x] = "drain", \A y \in Runners : pc'[y] # "drain" /\ pc'[y] # "materialising",
             \A w \in Deletes : receipts'[w] # "PROCESSED",
             \A w \in Deletes : w \notin local'[x].mine
      PROVE  Landing'
  <2>1. \A y \in Runners \ {x} : pc'[y] = "idle" \/ local'[y].mine = {}
    BY <1>1, <1>8 DEF WhileDraining
  <2>2. QED
    BY <1>8, <2>1 DEF Landing, Passed, Holds
<1>9. pc[x] = "drain" => \A y \in Runners \ {x} : pc'[y] # "drain" /\ pc'[y] # "materialising"
  BY <1>1 DEF WhileDraining
<1>10. pc[x] = "drain" => \A w \in Deletes : w \notin Waiting
  BY <1>2 DEF Waiting
<1>11. CASE Leaving(x)
  <2>1. /\ pc[x] = "drain" /\ pc'[x] = "idle" /\ local'[x].mine = {}
    <3>1. pc[x] = "drain" /\ pc'[x] = "idle" /\ local'[x] = NewLocal
      BY <1>1, <1>11 DEF Leaving, DrainNothing, DrainUninstall, DrainRefused, End, Goto, Typed, RunnersTyped
    <3>2. QED
      BY <3>1 DEF NewLocal
  <2>2. \A w \in Deletes : receipts'[w] # "PROCESSED"
    <3>1. CASE DrainNothing(x)
      BY <1>2, <3>1 DEF DrainNothing
    <3>2. CASE DrainUninstall(x)
      BY <1>2, <1>10, <2>1, <3>2 DEF DrainUninstall, Mark
    <3>3. CASE DrainRefused(x)
      BY <1>2, <3>3 DEF DrainRefused, ErrorReceipts, Mark
    <3>4. QED
      BY <1>11, <3>1, <3>2, <3>3 DEF Leaving
  <2>3. QED
    BY <1>8, <1>9, <2>1, <2>2
<1>12. CASE Reserving(x)
  <2>1. PICK first \in Hooks \cup {NoHook}, mine \in SUBSET Hooks :
          /\ Reserve(x, first, mine)
          /\ \/ mine = {} /\ tasks' = tasks
             \/ mine = Waiting /\ pc[x] = "drain"
             \/ \E w \in tasks : mine = {w} /\ tasks' = tasks \ {w}
    BY <1>12 DEF Reserving
  <2>2. /\ \A y \in Runners : ~Holds(y)
        /\ pc'[x] = "reserved" /\ local'[x].mine = mine
        /\ receipts' = [w \in Hooks |-> IF w \in mine THEN "PROCESSING" ELSE receipts[w]]
    BY <2>1, ReserveAlone
  <2>3. /\ \A w \in Deletes : receipts'[w] # "PROCESSED"
        /\ \A w \in Deletes : w \in mine => receipts'[w] = "PROCESSING"
        /\ \A w \in Deletes : receipts'[w] = "RECEIVED" => receipts[w] = "RECEIVED"
    BY <1>2, <2>2
  <2>4. CASE mine = Waiting /\ pc[x] = "drain"
    BY <1>8, <1>9, <1>10, <2>2, <2>3, <2>4
  <2>5. CASE mine = {} \/ \E w \in tasks : mine = {w} /\ tasks' = tasks \ {w}
    <3>1. \A w \in Deletes : ~Passed(w)'
      BY <1>1, <1>2, <2>2, <2>3 DEF Passed
    <3>2. \A w \in Deletes : w \in mine => ToApply(x, w)'
      BY <2>2, <2>3, <2>5 DEF ToApply
    <3>3. \A y \in Runners \ {x} : ~Holds(y)'
      BY <1>1, <2>2 DEF Holds
    <3>4. QED
      BY <2>2, <3>1, <3>2, <3>3 DEF Landing
  <2>6. QED
    BY <2>1, <2>4, <2>5
<1>13. CASE Hooking(x)
  <2>1. PICK w \in Hooks \cap tasks :
          /\ tasks' = tasks \ {w} /\ UNCHANGED <<pc, local>>
          /\ WebhookLeft(w) \/ WebhookUninstalls(w) \/ WebhookRefused(w)
    BY <1>13 DEF Hooking, runner
  <2>2. \A d \in Deletes : \/ receipts'[d] = receipts[d]
                           \/ d = w /\ receipts'[d] = "ERROR"
    BY <1>2, <2>1 DEF WebhookLeft, WebhookUninstalls, WebhookRefused, Uninstalling, Mark
  <2>3. \A d \in Deletes : ~Passed(d)'
    BY <1>2, <2>1, <2>2 DEF Passed
  <2>4. ASSUME NEW y \in Runners, Holds(y), NEW d \in Deletes, d \in local[y].mine
        PROVE  ToApply(y, d)'
    <3>1. ToApply(y, d) /\ d # w
      BY <2>1, <2>4 DEF Landing, ToApply
    <3>2. QED
      BY <2>1, <2>2, <3>1 DEF ToApply
  <2>5. QED
    BY <2>1, <2>3, <2>4 DEF Landing, Holds
<1>14. QED
  BY <1>1, <1>4, <1>5, <1>6, <1>7, <1>11, <1>12, <1>13, MovesAre

(* The environment: a receipt is delivered once the record is gone, and    *)
(* none during a drain.                                                    *)
LEMMA EnvironmentLands ==
  ASSUME CoverInv, LockInv, LandInv, Environment
  PROVE  LandInv'
<1>1. /\ gone \subseteq gone' /\ profile' = profile /\ conn'.cursor = conn.cursor
      /\ UNCHANGED <<store, dataset>>
      /\ UNCHANGED runner \/ (\A y \in Runners : pc'[y] = "idle" /\ local'[y] = NewLocal)
      /\ conn'.status = conn.status \/ conn'.status = "DISCONNECTED"
  <2>1. gone \subseteq gone' /\ conn'.cursor = conn.cursor
    BY EnvironmentMoves DEF PagesKept
  <2>2. UNCHANGED <<store, dataset, profile>>
    BY DEF Environment, Tick, ProviderDeletes, ProviderChanges, Deliver, UserDisconnects,
       HeartbeatAges, Crash, context
  <2>3. UNCHANGED runner \/ (\A y \in Runners : pc'[y] = "idle" /\ local'[y] = NewLocal)
    BY DEF Environment, Tick, ProviderDeletes, ProviderChanges, Deliver, UserDisconnects,
       HeartbeatAges, Crash
  <2>4. conn'.status = conn.status \/ conn'.status = "DISCONNECTED"
    BY DEF Environment, Tick, ProviderDeletes, ProviderChanges, Deliver, UserDisconnects,
       HeartbeatAges, Crash, Disconnected, CoverInv, Typed, RowTyped, Rows
  <2>5. QED
    BY <2>1, <2>2, <2>3, <2>4
<1>2. NewLocal.mine = {} /\ NewLocal.first = NoHook /\ NoHook \notin Hooks /\ Deletes \subseteq Hooks
  BY SyncAssumption DEF NewLocal
<1>3. CASE UNCHANGED <<receipts, tasks>>
  <2>1. Heard'
    BY <1>1, <1>2, <1>3 DEF LandInv, Heard, ToldOf, runner
  <2>2. ASSUME Dead PROVE Dead'
    BY <1>1, <2>2 DEF Dead, Live, runner
  <2>3. ASSUME Landing PROVE Landing'
    BY <1>1, <1>3, <2>3 DEF Landing, Passed, ToApply, Holds, runner
  <2>4. ASSUME "late" \notin profile
        PROVE  RunIsRow' /\ WhileDraining' /\ DataGoes' /\ ReadyMeans'
    BY <1>1, <2>4 DEF LandInv, RunIsRow, WhileDraining, DataGoes, ReadyMeans, Live, AtRun, runner
  <2>5. QED
    BY <1>1, <2>1, <2>2, <2>3, <2>4 DEF LandInv
<1>4. ASSUME NEW w \in Hooks, Deliver(w) PROVE LandInv'
  <2>1. /\ UNCHANGED <<gone, conn, store, dataset, pc, run, local, profile>> /\ tasks' = tasks \cup {w}
        /\ LoopFree /\ (w \in Deletes => 1 \in gone)
        /\ receipts[w] \in {"none", "ERROR"}
        /\ \A d \in Hooks : d # w => receipts'[d] = receipts[d]
        /\ receipts'[w] \in {"RECEIVED", "ERROR"} /\ DOMAIN receipts' = Hooks
    BY <1>4 DEF Deliver, NewReceipt, RepeatedDelivery, provider, runner, context, LandInv, Heard
  <2>2. Heard'
    BY <1>2, <2>1 DEF LandInv, Heard, ToldOf
  <2>3. ASSUME Dead PROVE Dead'
    BY <2>1, <2>3 DEF Dead, Live
  <2>4. ASSUME Landing PROVE Landing'
    <3>1. \A y \in Runners : pc[y] \notin {"materialising", "drain"}
      BY <2>1 DEF LoopFree, OnLoop
    <3>2. \A d \in Deletes : ~Passed(d)'
      BY <1>2, <2>1, <2>4, <3>1 DEF Landing, Passed
    <3>3. ASSUME NEW y \in Runners, Holds(y), NEW d \in Deletes, d \in local[y].mine
          PROVE  ToApply(y, d)'
      <4>1. ToApply(y, d) /\ d # w
        BY <2>1, <2>4, <3>3 DEF Landing, ToApply
      <4>2. QED
        BY <1>2, <2>1, <4>1 DEF ToApply
    <3>4. QED
      BY <2>1, <3>2, <3>3 DEF Landing, Holds
  <2>5. QED
    BY <2>1, <2>2, <2>3, <2>4 DEF LandInv, RunIsRow, WhileDraining, DataGoes, ReadyMeans, Live
<1>5. CASE ~\E w \in Hooks : Deliver(w)
  <2>1. UNCHANGED <<receipts, tasks>> \/ (UNCHANGED receipts /\ tasks' = {} /\ Crash)
    BY <1>5 DEF Environment, Tick, ProviderDeletes, ProviderChanges, UserDisconnects,
       HeartbeatAges, Crash, hooks
  <2>2. CASE UNCHANGED <<receipts, tasks>>
    BY <1>3, <2>2
  <2>3. CASE UNCHANGED receipts /\ tasks' = {} /\ Crash
    <3>1. \A y \in Runners : pc'[y] = "idle" /\ local'[y] = NewLocal
      BY <2>3 DEF Crash
    <3>2. Heard'
      BY <1>1, <1>2, <2>3, <3>1 DEF LandInv, Heard, ToldOf
    <3>3. Dead => Dead'
      BY <1>1, <3>1 DEF Dead, Live
    <3>4. Landing => Landing'
      BY <2>3, <3>1 DEF Landing, Passed, Holds
    <3>5. RunIsRow' /\ WhileDraining'
      BY <3>1 DEF RunIsRow, WhileDraining, AtRun
    <3>6. (DataGoes => DataGoes') /\ (ReadyMeans => ReadyMeans')
      BY <1>1 DEF DataGoes, ReadyMeans, Live
    <3>7. QED
      BY <1>1, <3>2, <3>3, <3>4, <3>5, <3>6 DEF LandInv
  <2>4. QED
    BY <2>1, <2>2, <2>3
<1>6. QED
  BY <1>4, <1>5

(* The invariant of the deletions is inductive.                            *)
LEMMA NextLands ==
  ASSUME CoverInv, LockInv, LandInv, [Next]_vars
  PROVE  LandInv'
<1>1. CASE UNCHANGED vars
  <2>1. UNCHANGED <<gone, conn, store, dataset, receipts, tasks, pc, run, local, profile>>
    BY <1>1 DEF vars, provider, hooks, runner, context
  <2>2. Heard'
    BY <2>1 DEF LandInv, Heard, ToldOf
  <2>3. (Dead => Dead') /\ (Landing => Landing')
    BY <2>1 DEF Dead, Landing, Passed, ToApply, Holds, Live
  <2>4. (RunIsRow => RunIsRow') /\ (WhileDraining => WhileDraining')
        /\ (DataGoes => DataGoes') /\ (ReadyMeans => ReadyMeans')
    BY <2>1 DEF RunIsRow, WhileDraining, DataGoes, ReadyMeans, Live
  <2>5. QED
    BY <2>1, <2>2, <2>3, <2>4 DEF LandInv
<1>2. CASE Environment
  BY <1>2, EnvironmentLands
<1>3. ASSUME NEW x \in Runners, Moving(x), Turn(x) \/ Reserving(x) \/ Hooking(x)
      PROVE  LandInv'
  <2>1. Heard' /\ profile' = profile
    BY <1>3, RunnerHears, OthersStand DEF LandInv, CoverInv
  <2>2. ASSUME "late" \notin profile
        PROVE  RunIsRow' /\ WhileDraining' /\ (Dead \/ Landing)' /\ DataGoes' /\ ReadyMeans'
    <3>1. InTime
      BY <2>2 DEF InTime
    <3>2. RunIsRow' /\ ReadyMeans'
      BY <1>3, <3>1, RunStaysRow
    <3>3. WhileDraining' /\ DataGoes'
      BY <1>3, <3>1, DrainsAlone, DeletionStaysPending
    <3>4. Dead' \/ Landing'
      BY <1>3, <2>2, <3>1, DeadStays, LandingStays DEF LandInv
    <3>5. QED
      BY <3>2, <3>3, <3>4
  <2>3. QED
    BY <2>1, <2>2 DEF LandInv
<1>4. ASSUME NEW x \in Runners, SyncNow(x) \/ Reconcile(x) \/ \E w \in Hooks : RunWebhook(x, w)
      PROVE  Reserving(x) \/ Hooking(x)
  <2>1. CASE SyncNow(x) \/ Reconcile(x)
    BY <2>1 DEF SyncNow, Reconcile, Reserving
  <2>2. ASSUME NEW w \in Hooks, RunWebhook(x, w), WebhookReserves(x, w)
        PROVE  Reserving(x)
    BY <2>2 DEF RunWebhook, WebhookReserves, Reserving
  <2>3. ASSUME NEW w \in Hooks, RunWebhook(x, w), ~WebhookReserves(x, w)
        PROVE  Hooking(x)
    BY <2>3 DEF RunWebhook, WebhookLeft, WebhookUninstalls, WebhookRefused, Hooking
  <2>4. QED
    BY <1>4, <2>1, <2>2, <2>3
<1>5. ASSUME NEW x \in Runners,
             \/ Step(x) \/ (Turn(x) /\ Fail(x)) \/ SyncNow(x) \/ Reconcile(x)
             \/ \E w \in Hooks : RunWebhook(x, w)
      PROVE  Moving(x) /\ (Turn(x) \/ Reserving(x) \/ Hooking(x))
  BY <1>4, <1>5 DEF Moving, Step
<1>6. QED
  BY <1>1, <1>2, <1>3, <1>5 DEF Next, Environment

(* A deletion whose receipt is PROCESSED is in the records, and in the     *)
(* dataset of a store that is ready, whatever fails or crashes while no    *)
(* heartbeat is late (_apply_pending_tombstones, the cursor's pending).    *)
THEOREM DeletionsLand == Spec => []TombstonesLand
<1>1. Init => LandInv
  <2>1. SUFFICES ASSUME Init PROVE LandInv
    OBVIOUS
  <2>2. Heard
    BY <2>1, SyncAssumption DEF Init, Heard, ToldOf, NewLocal
  <2>3. Landing
    BY <2>1, SyncAssumption DEF Init, Landing, Passed, Holds
  <2>4. RunIsRow /\ WhileDraining /\ DataGoes /\ ReadyMeans
    BY <2>1, SyncAssumption DEF Init, RunIsRow, WhileDraining, DataGoes, ReadyMeans, AtRun, Records
  <2>5. QED
    BY <2>2, <2>3, <2>4 DEF LandInv
<1>2. CoverInv /\ LockInv /\ LandInv /\ [Next]_vars => LandInv'
  BY NextLands
<1>3. LandInv => TombstonesLand
  <2>1. SUFFICES ASSUME LandInv, "late" \notin profile, NEW w \in Deletes, receipts[w] = "PROCESSED"
                 PROVE  Live[1] = Nothing /\ (conn.status = "READY" => dataset[1] = Nothing)
    BY DEF TombstonesLand
  <2>2. Dead
    BY <2>1 DEF LandInv, Landing, Passed
  <2>3. QED
    BY <2>1, <2>2 DEF Dead, LandInv, DataGoes, ReadyMeans
<1>4. QED
  BY <1>1, <1>2, <1>3, Invariant, PTL DEF Spec
=============================================================================
