--------------------------- MODULE CalendarBooking ---------------------------
(***************************************************************************)
(* Appointments of one company (crm_service.py): requests that create,     *)
(* change, cancel and delete them under a lock that the transaction holds, *)
(* while they ask and tell Google Calendar, and the import of its events.  *)
(***************************************************************************)
EXTENDS Availability, FiniteSets

CONSTANTS
  Requests,  \* requests handled at once: users, copilot, calls
  Keys,      \* idempotency keys
  NoKey,
  Few,       \* what is asked for, and moved at Google, when the lock may not last
  Profiles   \* what may happen besides: sets of the following
             \*   "expired"  Google's access token expires (401)
             \*   "status"   an update that is tested names a status too
             \*   "amend"    an update names neither start, nor employee, nor duration
             \*   "import"   the owner changes events at Google and imports them
             \*   "loss"     an answer of Google, or the process, is lost

ASSUME BookingAssumption ==
  /\ Few \subseteq Wanted /\ Ids \subseteq Nat \ {0} /\ NoKey \notin Keys
  /\ Profiles \subseteq SUBSET {"expired", "status", "amend", "import", "loss"}

VARIABLES
  row,     \* committed rows of crm_appointments
  lock,    \* requests whose transaction holds the advisory lock
  conn,    \* the calendar connection's status
  google,  \* events at Google
  req,     \* a request's step, the row it found, what it read and will write
  import,  \* an import's step and the events it was listed
  profile  \* what may happen besides; it never changes

imports == <<import, profile>>
vars == <<row, lock, conn, google, req, import, profile>>

None == 0
Blank == [status |-> "none", what |-> CHOOSE a \in Wanted : TRUE, key |-> NoKey, event |-> None]
NoEvent == [used |-> FALSE, on |-> FALSE, what |-> Blank.what]
Rest == [pc |-> "idle", op |-> "none", id |-> None, found |-> Blank, old |-> Blank,
         new |-> Blank, answer |-> "none"]

Init ==
  /\ row = [i \in Ids |-> Blank]
  /\ lock = {}
  /\ conn \in {"none", "connected"}
  /\ google = [e \in Ids |-> NoEvent]
  /\ req = [r \in Requests |-> Rest]
  /\ import = [pc |-> "idle", seen |-> google]
  /\ profile \in Profiles

(* The lock lasts until the request ends; bounds for when it does not.     *)
Locked == profile \cap {"expired", "import"} = {}
MayWant == IF Locked THEN Wanted ELSE Few
MayName == IF "import" \in profile THEN {NoKey} ELSE Keys \cup {NoKey}
MayStart == "import" \in profile => \A r \in Requests : req[r].pc = "idle"

Live == {i \in Ids : row[i].status = "confirmed"}
Present == {i \in Ids : row[i].status \in {"confirmed", "cancelled"}}
Others(i) == {row[j].what : j \in Live \ {i}}

-----------------------------------------------------------------------------
(* A request's start: the lock, the row and the local test                 *)

LockFree == lock = {}

Begin(r, step, op, i, new) ==
  /\ req[r].pc = "idle" /\ LockFree /\ MayStart
  /\ lock' = lock \cup {r}
  /\ req' = [req EXCEPT ![r] = [pc |-> step, op |-> op, id |-> i, found |-> row[i],
                                old |-> row[i], new |-> new, answer |-> "none"]]
  /\ UNCHANGED <<row, conn, google, imports>>

(* Google is asked unless no calendar is connected; a connection that      *)
(* needs its owner, or is importing, refuses the booking.                  *)
AfterTest == IF conn = "none" THEN "flush" ELSE "busy"
MayAsk == conn \notin {"revoked", "syncing"}

Unused(i) == row[i].status = "none" /\ \A r \in Requests : req[r].id # i

Create(r, a, k) ==
  /\ k # NoKey => \A i \in Present : row[i].key # k
  /\ ~BookingConflict(a, Others(None)) /\ MayAsk
  /\ \E i \in Ids :
       /\ Unused(i) /\ \A j \in Ids : Unused(j) => i <= j
       /\ Begin(r, AfterTest, "create", i,
                [status |-> "confirmed", what |-> a, key |-> k, event |-> None])

(* A start, an employee or a duration is tested, whatever the status named. *)
Renamed(i) == IF "status" \in profile THEN {"confirmed", "cancelled"} ELSE {row[i].status}

Move(r, i, s, a) ==
  /\ i \in Present /\ a.service = row[i].what.service
  /\ s \in Renamed(i) /\ (a # row[i].what \/ s # row[i].status)
  /\ ~BookingConflict(a, Others(i)) /\ MayAsk
  /\ Begin(r, AfterTest, "move", i, [row[i] EXCEPT !.status = s, !.what = a])

(* A status or an end alone is written without a test.                     *)
Amend(r, i, s, a) ==
  /\ "amend" \in profile /\ i \in Present
  /\ [a EXCEPT !.end = row[i].what.end] = row[i].what
  /\ Begin(r, "calendar", "move", i, [row[i] EXCEPT !.status = s, !.what = a])

Cancel(r, i) ==
  /\ i \in Present
  /\ row[i].status = "confirmed" \/ row[i].event # None
  /\ Begin(r, "calendar", "cancel", i, [row[i] EXCEPT !.status = "cancelled"])

Delete(r, i) ==
  /\ i \in Present
  /\ Begin(r, "calendar", "delete", i, [row[i] EXCEPT !.status = "deleted"])

-----------------------------------------------------------------------------
(* A request's steps                                                       *)

(* The unit of work writes the columns that differ from what was read.     *)
Written(now, q) == [f \in DOMAIN now |-> IF q.new[f] = q.old[f] THEN now[f] ELSE q.new[f]]
Commit(q) == row' = [row EXCEPT ![q.id] = Written(@, q)]

StaysLocked(r) == UNCHANGED lock   \* mutant
Unlock(r) == lock' = lock \ {r}

End(r, answer) == Unlock(r) /\ req' = [req EXCEPT ![r] = [Rest EXCEPT !.answer = answer]]

(* Google's events, the company's own included, take the time of everybody.*)
GoogleBusy(q) ==
  \E e \in Ids : /\ google[e].on
                 /\ Opened(q.new.what) < google[e].what.end
                 /\ google[e].what.start < Closed(q.new.what)

(* _external_busy.  Storing a refreshed token, or healing the connection,  *)
(* is a commit: it ends the transaction and its lock.                      *)
Busy(r) ==
  /\ req[r].pc = "busy"
  /\ \/ /\ ~GoogleBusy(req[r])
        /\ req' = [req EXCEPT ![r].pc = "flush"]
        /\ \/ conn # "error" /\ UNCHANGED <<conn, lock>>
           \/ (conn = "error" \/ "expired" \in profile) /\ conn' = "connected" /\ Unlock(r)
     \/ /\ End(r, "failed")
        /\ conn' \in {conn} \cup (IF "expired" \in profile THEN {"connected", "error", "revoked"} ELSE {})
  /\ UNCHANGED <<row, google, imports>>

(* The insertion is flushed: a key is unique, deleted rows included, and a *)
(* pending row of the same key is waited for.                              *)
Inserting(s, k) == req[s].pc = "calendar" /\ req[s].op = "create" /\ req[s].new.key = k
Flush(r) ==
  LET k == IF req[r].op = "create" THEN req[r].new.key ELSE NoKey IN
  /\ req[r].pc = "flush"
  /\ IF k # NoKey /\ \E i \in Ids : row[i].key = k
     THEN End(r, "failed")
     ELSE /\ k # NoKey => \A s \in Requests : ~Inserting(s, k)
          /\ req' = [req EXCEPT ![r].pc = "calendar"]
          /\ UNCHANGED lock
  /\ UNCHANGED <<row, conn, google, imports>>

-----------------------------------------------------------------------------
(* _sync_to_external_calendar                                              *)

Reachable == conn \in {"connected", "error"}
Tells(q) == q.op = "create" \/ q.old.event # None

(* No calendar, or no event of it: only the row is written.                *)
Silent(r) ==
  LET q == req[r] IN
  /\ q.pc = "calendar"
  /\ IF q.op = "create" THEN ~Reachable ELSE q.old.event = None /\ conn # "revoked"
  /\ Commit(q) /\ End(r, "done")
  /\ UNCHANGED <<conn, google, imports>>

(* The event a request is about, and what it becomes: an update of one that *)
(* is gone (404) is taken for done.                                         *)
Target(q) ==
  IF q.op = "create"
  THEN {e \in Ids : ~google[e].used /\ \A d \in Ids : ~google[d].used => e <= d}
  ELSE {q.old.event}
Heard(q, e) ==
  CASE q.op = "create" -> [used |-> TRUE, on |-> TRUE, what |-> q.new.what]
    [] q.op = "move" -> IF google[e].on THEN [google[e] EXCEPT !.what = q.new.what] ELSE google[e]
    [] OTHER -> [google[e] EXCEPT !.on = FALSE]

KeepsEvent(q, e) == e   \* mutant
EventAfter(q, e) == IF q.op \in {"create", "move"} THEN e ELSE None

Tell(r) ==
  LET q == req[r] IN
  /\ Reachable /\ Tells(q)
  /\ \E e \in Target(q) :
       /\ google' = [google EXCEPT ![e] = Heard(q, e)]
       /\ row' = [row EXCEPT ![q.id] = [Written(@, q) EXCEPT !.event = EventAfter(q, e)]]
  /\ conn' = "connected"
  /\ End(r, "done")
  /\ UNCHANGED imports

(* Google refuses, or cannot be told: only a new appointment is kept.      *)
Kept(q) == q.op = "create"
NotUndone(q) == Commit(q)   \* mutant
Undone(q) == UNCHANGED row

(* An answer lost is a failure too; delete_event asks twice.               *)
Unheard(q) ==
  \/ UNCHANGED google
  \/ /\ "loss" \in profile /\ q.pc \in {"calendar", "again"} /\ Reachable /\ Tells(q)
     /\ \E e \in Target(q) : google' = [google EXCEPT ![e] = Heard(q, e)]

TellFails(r) ==
  LET q == req[r] IN
  /\ IF q.op = "create" THEN Reachable ELSE q.old.event # None \/ conn = "revoked"
  /\ IF Kept(q) THEN Commit(q) /\ End(r, "done") ELSE Undone(q) /\ End(r, "failed")
  /\ Unheard(q)
  /\ UNCHANGED <<conn, imports>>

(* 401: the refreshed token is committed, and with it all that is pending; *)
(* then Google is told again, and whatever it answers is too late.         *)
Refresh(r) ==
  LET q == req[r] IN
  /\ "expired" \in profile /\ q.pc = "calendar" /\ Reachable /\ Tells(q)
  /\ IF q.op = "delete" THEN UNCHANGED row ELSE Commit(q)
  /\ \/ /\ conn' = "connected" /\ Unlock(r)
        /\ req' = [req EXCEPT ![r].pc = "again",
                              ![r].old = IF q.op = "delete" THEN @ ELSE q.new]
     \/ /\ conn' \in {"error", "revoked"}
        /\ End(r, IF q.op = "create" THEN "done" ELSE "failed")
  /\ UNCHANGED <<google, imports>>

AgainFails(r) ==
  /\ conn' = "error"
  /\ End(r, IF req[r].op = "create" THEN "done" ELSE "failed")
  /\ Unheard(req[r])
  /\ UNCHANGED <<row, imports>>

Calendar(r) ==
  \/ req[r].pc = "calendar" /\ (Tell(r) \/ TellFails(r))
  \/ req[r].pc = "again" /\ (Tell(r) \/ AgainFails(r))
  \/ Silent(r) \/ Refresh(r)

(* The transaction is lost; Google may have heard of it.                   *)
Crash(r) ==
  LET q == req[r] IN
  /\ "loss" \in profile /\ q.pc # "idle"
  /\ Unheard(q)
  /\ Unlock(r) /\ req' = [req EXCEPT ![r] = Rest]
  /\ UNCHANGED <<row, conn, imports>>

-----------------------------------------------------------------------------
(* sync_from_google, and the owner's changes at Google                     *)

StartImport ==
  /\ "import" \in profile /\ import.pc = "idle" /\ conn # "none"
  /\ conn' = "syncing"
  /\ import' = [import EXCEPT !.pc = "list"]
  /\ UNCHANGED <<row, lock, google, req, profile>>

List ==
  /\ import.pc = "list"
  /\ import' = [pc |-> "apply", seen |-> google]
  /\ UNCHANGED <<row, lock, conn, google, req, profile>>

Found(e) == {i \in Ids : row[i].event = e}

(* The listing does not ask for deleted events.                            *)
Listed == {e \in Ids : import.seen[e].on}
NewEvents == {e \in Listed : Found(e) = {}}

(* The branch for an event listed as cancelled is never met.               *)
Imported(i) ==
  LET now == row[i]
      e == import.seen[now.event] IN
  IF now.event \notin Listed \/ now.status = "deleted" THEN now
  ELSE [now EXCEPT !.status = "confirmed", !.what.start = e.what.start, !.what.end = e.what.end]

(* One client attends a new event; its key, like any, is unique.           *)
Apply ==
  /\ import.pc = "apply" /\ LockFree
  /\ \E new \in SUBSET NewEvents, at \in [NewEvents -> Ids] :
       /\ \A e \in new : Unused(at[e]) /\ \A i \in Ids : row[i].key # e
       /\ \A e, d \in new : e # d => at[e] # at[d]
       /\ row' = [i \in Ids |->
            IF \E e \in new : at[e] = i
            THEN LET e == CHOOSE e \in new : at[e] = i
                     a == import.seen[e].what IN
                 [status |-> "confirmed", key |-> e, event |-> e,
                  what |-> [a EXCEPT !.service = NoService, !.employee = NoOne]]
            ELSE Imported(i)]
  /\ conn' = "connected"
  /\ import' = [import EXCEPT !.pc = "idle"]
  /\ UNCHANGED <<lock, google, req, profile>>

ImportFails ==
  /\ import.pc \in {"list", "apply"}
  /\ conn' \in {"error"} \cup (IF "expired" \in profile THEN {"revoked"} ELSE {})
  /\ import' = [import EXCEPT !.pc = "idle"]
  /\ UNCHANGED <<row, lock, google, req, profile>>

OwnerEdits(e) ==
  /\ "import" \in profile
  /\ \/ /\ ~google[e].used /\ \A d \in Ids : ~google[d].used => e <= d
        /\ \E a \in MayWant : google' = [google EXCEPT ![e] =
                                          [used |-> TRUE, on |-> TRUE, what |-> a]]
     \/ /\ google[e].on
        /\ \/ google' = [google EXCEPT ![e].on = FALSE]
           \/ \E a \in MayWant : google' = [google EXCEPT ![e].what = a]
  /\ UNCHANGED <<row, lock, conn, req, imports>>

-----------------------------------------------------------------------------
Ask(r) ==
  \/ \E a \in MayWant, k \in MayName : Create(r, a, k)
  \/ \E i \in Ids, a \in MayWant :
       \E s \in {"confirmed", "cancelled"} : Move(r, i, s, a) \/ Amend(r, i, s, a)
  \/ \E i \in Ids : Cancel(r, i) \/ Delete(r, i)

Proceed(r) == Busy(r) \/ Flush(r) \/ Calendar(r)
Import == List \/ Apply \/ ImportFails

Next == \/ \E r \in Requests : Ask(r) \/ Proceed(r) \/ Crash(r)
        \/ StartImport \/ Import
        \/ \E e \in Ids : OwnerEdits(e)

Spec == Init /\ [][Next]_vars

(* Google answers or times out; PostgreSQL hands the lock on in turn.      *)
LiveSpec == Spec /\ (\A r \in Requests : WF_vars(Proceed(r))) /\ SF_vars(List \/ Apply)

-----------------------------------------------------------------------------
(* Type invariant: an event at Google has at most one row.                 *)
BookingTypeOK ==
  /\ lock \subseteq Requests /\ Cardinality(lock) <= 1
  /\ conn \in {"none", "connected", "error", "revoked", "syncing"}
  /\ \A r \in Requests :
       /\ req[r].pc \in {"idle", "busy", "flush", "calendar", "again"}
       /\ r \in lock => req[r].pc # "idle"
  /\ \A i \in Ids : /\ row[i].status \in {"none", "confirmed", "cancelled", "deleted"}
                    /\ row[i].event # None => google[row[i].event].used
                    /\ \A j \in Ids \ {i} : row[i].event = None \/ row[j].event # row[i].event

(* No two confirmed appointments need the same person at once              *)
(* (check_booking_conflict under the lock).                                *)
NoDoubleBooking == \A i, j \in Live : i # j => ~Clash(row[i].what, row[j].what)

(* A request that answers with a failure has changed nothing, while no     *)
(* refreshed token and no healed connection ends its transaction.          *)
FailedChangesNothing ==
  [][\A r \in Requests :
       (req[r].pc # "idle" /\ req'[r].answer = "failed" /\ Locked)
       => row'[req[r].id] = req[r].found]_vars

(* Whatever happens, an event is of at most one appointment; and if nothing *)
(* is lost or expires and only the CRM changes events, what Google shows is *)
(* what the CRM has: each event is of an appointment, at its time, and of a *)
(* confirmed one, unless an update named its status (update_appointment     *)
(* then leaves a cancelled appointment its event).                          *)
CalendarAgrees ==
  /\ \A i, j \in Ids : i # j => row[i].event = None \/ row[j].event # row[i].event
  /\ profile \subseteq {"status"} =>
       /\ \A i \in Ids : row[i].event # None =>
            /\ i \in Present /\ (profile = {} => i \in Live)
            /\ google[row[i].event].on /\ google[row[i].event].what = row[i].what
       /\ \A e \in Ids : google[e].on => Found(e) # {}

(* Every request and every import ends.                                    *)
RequestsEnd == /\ \A r \in Requests : []<>(req[r].pc = "idle")
               /\ []<>(import.pc = "idle")

-----------------------------------------------------------------------------
(* The booked appointments are an agenda, however requests interleave and  *)
(* whatever is lost, while each is tested and the lock lasts.              *)
A == INSTANCE Agenda WITH
       agenda <- [i \in {j \in Live : Locked /\ "amend" \notin profile} |-> row[i].what]
ImplementsAgenda == A!Spec
=============================================================================
