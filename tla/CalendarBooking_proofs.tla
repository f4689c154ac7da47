------------------------ MODULE CalendarBooking_proofs ------------------------
(***************************************************************************)
(* The requests of CalendarBooking implement Agenda, for any services,     *)
(* employees, working hours, ids, keys and number of requests, and with    *)
(* answers and processes lost, while every change is tested and the        *)
(* transaction's lock lasts, so nobody is double booked; a failed request  *)
(* changes nothing; and events at Google belong to one appointment each,   *)
(* whatever is lost.                                                       *)
(***************************************************************************)
EXTENDS CalendarBooking, TLAPS

(* The longest buffers the query uses are the longest.                     *)
LEMMA Longest ==
  /\ MaxBefore \in Nat /\ \A s \in Services : Before[s] <= MaxBefore
  /\ MaxAfter \in Nat /\ \A s \in Services : After[s] <= MaxAfter
<1>1. \E m \in {Before[s] : s \in Services} : \A s \in Services : Before[s] <= m
  BY ServicesAssumption
<1>2. \E m \in {After[s] : s \in Services} : \A s \in Services : After[s] <= m
  BY ServicesAssumption
<1>3. MaxBefore \in {Before[s] : s \in Services} /\ \A s \in Services : Before[s] <= MaxBefore
  BY <1>1 DEF MaxBefore
<1>4. MaxAfter \in {After[s] : s \in Services} /\ \A s \in Services : After[s] <= MaxAfter
  BY <1>2 DEF MaxAfter
<1>5. QED
  BY <1>3, <1>4, ServicesAssumption

(* What check_booking_conflict lets pass clashes with none of the others.  *)
LEMMA NoConflictNoClash ==
  ASSUME NEW a \in Appointments, NEW others \in SUBSET Appointments,
         ~BookingConflict(a, others), NEW b \in others
  PROVE  ~Clash(a, b)
<1>1. /\ a.start \in Int /\ a.end \in Int /\ b.start \in Int /\ b.end \in Int
      /\ a.service \in Services /\ b.service \in Services
  BY DEF Appointments
<1>2. /\ Before[a.service] \in Nat /\ After[a.service] \in Nat
      /\ Before[b.service] \in Nat /\ After[b.service] \in Nat
  BY <1>1, ServicesAssumption
<1>3. /\ Before[b.service] <= MaxBefore /\ MaxBefore \in Nat
      /\ After[b.service] <= MaxAfter /\ MaxAfter \in Nat
  BY <1>1, Longest
<1>4. Opened(a) \in Int /\ Closed(a) \in Int
  BY <1>1, <1>2 DEF Opened, Closed
<1>5. (Opened(a) < Closed(b) /\ Opened(b) < Closed(a))
      => /\ Selected(b, Opened(a), Closed(a))
         /\ Opened(a) < Closed(b) /\ Closed(a) > Opened(b)
  BY <1>1, <1>2, <1>3, <1>4 DEF Selected, Opened, Closed
<1>6. SameStaff(a, b) => Concerns(b, a.employee)
  BY DEF SameStaff, Concerns
<1>7. QED
  BY <1>5, <1>6 DEF Clash, BookingConflict, CheckConflict

(* Two appointments clash, whichever is named first.                       *)
LEMMA ClashIsSymmetric ==
  ASSUME NEW a, NEW b
  PROVE  Clash(a, b) <=> Clash(b, a)
BY DEF Clash, SameStaff

-----------------------------------------------------------------------------
(* The inductive invariant, of the behaviours in which every change is     *)
(* tested and the lock lasts.                                              *)

Guarded == Locked /\ "amend" \notin profile

Statuses == {"none", "confirmed", "cancelled", "deleted"}
Rows == [status : Statuses, what : Wanted \cup {Blank.what},
         key : Keys \cup {NoKey}, event : Ids \cup {None}]
Reqs == [pc : {"idle", "busy", "flush", "calendar"},
         op : {"none", "create", "move", "cancel", "delete"}, id : Ids \cup {None},
         found : Rows, old : Rows, new : Rows, answer : {"none", "done", "failed"}]

Typed ==
  /\ row \in [Ids -> Rows] /\ req \in [Requests -> Reqs]
  /\ \A i \in Live : row[i].what \in Wanted
  /\ conn \in {"none", "connected"} /\ import.pc = "idle"

(* Who works holds the lock, alone.                                        *)
OneWorks ==
  /\ lock \subseteq Requests /\ \A r, s \in lock : r = s
  /\ \A r \in Requests : req[r].pc # "idle" <=> r \in lock

(* What it read is what the row still is, and what it will write fits.     *)
Fits(q) ==
  /\ q.id \in Ids /\ q.old = row[q.id]
  /\ \/ /\ q.op = "create" /\ q.old.status = "none" /\ q.new.status = "confirmed"
        /\ q.new.what \in Wanted
        /\ \A j \in Live : ~Clash(q.new.what, row[j].what)
     \/ /\ q.op = "move" /\ q.new = [q.old EXCEPT !.status = q.new.status, !.what = q.new.what]
        /\ q.new.status \in {"confirmed", "cancelled"}
        /\ "status" \notin profile => q.new.status = q.old.status
        /\ q.new.what \in Wanted
        /\ \A j \in Live \ {q.id} : ~Clash(q.new.what, row[j].what)
     \/ q.op \in {"cancel", "delete"} /\ q.new.status # "confirmed"

IInv == Typed /\ OneWorks /\ \A r \in lock : Fits(req[r])

-----------------------------------------------------------------------------
(* The kinds of steps                                                      *)

Calm == conn' \in {"none", "connected"} /\ UNCHANGED imports

Starts(r, q) ==
  /\ req[r].pc = "idle" /\ lock = {} /\ lock' = {r}
  /\ req' = [req EXCEPT ![r] = q] /\ q \in Reqs /\ q.pc # "idle" /\ Fits(q)
  /\ UNCHANGED row

Advances(r, p) ==
  /\ req[r].pc # "idle" /\ p \in {"flush", "calendar"}
  /\ req' = [req EXCEPT ![r].pc = p]
  /\ UNCHANGED <<row, lock>>

Ends(r, x) ==
  /\ req[r].pc # "idle" /\ lock' = lock \ {r}
  /\ req' = [req EXCEPT ![r] = [Rest EXCEPT !.answer = x]] /\ x \in {"none", "done", "failed"}

Writes(q, e) == row' = [row EXCEPT ![q.id] = [q.new EXCEPT !.event = e]] /\ e \in Ids \cup {None}

Kind ==
  \/ UNCHANGED <<row, lock, req>>
  \/ \E r \in Requests :
       \/ \E q \in Reqs : Starts(r, q)
       \/ \E p \in {"flush", "calendar"} : Advances(r, p)
       \/ \E x \in {"none", "done", "failed"} :
            Ends(r, x) /\ (UNCHANGED row \/ \E e \in Ids \cup {None} : Writes(req[r], e))

(* A blank row is a row, and a resting request a request.                  *)
LEMMA Blanks == Blank \in Rows /\ \A x \in {"none", "done", "failed"} : [Rest EXCEPT !.answer = x] \in Reqs
<1>1. Blank \in Rows
  BY DEF Blank, Rows, Statuses
<1>2. QED
  BY <1>1 DEF Rest, Reqs

(* What a request wrote is what it meant to write.                         *)
LEMMA WrittenIsNew ==
  ASSUME NEW now \in Rows, NEW q \in Reqs, q.old = now
  PROVE  Written(now, q) = q.new
<1>1. DOMAIN now = {"status", "what", "key", "event"} /\ q.new \in Rows
  BY DEF Rows, Reqs
<1>2. q.new = [f \in {"status", "what", "key", "event"} |-> q.new[f]]
  BY <1>1 DEF Rows
<1>3. Written(now, q) = [f \in {"status", "what", "key", "event"} |-> q.new[f]]
  BY <1>1 DEF Written
<1>4. QED
  BY <1>2, <1>3

(* A committed change is a write of one row.                               *)
LEMMA CommitWrites ==
  ASSUME IInv, NEW r \in lock
  PROVE  /\ Commit(req[r]) => Writes(req[r], req[r].new.event)
         /\ \A e \in Ids \cup {None} :
              row' = [row EXCEPT ![req[r].id] = [Written(@, req[r]) EXCEPT !.event = e]]
              => Writes(req[r], e)
<1> DEFINE q == req[r]
<1>1. q \in Reqs /\ q.id \in Ids /\ q.old = row[q.id] /\ row[q.id] \in Rows /\ q.new \in Rows
  BY DEF IInv, Typed, OneWorks, Fits, Reqs
<1>2. Written(row[q.id], q) = q.new
  BY <1>1, WrittenIsNew
<1>3. q.new = [q.new EXCEPT !.event = q.new.event] /\ q.new.event \in Ids \cup {None}
  BY <1>1 DEF Rows
<1>4. Commit(q) => Writes(q, q.new.event)
  BY <1>2, <1>3 DEF Commit, Writes
<1>5. QED
  BY <1>2, <1>4 DEF Writes

-----------------------------------------------------------------------------
(* Every step of a guarded behaviour is of one of the kinds.               *)

(* A request starts with the row it read and a change that fits.           *)
LEMMA AskStarts ==
  ASSUME IInv, Guarded, NEW r \in Requests, Ask(r)
  PROVE  Kind /\ Calm
<1>1. /\ row \in [Ids -> Rows] /\ "amend" \notin profile /\ MayWant \subseteq Wanted
      /\ MayName \subseteq Keys \cup {NoKey}
      /\ conn \in {"none", "connected"}
  BY BookingAssumption DEF IInv, Typed, Guarded, Locked, MayWant, MayName
<1>2. \A i \in Ids : Others(i) \in SUBSET Appointments
  BY <1>1, WantedAssumption DEF IInv, Typed, Others
<1>3. Others(None) \in SUBSET Appointments /\ \A j \in Live : row[j].what \in Others(None)
  BY WantedAssumption, BookingAssumption DEF IInv, Typed, Others, None, Live
<1>4. ASSUME NEW step \in {"busy", "flush", "calendar"}, NEW op, NEW i \in Ids, NEW new \in Rows,
             Begin(r, step, op, i, new), op \in {"create", "move", "cancel", "delete"},
             Fits([pc |-> step, op |-> op, id |-> i, found |-> row[i], old |-> row[i],
                   new |-> new, answer |-> "none"])
      PROVE  Kind /\ Calm
  <2> DEFINE q == [pc |-> step, op |-> op, id |-> i, found |-> row[i], old |-> row[i],
                   new |-> new, answer |-> "none"]
  <2>1. q \in Reqs
    BY <1>1, <1>4 DEF Reqs
  <2>2. Starts(r, q)
    BY <1>4, <2>1 DEF Begin, LockFree, Starts
  <2>3. Calm
    BY <1>1, <1>4 DEF Begin, Calm
  <2>4. QED
    BY <2>1, <2>2, <2>3 DEF Kind
<1>5. AfterTest \in {"busy", "flush", "calendar"}
  BY DEF AfterTest
<1>6. ASSUME NEW a \in MayWant, NEW k \in MayName, Create(r, a, k)
      PROVE  Kind /\ Calm
  <2> DEFINE new == [status |-> "confirmed", what |-> a, key |-> k, event |-> None]
  <2>1. PICK i \in Ids : Unused(i) /\ Begin(r, AfterTest, "create", i, new)
    BY <1>6 DEF Create
  <2>2. new \in Rows /\ a \in Wanted /\ a \in Appointments
    BY <1>1, WantedAssumption DEF Rows, Statuses
  <2>3. \A j \in Live : ~Clash(a, row[j].what)
    BY <1>3, <1>6, <2>2, NoConflictNoClash DEF Create
  <2>4. row[i].status = "none"
    BY <2>1 DEF Unused
  <2>5. Fits([pc |-> AfterTest, op |-> "create", id |-> i, found |-> row[i], old |-> row[i],
              new |-> new, answer |-> "none"])
    BY <2>2, <2>3, <2>4 DEF Fits
  <2>6. QED
    BY <1>4, <1>5, <2>1, <2>2, <2>5
<1>7. ASSUME NEW i \in Ids, NEW a \in MayWant, NEW s \in {"confirmed", "cancelled"},
             Move(r, i, s, a)
      PROVE  Kind /\ Calm
  <2> DEFINE new == [row[i] EXCEPT !.status = s, !.what = a]
  <2>1. /\ new \in Rows /\ a \in Wanted /\ a \in Appointments
        /\ new.what = a /\ new.status = s
    BY <1>1, WantedAssumption DEF Rows, Statuses
  <2>2. \A j \in Live \ {i} : row[j].what \in Others(i)
    BY DEF Others
  <2>3. \A j \in Live \ {i} : ~Clash(a, row[j].what)
    BY <1>2, <1>7, <2>1, <2>2, NoConflictNoClash DEF Move
  <2>4. "status" \notin profile => new.status = row[i].status
    BY <1>7, <2>1 DEF Move, Renamed
  <2>5. Fits([pc |-> AfterTest, op |-> "move", id |-> i, found |-> row[i], old |-> row[i],
              new |-> new, answer |-> "none"])
    BY <2>1, <2>3, <2>4 DEF Fits
  <2>6. QED
    BY <1>4, <1>5, <1>7, <2>1, <2>5 DEF Move
<1>8. ASSUME NEW i \in Ids, NEW op \in {"cancel", "delete"}, NEW s \in {"cancelled", "deleted"},
             Begin(r, "calendar", op, i, [row[i] EXCEPT !.status = s])
      PROVE  Kind /\ Calm
  <2> DEFINE new == [row[i] EXCEPT !.status = s]
  <2>1. new \in Rows /\ new.status # "confirmed"
    BY <1>1 DEF Rows, Statuses
  <2>2. Fits([pc |-> "calendar", op |-> op, id |-> i, found |-> row[i], old |-> row[i],
              new |-> new, answer |-> "none"])
    BY <2>1 DEF Fits
  <2>3. QED
    BY <1>4, <1>8, <2>1, <2>2
<1>9. QED
  BY <1>1, <1>6, <1>7, <1>8 DEF Ask, Amend, Cancel, Delete

(* A request under way waits, ends, or ends having written.                *)
LEMMA ProceedGoesOn ==
  ASSUME IInv, Guarded, NEW r \in Requests, Proceed(r) \/ Crash(r)
  PROVE  Kind /\ Calm
<1> DEFINE q == req[r]
<1>1. /\ "expired" \notin profile /\ "import" \notin profile
      /\ conn \in {"none", "connected"}
      /\ row \in [Ids -> Rows] /\ req \in [Requests -> Reqs]
      /\ q \in Reqs /\ q.pc \in {"idle", "busy", "flush", "calendar"}
  BY DEF IInv, Typed, Guarded, Locked, Reqs
<1>2. q.pc # "idle" => r \in lock
  BY DEF IInv, OneWorks
<1>3. ASSUME q.pc # "idle", NEW x \in {"done", "failed"}, End(r, x),
             UNCHANGED row \/ \E e \in Ids \cup {None} : Writes(q, e)
      PROVE  Kind
  BY <1>3 DEF End, Unlock, Ends, Kind
<1>4. CASE Busy(r)
  BY <1>1, <1>3, <1>4 DEF Busy, Kind, Calm, Advances, imports
<1>5. CASE Flush(r)
  BY <1>1, <1>3, <1>5 DEF Flush, Kind, Calm, Advances, imports
<1>6. CASE q.pc = "calendar" /\ Tell(r)
  <2>1. PICK e \in Target(q) :
          row' = [row EXCEPT ![q.id] = [Written(@, q) EXCEPT !.event = EventAfter(q, e)]]
    BY <1>6 DEF Tell
  <2>2. q.old.event \in Ids \cup {None}
    BY <1>1 DEF Reqs, Rows
  <2>3. EventAfter(q, e) \in Ids \cup {None}
    BY <2>1, <2>2 DEF EventAfter, Target
  <2>4. Writes(q, EventAfter(q, e))
    BY <1>2, <1>6, <2>1, <2>3, CommitWrites
  <2>5. QED
    BY <1>1, <1>3, <1>6, <2>3, <2>4 DEF Tell, Calm, imports
<1>7. CASE q.pc = "calendar" /\ TellFails(r)
  <2>1. q.new.event \in Ids \cup {None}
    BY <1>1 DEF Reqs, Rows
  <2>2. CASE Kept(q)
    <3>1. Writes(q, q.new.event)
      BY <1>2, <1>7, <2>2, CommitWrites DEF TellFails
    <3>2. QED
      BY <1>1, <1>3, <1>7, <2>1, <2>2, <3>1 DEF TellFails, Calm, imports
  <2>3. CASE ~Kept(q)
    BY <1>1, <1>3, <1>7, <2>3 DEF TellFails, Undone, Calm, imports
  <2>4. QED
    BY <2>2, <2>3
<1>8. CASE Silent(r)
  <2>1. q.new.event \in Ids \cup {None}
    BY <1>1 DEF Reqs, Rows
  <2>2. Writes(q, q.new.event)
    BY <1>2, <1>8, CommitWrites DEF Silent
  <2>3. QED
    BY <1>1, <1>3, <1>8, <2>1, <2>2 DEF Silent, Calm, imports
<1>9. CASE Crash(r)
  <2>1. Rest = [Rest EXCEPT !.answer = "none"]
    BY DEF Rest
  <2>2. QED
    BY <1>1, <1>9, <2>1 DEF Crash, Unlock, Ends, Kind, Calm, imports
<1>10. QED
  BY <1>1, <1>4, <1>5, <1>6, <1>7, <1>8, <1>9 DEF Proceed, Calendar, Refresh

-----------------------------------------------------------------------------
(* The agenda the rows are, and what a write does to both                  *)

Bar == [i \in {j \in Live : Locked /\ "amend" \notin profile} |-> row[i].what]

(* A write is the holder's, of its row alone, with what it meant to write. *)
LEMMA WriteChanges ==
  ASSUME IInv, NEW r \in lock, NEW e, Writes(req[r], e)
  PROVE  LET q == req[r] IN
         /\ row' \in [Ids -> Rows]
         /\ row'[q.id] = [q.new EXCEPT !.event = e]
         /\ \A j \in Ids \ {q.id} : row'[j] = row[j]
         /\ q.new \in Rows /\ q.old = row[q.id] /\ q.id \in Ids
         /\ row'[q.id].status = q.new.status /\ row'[q.id].what = q.new.what
<1> DEFINE q == req[r]
<1>1. q \in Reqs /\ q.id \in Ids /\ q.old = row[q.id] /\ q.new \in Rows /\ row \in [Ids -> Rows]
  BY DEF IInv, Typed, OneWorks, Fits, Reqs
<1>2. [q.new EXCEPT !.event = e] \in Rows
  BY <1>1 DEF Writes, Rows
<1>3. QED
  BY <1>1, <1>2 DEF Writes, Rows

(* The invariant is inductive.                                             *)
LEMMA KindKeepsIInv ==
  ASSUME IInv, Kind, Calm
  PROVE  IInv'
<1>1. /\ row \in [Ids -> Rows] /\ req \in [Requests -> Reqs] /\ import.pc = "idle"
      /\ lock \subseteq Requests /\ \A r, s \in lock : r = s
      /\ \A r \in Requests : req[r].pc # "idle" <=> r \in lock
      /\ \A i \in Live : row[i].what \in Wanted
      /\ import' = import /\ profile' = profile /\ conn' \in {"none", "connected"}
  BY DEF IInv, Typed, OneWorks, Calm, imports
<1>2. CASE UNCHANGED <<row, lock, req>>
  BY <1>1, <1>2 DEF IInv, Typed, OneWorks, Fits, Live
<1>3. ASSUME NEW r \in Requests, NEW q \in Reqs, Starts(r, q)
      PROVE  IInv'
  <2>1. /\ lock' = {r} /\ row' = row /\ req'[r] = q /\ req' \in [Requests -> Reqs] /\ q.pc # "idle"
        /\ \A s \in Requests \ {r} : req'[s] = req[s] /\ req[s].pc = "idle"
    BY <1>1, <1>3 DEF Starts
  <2>2. Fits(q)'
    BY <1>1, <1>3, <2>1 DEF Starts, Fits, Live
  <2>3. \A s \in lock' : Fits(req[s])'
    BY <1>1, <2>1, <2>2 DEF Fits, Live
  <2>4. QED
    BY <1>1, <2>1, <2>3 DEF IInv, Typed, OneWorks, Live
<1>4. ASSUME NEW r \in Requests, NEW p \in {"flush", "calendar"}, Advances(r, p)
      PROVE  IInv'
  <2>1. /\ r \in lock /\ lock' = lock /\ row' = row /\ req' \in [Requests -> Reqs]
        /\ req'[r] = [req[r] EXCEPT !.pc = p]
        /\ \A s \in Requests \ {r} : req'[s] = req[s]
    BY <1>1, <1>4 DEF Advances, Reqs
  <2>2. /\ req'[r].id = req[r].id /\ req'[r].old = req[r].old /\ req'[r].new = req[r].new
        /\ req'[r].op = req[r].op /\ req'[r].pc # "idle"
    BY <1>1, <2>1 DEF Reqs
  <2>3. Fits(req[r])'
    BY <1>1, <2>1, <2>2 DEF IInv, Fits, Live
  <2>4. QED
    BY <1>1, <2>1, <2>2, <2>3 DEF IInv, Typed, OneWorks, Live
<1>5. ASSUME NEW r \in Requests, NEW x \in {"none", "done", "failed"}, Ends(r, x),
             UNCHANGED row \/ \E e \in Ids \cup {None} : Writes(req[r], e)
      PROVE  IInv'
  <2>1. /\ r \in lock /\ lock' = {} /\ req' \in [Requests -> Reqs] /\ req'[r].pc = "idle"
        /\ \A s \in Requests \ {r} : req'[s] = req[s] /\ req[s].pc = "idle"
    BY <1>1, <1>5, Blanks DEF Ends, Rest
  <2>2. row' \in [Ids -> Rows] /\ \A i \in Live' : row'[i].what \in Wanted
    <3>1. CASE UNCHANGED row
      BY <1>1, <3>1 DEF Live
    <3>2. CASE \E e \in Ids \cup {None} : Writes(req[r], e)
      <4> DEFINE q == req[r]
      <4>1. /\ row' \in [Ids -> Rows] /\ q.id \in Ids
            /\ row'[q.id].status = q.new.status /\ row'[q.id].what = q.new.what
            /\ \A j \in Ids \ {q.id} : row'[j] = row[j]
        BY <2>1, <3>2, WriteChanges
      <4>2. q.new.what \in Wanted \/ q.new.status # "confirmed"
        BY <2>1 DEF IInv, Fits
      <4>3. QED
        BY <1>1, <4>1, <4>2 DEF Live
    <3>3. QED
      BY <1>5, <3>1, <3>2
  <2>3. QED
    BY <1>1, <2>1, <2>2 DEF IInv, Typed, OneWorks
<1>6. QED
  BY <1>2, <1>3, <1>4, <1>5 DEF Kind

(* A write books, moves or releases an appointment, or leaves the agenda.  *)
LEMMA WriteIsAgendaStep ==
  ASSUME IInv, Guarded, Guarded', NEW r \in lock, NEW e, Writes(req[r], e)
  PROVE  A!Next \/ UNCHANGED Bar
<1> DEFINE q == req[r]
<1>1. /\ q.id \in Ids /\ q.old = row[q.id] /\ row \in [Ids -> Rows] /\ row' \in [Ids -> Rows]
      /\ row'[q.id].status = q.new.status /\ row'[q.id].what = q.new.what
      /\ \A j \in Ids \ {q.id} : row'[j] = row[j]
  BY WriteChanges DEF IInv, Typed
<1>2. Bar = [i \in Live |-> row[i].what] /\ Bar' = [i \in Live' |-> row'[i].what]
  BY DEF Bar, Guarded
<1>3. Live' \ {q.id} = Live \ {q.id} /\ (q.id \in Live' <=> q.new.status = "confirmed")
  BY <1>1 DEF Live
<1>4. \A a \in Wanted, j \in Live : A!Clash(a, row[j].what) <=> Clash(a, row[j].what)
  BY DEF A!Clash, A!SameStaff, A!Staff, A!Opened, A!Closed, Clash, SameStaff, Staff, Opened, Closed
<1>5. PICK i \in Ids, a \in {q.new.what} : i = q.id /\ a = q.new.what
  BY <1>1
<1>6. CASE q.new.status # "confirmed" /\ i \notin Live
  <2>1. Live' = Live /\ \A j \in Live : row'[j].what = row[j].what
    BY <1>1, <1>3, <1>5, <1>6 DEF Live
  <2>2. QED
    BY <1>2, <2>1
<1>7. CASE q.new.status # "confirmed" /\ i \in Live
  <2>1. Live' = Live \ {i} /\ \A j \in Live \ {i} : row'[j].what = row[j].what
    BY <1>1, <1>3, <1>5, <1>7 DEF Live
  <2>2. Bar' = [j \in Live \ {i} |-> Bar[j]]
    BY <1>2, <2>1
  <2>3. A!Release(i)
    BY <1>2, <1>7, <2>2 DEF A!Release, A!Booked, Bar
  <2>4. QED
    BY <2>3 DEF A!Next
<1>8. CASE q.new.status = "confirmed"
  <2>1. a \in Wanted /\ \A j \in Live \ {i} : ~Clash(a, row[j].what)
    BY <1>1, <1>5, <1>8 DEF IInv, Fits, Live
  <2>2. /\ Live' = Live \cup {i} /\ row'[i].what = a
        /\ \A j \in Live \ {i} : row'[j].what = row[j].what
    BY <1>1, <1>3, <1>5, <1>8 DEF Live
  <2>3. Bar' = [j \in Live \cup {i} |-> IF j = i THEN a ELSE Bar[j]]
    BY <1>2, <2>2
  <2>4. A!FreeFor(i, a) /\ A!Put(i, a)
    BY <1>2, <1>4, <2>1, <2>3 DEF A!FreeFor, A!Put, A!Booked, Bar
  <2>5. A!Book(i, a) \/ A!Move(i, a)
    BY <2>4 DEF A!Book, A!Move
  <2>6. QED
    BY <2>1, <2>5 DEF A!Next
<1>9. QED
  BY <1>5, <1>6, <1>7, <1>8

-----------------------------------------------------------------------------
(* Nothing is booked at first.                                             *)
LEMMA InitIInv == Init => IInv
<1>1. SUFFICES ASSUME Init PROVE IInv
  OBVIOUS
<1>2. row = [i \in Ids |-> Blank] /\ req = [r \in Requests |-> [Rest EXCEPT !.answer = "none"]]
  BY <1>1 DEF Init, Rest
<1>3. Live = {} /\ \A r \in Requests : req[r].pc = "idle"
  BY <1>2 DEF Live, Blank, Rest
<1>4. QED
  BY <1>1, <1>2, <1>3, Blanks DEF Init, IInv, Typed, OneWorks

(* What may happen besides does not change.                                *)
LEMMA ProfileStays ==
  ASSUME [Next]_vars
  PROVE  profile' = profile
<1>1. ASSUME NEW r \in Requests, Ask(r)
      PROVE  profile' = profile
  BY <1>1 DEF Ask, Create, Move, Amend, Cancel, Delete, Begin, imports
<1>2. ASSUME NEW r \in Requests, Proceed(r) \/ Crash(r)
      PROVE  profile' = profile
  <2>1. ASSUME Calendar(r)
        PROVE  profile' = profile
    BY <2>1 DEF Calendar, Tell, TellFails, Silent, Refresh, AgainFails, imports
  <2>2. QED
    BY <1>2, <2>1 DEF Proceed, Busy, Flush, Crash, imports
<1>3. ASSUME StartImport \/ Import \/ \E e \in Ids : OwnerEdits(e)
      PROVE  profile' = profile
  BY <1>3 DEF StartImport, Import, List, Apply, ImportFails, OwnerEdits, imports
<1>4. QED
  BY <1>1, <1>2, <1>3 DEF Next, vars, imports

(* While each change is tested and the lock lasts, every step is of one of *)
(* the kinds.                                                              *)
LEMMA GuardedSteps ==
  ASSUME IInv, Guarded, [Next]_vars
  PROVE  Kind /\ Calm
<1>1. CASE UNCHANGED vars
  BY <1>1 DEF vars, imports, Kind, Calm, IInv, Typed
<1>2. CASE \E e \in Ids : OwnerEdits(e)
  BY <1>2 DEF OwnerEdits, Guarded, Locked
<1>3. CASE StartImport \/ Import
  BY <1>3 DEF StartImport, Import, List, Apply, ImportFails, Guarded, Locked, IInv, Typed
<1>4. QED
  BY <1>1, <1>2, <1>3, AskStarts, ProceedGoesOn DEF Next

(* The invariant holds of every guarded behaviour.                         *)
LEMMA GuardedInvariance == Spec => [](Guarded => IInv)
<1>1. Init => (Guarded => IInv)
  BY InitIInv
<1>2. (Guarded => IInv) /\ [Next]_vars => (Guarded => IInv)'
  BY ProfileStays, GuardedSteps, KindKeepsIInv DEF Guarded, Locked
<1>3. QED
  BY <1>1, <1>2, PTL DEF Spec

(* However the requests interleave, whatever the number of them, of ids    *)
(* and of keys, and with answers and processes lost, the confirmed         *)
(* appointments are an agenda.                                             *)
THEOREM BookingsAreAnAgenda == Spec => ImplementsAgenda
<1> DEFINE G == Guarded => IInv
<1>1. Init => A!Init
  <2>1. SUFFICES ASSUME Init PROVE Bar = [i \in {} |-> {}]
    BY DEF A!Init, Bar
  <2>2. Live = {}
    BY <2>1 DEF Init, Live, Blank
  <2>3. QED
    BY <2>2 DEF Bar
<1>2. G /\ [Next]_vars => [A!Next]_Bar
  <2>1. SUFFICES ASSUME G, [Next]_vars PROVE A!Next \/ UNCHANGED Bar
    OBVIOUS
  <2>2. CASE ~Guarded
    <3>1. ~Guarded'
      BY ProfileStays, <2>1, <2>2 DEF Guarded, Locked
    <3>2. QED
      BY <2>2, <3>1 DEF Guarded, Bar
  <2>3. CASE Guarded
    <3>1. Guarded' /\ Kind /\ IInv
      BY ProfileStays, GuardedSteps, <2>1, <2>3 DEF Guarded, Locked
    <3>2. CASE UNCHANGED row
      BY ProfileStays, <2>1, <3>2 DEF Bar, Live, Locked
    <3>3. CASE \E r \in Requests, e \in Ids \cup {None} : r \in lock /\ Writes(req[r], e)
      BY <2>3, <3>1, <3>3, WriteIsAgendaStep
    <3>4. QED
      BY <3>1, <3>2, <3>3 DEF Kind, Starts, Advances, Ends, IInv, OneWorks
  <2>4. QED
    BY <2>2, <2>3
<1>3. QED
  BY GuardedInvariance, <1>1, <1>2, PTL DEF Spec, ImplementsAgenda, A!Spec, Bar

-----------------------------------------------------------------------------
(* The agenda itself: what Agenda promises follows from its steps.         *)

(* check_conflict, given an appointment with its buffers, answers that it  *)
(* clashes exactly when it does.                                           *)
LEMMA CheckIsExact ==
  ASSUME NEW a \in Appointments, NEW others \in SUBSET Appointments
  PROVE  ConflictIsClash(a, others)
<1>1. /\ Before[a.service] \in Nat /\ After[a.service] \in Nat
      /\ a.start \in Int /\ a.end \in Int
  BY ServicesAssumption DEF Appointments
<1>2. ASSUME NEW b \in others
      PROVE  Clash(a, b) <=> /\ Concerns(b, a.employee) /\ Selected(b, Opened(a), Closed(a))
                             /\ Opened(a) < Closed(b) /\ Closed(a) > Opened(b)
  <2>1. /\ b.service \in Services /\ b.start \in Int /\ b.end \in Int
        /\ Before[b.service] \in Nat /\ After[b.service] \in Nat
    BY ServicesAssumption DEF Appointments
  <2>2. /\ Before[b.service] <= MaxBefore /\ MaxBefore \in Nat
        /\ After[b.service] <= MaxAfter /\ MaxAfter \in Nat
    BY <2>1, Longest
  <2>3. SameStaff(a, b) <=> Concerns(b, a.employee)
    BY DEF SameStaff, Concerns
  <2>4. /\ Opened(a) \in Int /\ Closed(a) \in Int
    BY <1>1 DEF Opened, Closed
  <2>5. (Opened(a) < Closed(b) /\ Closed(a) > Opened(b)) => Selected(b, Opened(a), Closed(a))
    BY <2>1, <2>2, <2>4 DEF Selected, Opened, Closed
  <2>6. Opened(b) < Closed(a) <=> Closed(a) > Opened(b)
    BY <2>1, <2>4 DEF Opened, Closed
  <2>7. QED
    BY <2>3, <2>5, <2>6 DEF Clash
<1>3. QED
  BY <1>2 DEF ConflictIsClash, CheckConflict

(* The instance speaks of the same clashes and the same check.             *)
LEMMA SameWords ==
  /\ A!Appointments = Appointments
  /\ \A a, b : A!Clash(a, b) <=> Clash(a, b)
  /\ \A a, others : A!ConflictIsClash(a, others) <=> ConflictIsClash(a, others)
<1>1. A!Appointments = Appointments
  BY DEF A!Appointments, A!Staff, Appointments, Staff
<1>2. \A a, b : A!Clash(a, b) <=> Clash(a, b)
  BY DEF A!Clash, A!SameStaff, A!Opened, A!Closed, Clash, SameStaff, Opened, Closed
<1>3. /\ \A a : A!Opened(a) = Opened(a) /\ A!Closed(a) = Closed(a)
      /\ \A b, w : A!Concerns(b, w) <=> Concerns(b, w)
      /\ \A b, x, y : A!Selected(b, x, y) <=> Selected(b, x, y)
  BY DEF A!Opened, A!Closed, A!Concerns, A!Selected, A!MaxBefore, A!MaxAfter,
         Opened, Closed, Concerns, Selected, MaxBefore, MaxAfter
<1>4. QED
  BY <1>1, <1>2, <1>3 DEF A!ConflictIsClash, A!CheckConflict, ConflictIsClash, CheckConflict

(* A step of the agenda puts a wanted appointment that is free, or         *)
(* releases one.                                                           *)
LEMMA AgendaStep ==
  ASSUME [A!Next]_Bar
  PROVE  \/ Bar' = Bar
         \/ \E i \in DOMAIN Bar : Bar' = [j \in DOMAIN Bar \ {i} |-> Bar[j]]
         \/ \E i \in Ids, a \in Wanted :
              /\ \A j \in DOMAIN Bar \ {i} : ~Clash(a, Bar[j])
              /\ Bar' = [j \in DOMAIN Bar \cup {i} |-> IF j = i THEN a ELSE Bar[j]]
<1>1. CASE Bar' = Bar
  BY <1>1
<1>2. ASSUME NEW i \in Ids, A!Release(i)
      PROVE  i \in DOMAIN Bar /\ Bar' = [j \in DOMAIN Bar \ {i} |-> Bar[j]]
  BY <1>2 DEF A!Release, A!Booked, Bar
<1>3. ASSUME NEW i \in Ids, NEW a \in Wanted, A!Book(i, a) \/ A!Move(i, a)
      PROVE  /\ \A j \in DOMAIN Bar \ {i} : ~Clash(a, Bar[j])
             /\ Bar' = [j \in DOMAIN Bar \cup {i} |-> IF j = i THEN a ELSE Bar[j]]
  <2>1. A!FreeFor(i, a) /\ A!Put(i, a)
    BY <1>3 DEF A!Book, A!Move
  <2>2. \A j \in DOMAIN Bar \ {i} : ~A!Clash(a, Bar[j])
    BY <2>1 DEF A!FreeFor, A!Booked, Bar
  <2>3. Bar' = [j \in DOMAIN Bar \cup {i} |-> IF j = i THEN a ELSE Bar[j]]
    BY <2>1 DEF A!Put, A!Booked, Bar
  <2>4. QED
    BY <2>2, <2>3, SameWords
<1>4. QED
  BY <1>1, <1>2, <1>3 DEF A!Next

(* The agenda keeps its type: booked appointments are wanted ones.         *)
LEMMA AgendaTyped == A!Spec => []A!AgendaTypeOK
<1>0. A!AgendaTypeOK <=> DOMAIN Bar \subseteq Ids /\ \A i \in DOMAIN Bar : Bar[i] \in Wanted
  BY DEF A!AgendaTypeOK, A!Booked, Bar
<1>1. A!Init => A!AgendaTypeOK
  <2>1. A!Init => Bar = [i \in {} |-> {}]
    BY DEF A!Init, Bar
  <2>2. QED
    BY <1>0, <2>1
<1>2. ASSUME A!AgendaTypeOK, [A!Next]_Bar
      PROVE  A!AgendaTypeOK'
  <2>0. A!AgendaTypeOK' <=> DOMAIN Bar' \subseteq Ids /\ \A i \in DOMAIN Bar' : Bar'[i] \in Wanted
    BY DEF A!AgendaTypeOK, A!Booked, Bar
  <2>1. CASE Bar' = Bar
    BY <1>0, <1>2, <2>0, <2>1
  <2>2. ASSUME NEW i \in DOMAIN Bar, Bar' = [j \in DOMAIN Bar \ {i} |-> Bar[j]]
        PROVE  A!AgendaTypeOK'
    BY <1>0, <1>2, <2>0, <2>2
  <2>3. ASSUME NEW i \in Ids, NEW a \in Wanted,
               Bar' = [j \in DOMAIN Bar \cup {i} |-> IF j = i THEN a ELSE Bar[j]]
        PROVE  A!AgendaTypeOK'
    BY <1>0, <1>2, <2>0, <2>3
  <2>4. QED
    BY <1>2, <2>1, <2>2, <2>3, AgendaStep
<1>3. QED
  BY <1>1, <1>2, PTL DEF A!Spec, Bar

(* No two booked appointments ever need the same person at once.           *)
THEOREM AgendaNeverClashes == A!Spec => []A!NoClash
<1>0. A!NoClash <=> \A i, j \in DOMAIN Bar : i # j => ~Clash(Bar[i], Bar[j])
  <2>1. A!NoClash <=> \A i, j \in DOMAIN Bar : i # j => ~A!Clash(Bar[i], Bar[j])
    BY DEF A!NoClash, A!Booked, Bar
  <2>2. QED
    BY <2>1, SameWords
<1>1. A!Init => A!NoClash
  <2>1. A!Init => Bar = [i \in {} |-> {}]
    BY DEF A!Init, Bar
  <2>2. QED
    BY <1>0, <2>1
<1>2. ASSUME A!NoClash, [A!Next]_Bar
      PROVE  A!NoClash'
  <2>0. A!NoClash' <=> \A i, j \in DOMAIN Bar' : i # j => ~Clash(Bar'[i], Bar'[j])
    <3>1. A!NoClash' <=> \A i, j \in DOMAIN Bar' : i # j => ~A!Clash(Bar'[i], Bar'[j])
      BY DEF A!NoClash, A!Booked, Bar
    <3>2. QED
      BY <3>1, SameWords
  <2>1. CASE Bar' = Bar
    BY <1>0, <1>2, <2>0, <2>1
  <2>2. ASSUME NEW i \in DOMAIN Bar, Bar' = [j \in DOMAIN Bar \ {i} |-> Bar[j]]
        PROVE  A!NoClash'
    BY <1>0, <1>2, <2>0, <2>2
  <2>3. ASSUME NEW i \in Ids, NEW a \in Wanted,
               \A j \in DOMAIN Bar \ {i} : ~Clash(a, Bar[j]),
               Bar' = [j \in DOMAIN Bar \cup {i} |-> IF j = i THEN a ELSE Bar[j]]
        PROVE  A!NoClash'
    <3>1. SUFFICES ASSUME NEW j \in DOMAIN Bar', NEW k \in DOMAIN Bar', j # k
                   PROVE  ~Clash(Bar'[j], Bar'[k])
      BY <2>0
    <3>2. /\ DOMAIN Bar' = DOMAIN Bar \cup {i} /\ Bar'[i] = a
          /\ \A l \in DOMAIN Bar \ {i} : Bar'[l] = Bar[l]
      BY <2>3
    <3>3. CASE j = i
      BY <2>3, <3>1, <3>2, <3>3
    <3>4. CASE k = i
      BY <2>3, <3>1, <3>2, <3>4, ClashIsSymmetric
    <3>5. CASE j # i /\ k # i
      BY <1>0, <1>2, <3>1, <3>2, <3>5
    <3>6. QED
      BY <3>3, <3>4, <3>5
  <2>4. QED
    BY <1>2, <2>1, <2>2, <2>3, AgendaStep
<1>3. QED
  BY <1>1, <1>2, PTL DEF A!Spec, Bar

(* The CRM inherits both.  While every change is tested and the lock       *)
(* lasts, no two confirmed appointments need the same person at once,      *)
(* however many requests there are and whatever is lost.                   *)
THEOREM NeverDoubleBooked == Spec => [](Guarded => NoDoubleBooking)
<1>1. A!NoClash => (Guarded => NoDoubleBooking)
  <2>1. SUFFICES ASSUME A!NoClash, Guarded PROVE NoDoubleBooking
    OBVIOUS
  <2>2. Bar = [i \in Live |-> row[i].what]
    BY <2>1 DEF Bar, Guarded
  <2>3. \A i, j \in DOMAIN Bar : i # j => ~A!Clash(Bar[i], Bar[j])
    BY <2>1 DEF A!NoClash, A!Booked, Bar
  <2>4. QED
    BY <2>2, <2>3, SameWords DEF NoDoubleBooking
<1>2. QED
  BY <1>1, BookingsAreAnAgenda, AgendaNeverClashes, PTL DEF ImplementsAgenda

(* Whatever is booked, check_conflict finds all its clashes and no other.  *)
THEOREM ChecksAreExact == Spec => []A!ConflictsFound
<1>1. A!AgendaTypeOK => A!ConflictsFound
  <2>1. SUFFICES ASSUME A!AgendaTypeOK, NEW i \in Ids, NEW a \in Wanted
                 PROVE  A!ConflictIsClash(a, {Bar[j] : j \in DOMAIN Bar \ {i}})
    BY DEF A!ConflictsFound, A!Booked, Bar
  <2>2. \A j \in DOMAIN Bar : Bar[j] \in Wanted
    BY <2>1 DEF A!AgendaTypeOK, A!Booked, Bar
  <2>3. PICK others : others = {Bar[j] : j \in DOMAIN Bar \ {i}}
    OBVIOUS
  <2>4. a \in Appointments /\ others \in SUBSET Appointments
    BY <2>2, <2>3, WantedAssumption
  <2>5. QED
    BY <2>3, <2>4, CheckIsExact, SameWords
<1>2. QED
  BY <1>1, BookingsAreAnAgenda, AgendaTyped, PTL DEF ImplementsAgenda

-----------------------------------------------------------------------------
(* Events: the invariant, in every behaviour                               *)

Columns == {"status", "what", "key", "event"}
Parts == {"pc", "op", "id", "found", "old", "new", "answer"}

(* Rows, events and requests are made as they should; a request keeps the  *)
(* event of the row it read, and no row is unmade.                         *)
Shaped ==
  /\ DOMAIN row = Ids /\ DOMAIN google = Ids /\ DOMAIN req = Requests
  /\ \A i \in Ids : /\ DOMAIN row[i] = Columns /\ row[i].event \in Ids \cup {None}
                    /\ row[i].status = "none" => row[i].event = None
  /\ \A e \in Ids : google[e].on => google[e].used
  /\ \A r \in Requests :
       /\ DOMAIN req[r] = Parts /\ DOMAIN req[r].new = Columns
       /\ req[r].old.event \in Ids \cup {None} /\ req[r].new.event = req[r].old.event
       /\ req[r].pc = "idle" => req[r].old.event = None /\ req[r].id = None
       /\ req[r].pc # "idle" =>
            /\ req[r].id \in Ids /\ req[r].new.status # "none"
            /\ req[r].old.status # "none" => row[req[r].id].status # "none"
       /\ req[r].op = "create" => req[r].old.event = None
  /\ \A e \in Ids : import.seen[e].on => google[e].used
  /\ DOMAIN import = {"pc", "seen"} /\ ("import" \notin profile => import.pc = "idle")

(* A row has a claim to its event, and so has a request to the event of    *)
(* its row that it read, even when its transaction has lost the lock.      *)
Claims(i, e) == row[i].event = e \/ \E r \in Requests : req[r].id = i /\ req[r].old.event = e

OneClaim ==
  /\ \A e, i, j \in Ids : Claims(i, e) /\ Claims(j, e) => i = j
  /\ \A e, i \in Ids : Claims(i, e) => google[e].used

(* Beside imports only one request works, and the event it read is in its  *)
(* row, where an import finds it.                                          *)
WhileImporting ==
  "import" \in profile =>
    /\ \A r, s \in Requests : req[r].pc # "idle" /\ req[s].pc # "idle" => r = s
    /\ \A r \in Requests : req[r].old.event # None => row[req[r].id].event = req[r].old.event

EventInv == Shaped /\ OneClaim /\ WhileImporting

(* A step that claims nothing but free events keeps the claims apart.      *)
LEMMA ClaimsFollow ==
  ASSUME OneClaim, \A e \in Ids : google[e].used => google'[e].used,
         \A e, i \in Ids : Claims(i, e)' =>
           \/ Claims(i, e)
           \/ google'[e].used /\ \A j \in Ids : Claims(j, e)' => j = i
  PROVE  OneClaim'
BY DEF OneClaim

(* A request that starts claims the event of the row it reads.             *)
LEMMA StartKeepsEvents ==
  ASSUME EventInv, NEW r \in Requests, NEW i \in Ids, NEW step, NEW op, NEW new,
         Begin(r, step, op, i, new), step # "idle",
         DOMAIN new = Columns, new.event = row[i].event, new.status # "none",
         op = "create" => row[i].status = "none"
  PROVE  EventInv'
<1> DEFINE q == [pc |-> step, op |-> op, id |-> i, found |-> row[i], old |-> row[i],
                 new |-> new, answer |-> "none"]
<1>1. /\ req[r].pc = "idle" /\ req' = [req EXCEPT ![r] = q]
      /\ row' = row /\ google' = google /\ import' = import /\ profile' = profile
      /\ "import" \in profile => \A s \in Requests : req[s].pc = "idle"
  BY DEF Begin, MayStart, imports
<1>2. /\ req'[r] = q /\ DOMAIN req' = Requests
      /\ \A s \in Requests \ {r} : req'[s] = req[s]
  BY <1>1 DEF EventInv, Shaped
<1>3. Shaped'
  <2>1. DOMAIN q = Parts
    BY DEF Parts
  <2>2. QED
    BY <1>1, <1>2, <2>1 DEF EventInv, Shaped
<1>4. ASSUME NEW e \in Ids, NEW j \in Ids, Claims(j, e)'
      PROVE  Claims(j, e)
  BY <1>1, <1>2, <1>4 DEF Claims
<1>5. OneClaim'
  BY <1>1, <1>4, ClaimsFollow DEF EventInv
<1>6. WhileImporting'
  BY <1>1, <1>2 DEF EventInv, Shaped, WhileImporting
<1>7. QED
  BY <1>3, <1>5, <1>6 DEF EventInv

(* A request that goes on keeps its event; its row may be committed.       *)
LEMMA AdvanceKeepsEvents ==
  ASSUME EventInv, NEW r \in Requests, req[r].pc # "idle",
         UNCHANGED <<google, import, profile>>,
         DOMAIN req' = Requests, \A s \in Requests \ {r} : req'[s] = req[s],
         DOMAIN req'[r] = Parts,
         req'[r].pc # "idle", req'[r].id = req[r].id, req'[r].op = req[r].op,
         req'[r].new = req[r].new, req'[r].old \in {req[r].old, req[r].new},
         UNCHANGED row \/ Commit(req[r]),
         req'[r].old # req[r].old => Commit(req[r])
  PROVE  EventInv'
<1> DEFINE q == req[r]
           i == q.id
<1>1. /\ i \in Ids /\ DOMAIN row[i] = Columns /\ DOMAIN q.new = Columns
      /\ q.new.event = q.old.event /\ DOMAIN row = Ids
      /\ q.new.status # "none"
      /\ q.old.status # "none" => row[i].status # "none"
  BY DEF EventInv, Shaped
<1>2. Commit(q) => /\ row' = [row EXCEPT ![i] = Written(row[i], q)]
                   /\ DOMAIN Written(row[i], q) = Columns
                   /\ Written(row[i], q).event = row[i].event
                   /\ Written(row[i], q).status # "none"
  BY <1>1 DEF Commit, Written, Columns
<1>3. /\ DOMAIN row' = Ids
      /\ \A j \in Ids : /\ DOMAIN row'[j] = Columns /\ row'[j].event = row[j].event
                        /\ row[j].status # "none" => row'[j].status # "none"
                        /\ j # i => row'[j] = row[j]
      /\ Commit(q) => row'[i].status # "none"
  BY <1>1, <1>2 DEF EventInv, Shaped
<1>4. /\ req'[r].old.event = q.old.event
      /\ req'[r].old.status # "none" => row'[i].status # "none"
  BY <1>1, <1>3
<1>5. Shaped'
  <2>1. \A j \in Ids : row'[j].status = "none" => row'[j].event = None
    BY <1>3 DEF EventInv, Shaped
  <2>2. QED
    BY <1>1, <1>3, <1>4, <2>1 DEF EventInv, Shaped
<1>6. \A e, j \in Ids : Claims(j, e)' => Claims(j, e)
  BY <1>3, <1>4 DEF Claims
<1>7. OneClaim'
  BY <1>6, ClaimsFollow DEF EventInv
<1>8. WhileImporting'
  <2>1. \A s \in Requests : /\ req'[s].pc # "idle" => req[s].pc # "idle"
                            /\ req'[s].id = req[s].id /\ req'[s].old.event = req[s].old.event
    BY <1>4
  <2>2. \A s \in Requests : req[s].old.event # None => req[s].id \in Ids
    BY DEF EventInv, Shaped
  <2>3. QED
    BY <1>3, <2>1, <2>2 DEF EventInv, WhileImporting
<1>9. QED
  BY <1>5, <1>7, <1>8 DEF EventInv

(* A request that ends keeps the event of its row, drops it, leaves the    *)
(* one it read, or writes one that nobody used.                            *)
LEMMA EndKeepsEvents ==
  ASSUME EventInv, NEW r \in Requests, req[r].pc # "idle", NEW x,
         req' = [req EXCEPT ![r] = [Rest EXCEPT !.answer = x]],
         UNCHANGED <<import, profile>>, DOMAIN google' = Ids,
         \A e \in Ids : (google[e].used => google'[e].used) /\ (google'[e].on => google'[e].used),
         NEW y, row' = row \/ row' = [row EXCEPT ![req[r].id] = y],
         DOMAIN y = Columns, y.status # "none",
         \/ y.event \in {row[req[r].id].event, None, req[r].old.event}
         \/ y.event \in Ids /\ ~google[y.event].used /\ google'[y.event].used
  PROVE  EventInv'
<1> DEFINE q == req[r]
           i == q.id
<1>1. /\ i \in Ids /\ DOMAIN row = Ids /\ q.old.event \in Ids \cup {None}
      /\ row[i].event \in Ids \cup {None}
  BY DEF EventInv, Shaped
<1>2. /\ DOMAIN req' = Requests /\ req'[r] = [Rest EXCEPT !.answer = x]
      /\ \A s \in Requests \ {r} : req'[s] = req[s]
  BY DEF EventInv, Shaped
<1>3. /\ req'[r].pc = "idle" /\ req'[r].id = None /\ req'[r].op = "none"
      /\ req'[r].old = Blank /\ req'[r].new = Blank
      /\ Blank.event = None /\ DOMAIN Blank = Columns /\ DOMAIN req'[r] = Parts
  BY <1>2 DEF Rest, Blank, Columns, Parts
<1>4. /\ DOMAIN row' = Ids
      /\ \A j \in Ids : /\ DOMAIN row'[j] = Columns /\ row'[j].event \in Ids \cup {None}
                        /\ row[j].status # "none" => row'[j].status # "none"
                        /\ row'[j].status = "none" => row'[j].event = None
                        /\ j # i => row'[j] = row[j]
      /\ row'[i].event \in {row[i].event, y.event}
  BY <1>1 DEF EventInv, Shaped
<1>5. Shaped'
  BY <1>1, <1>2, <1>3, <1>4 DEF EventInv, Shaped
<1>6. None \notin Ids
  BY BookingAssumption DEF None
<1>7. ASSUME NEW e \in Ids, NEW j \in Ids, Claims(j, e)', ~Claims(j, e)
      PROVE  j = i /\ e = y.event /\ ~google[e].used /\ google'[e].used
  <2>1. row'[j].event = e
    BY <1>2, <1>3, <1>6, <1>7 DEF Claims
  <2>2. j = i /\ e = y.event
    BY <1>4, <1>7, <2>1 DEF Claims
  <2>3. e # row[i].event /\ e # q.old.event /\ e # None
    BY <1>6, <1>7, <2>2 DEF Claims
  <2>4. QED
    BY <2>2, <2>3
<1>8. ASSUME NEW e \in Ids, NEW j \in Ids, Claims(j, e)', ~Claims(j, e), NEW k \in Ids, Claims(k, e)'
      PROVE  k = j
  <2>1. ~Claims(k, e)
    BY <1>7, <1>8 DEF EventInv, OneClaim
  <2>2. QED
    BY <1>7, <1>8, <2>1
<1>9. OneClaim'
  BY <1>7, <1>8, ClaimsFollow DEF EventInv
<1>10. WhileImporting'
  <2>1. ASSUME "import" \in profile, NEW s \in Requests \ {r}
        PROVE  req'[s].pc = "idle" /\ req'[s].old.event = None
    BY <1>2, <2>1 DEF EventInv, WhileImporting, Shaped
  <2>2. QED
    BY <1>3, <2>1 DEF WhileImporting
<1>11. QED
  BY <1>5, <1>9, <1>10 DEF EventInv

(* Whatever is asked keeps the claims apart.                               *)
LEMMA AskKeepsEvents ==
  ASSUME EventInv, NEW r \in Requests, Ask(r)
  PROVE  EventInv'
<1>1. \A i \in Ids : DOMAIN row[i] = Columns
  BY DEF EventInv, Shaped
<1>2. \A i \in Present : i \in Ids /\ row[i].status # "none"
  BY DEF Present
<1>3. ASSUME NEW a, NEW k, Create(r, a, k) PROVE EventInv'
  <2> DEFINE new == [status |-> "confirmed", what |-> a, key |-> k, event |-> None]
  <2>1. PICK i \in Ids : Unused(i) /\ Begin(r, AfterTest, "create", i, new)
    BY <1>3 DEF Create
  <2>2. row[i].status = "none" /\ row[i].event = None
    BY <2>1 DEF Unused, EventInv, Shaped
  <2>3. DOMAIN new = Columns /\ new.event = None /\ new.status # "none" /\ AfterTest # "idle"
    BY DEF Columns, AfterTest
  <2>4. QED
    BY <2>1, <2>2, <2>3, StartKeepsEvents
<1>4. ASSUME NEW i \in Ids, NEW a, NEW s \in {"confirmed", "cancelled"}, Move(r, i, s, a)
      PROVE  EventInv'
  <2> DEFINE new == [row[i] EXCEPT !.status = s, !.what = a]
  <2>1. Begin(r, AfterTest, "move", i, new) /\ row[i].status # "none" /\ AfterTest # "idle"
    BY <1>2, <1>4 DEF Move, AfterTest
  <2>2. DOMAIN new = Columns /\ new.event = row[i].event /\ new.status # "none"
    BY <1>1 DEF Columns
  <2> HIDE DEF new
  <2>3. QED
    BY <2>1, <2>2, StartKeepsEvents
<1>5. ASSUME NEW i \in Ids, NEW a, NEW s \in {"confirmed", "cancelled"}, Amend(r, i, s, a)
      PROVE  EventInv'
  <2> DEFINE new == [row[i] EXCEPT !.status = s, !.what = a]
  <2>1. Begin(r, "calendar", "move", i, new)
    BY <1>5 DEF Amend
  <2>2. DOMAIN new = Columns /\ new.event = row[i].event /\ new.status # "none"
    BY <1>1 DEF Columns
  <2> HIDE DEF new
  <2>3. QED
    BY <2>1, <2>2, StartKeepsEvents
<1>6. ASSUME NEW i \in Ids, NEW op \in {"cancel", "delete"}, NEW s \in {"cancelled", "deleted"},
             Begin(r, "calendar", op, i, [row[i] EXCEPT !.status = s])
      PROVE  EventInv'
  <2> DEFINE new == [row[i] EXCEPT !.status = s]
  <2>1. DOMAIN new = Columns /\ new.event = row[i].event /\ new.status # "none"
    BY <1>1 DEF Columns
  <2>2. QED
    BY <1>6, <2>1, StartKeepsEvents
<1>7. QED
  BY <1>3, <1>4, <1>5, <1>6 DEF Ask, Cancel, Delete

(* What Google hears sets one event, which is used then.                   *)
LEMMA HeardIsUsed ==
  ASSUME EventInv, NEW r \in Requests, req[r].pc # "idle", Tells(req[r]), NEW e \in Target(req[r]),
         google' = [google EXCEPT ![e] = Heard(req[r], e)]
  PROVE  /\ e \in Ids
         /\ DOMAIN google' = Ids
         /\ \A d \in Ids : google[d].used => google'[d].used
         /\ \A d \in Ids : google'[d].on => google'[d].used
         /\ EventAfter(req[r], e) \notin {None, req[r].old.event}
              => EventAfter(req[r], e) = e /\ ~google[e].used /\ google'[e].used
<1> DEFINE q == req[r]
<1>1. /\ e \in Ids
      /\ q.op = "create" => ~google[e].used
      /\ q.op # "create" => e = q.old.event
  BY DEF Target, Tells, EventInv, Shaped
<1>2. /\ DOMAIN google = Ids /\ google'[e] = Heard(q, e) /\ DOMAIN google' = Ids
      /\ \A d \in Ids \ {e} : google'[d] = google[d]
  BY <1>1 DEF EventInv, Shaped
<1>3. /\ q.op = "create" => Heard(q, e).used
      /\ q.op # "create" /\ google[e].used => Heard(q, e).used
  BY DEF Heard
<1>4. q.op # "create" => google[e].used
  <2>1. SUFFICES ASSUME q.op # "create" PROVE google[e].used
    OBVIOUS
  <2>2. q.id \in Ids /\ Claims(q.id, e)
    BY <1>1, <2>1 DEF Claims, EventInv, Shaped
  <2>3. QED
    BY <1>1, <2>2 DEF EventInv, OneClaim
<1>5. \A d \in Ids : /\ google[d].used => google'[d].used
                     /\ google'[d].on => google'[d].used
  BY <1>1, <1>2, <1>3, <1>4 DEF EventInv, Shaped
<1>6. q.op = "create" => google'[e].used
  BY <1>2, <1>3
<1>7. EventAfter(q, e) \in {None, q.old.event} \/ (q.op = "create" /\ EventAfter(q, e) = e)
  BY <1>1 DEF EventAfter
<1>8. QED
  BY <1>1, <1>2, <1>5, <1>6, <1>7

(* What a request writes is a row, with the event the row has.             *)
LEMMA WrittenKeepsEvent ==
  ASSUME EventInv, NEW r \in Requests, req[r].pc # "idle"
  PROVE  LET q == req[r] IN
         /\ q.id \in Ids /\ q.old.event \in Ids \cup {None}
         /\ DOMAIN q.new = Columns /\ q.new.event = q.old.event /\ q.new.status # "none"
         /\ DOMAIN Written(row[q.id], q) = Columns
         /\ Written(row[q.id], q).event = row[q.id].event
         /\ Written(row[q.id], q).status # "none"
<1> DEFINE q == req[r]
<1>1. /\ q.id \in Ids /\ DOMAIN row[q.id] = Columns /\ DOMAIN q.new = Columns
      /\ q.new.event = q.old.event /\ q.new.status # "none"
      /\ q.old.event \in Ids \cup {None}
      /\ q.old.status # "none" => row[q.id].status # "none"
  BY DEF EventInv, Shaped
<1>2. QED
  BY <1>1 DEF Written, Columns

(* A request under way keeps the claims apart.                             *)
LEMMA ProceedKeepsEvents ==
  ASSUME EventInv, NEW r \in Requests, Proceed(r) \/ Crash(r)
  PROVE  EventInv'
<1> DEFINE q == req[r]
<1>1. /\ DOMAIN google = Ids /\ DOMAIN req = Requests
      /\ \A e \in Ids : google[e].on => google[e].used
  BY DEF EventInv, Shaped
<1>2. req[r].pc # "idle"
  BY DEF Proceed, Busy, Flush, Calendar, Silent, Refresh, Crash
<1>3. /\ q.id \in Ids /\ q.old.event \in Ids \cup {None}
      /\ DOMAIN q.new = Columns /\ q.new.event = q.old.event /\ q.new.status # "none"
      /\ DOMAIN Written(row[q.id], q) = Columns
      /\ Written(row[q.id], q).event = row[q.id].event
      /\ Written(row[q.id], q).status # "none"
  BY <1>2, WrittenKeepsEvent
<1>4. ASSUME Unheard(q)
      PROVE  /\ DOMAIN google' = Ids
             /\ \A e \in Ids : /\ google[e].used => google'[e].used
                               /\ google'[e].on => google'[e].used
  <2>1. CASE UNCHANGED google
    BY <1>1, <2>1
  <2>2. CASE Tells(q) /\ \E e \in Target(q) : google' = [google EXCEPT ![e] = Heard(q, e)]
    BY <1>2, <2>2, HeardIsUsed
  <2>3. QED
    BY <1>4, <2>1, <2>2 DEF Unheard
<1>5. ASSUME NEW x, req' = [req EXCEPT ![r] = [Rest EXCEPT !.answer = x]],
             UNCHANGED <<import, profile>>, Unheard(q), UNCHANGED row \/ Commit(q)
      PROVE  EventInv'
  <2>1. CASE UNCHANGED row
    <3> DEFINE y == q.new
    <3>1. DOMAIN y = Columns /\ y.status # "none" /\ y.event = q.old.event
      BY <1>3
    <3> HIDE DEF y
    <3>2. QED
      BY <1>2, <1>4, <1>5, <2>1, <3>1, EndKeepsEvents
  <2>2. CASE Commit(q)
    <3> DEFINE y == Written(row[q.id], q)
    <3>1. DOMAIN y = Columns /\ y.status # "none" /\ y.event = row[q.id].event
      BY <1>3
    <3>2. row' = [row EXCEPT ![q.id] = y]
      BY <2>2 DEF Commit
    <3> HIDE DEF y
    <3>3. QED
      BY <1>2, <1>4, <1>5, <3>1, <3>2, EndKeepsEvents
  <2>3. QED
    BY <1>5, <2>1, <2>2
<1>6. ASSUME Tell(r)
      PROVE  EventInv'
  <2>1. /\ Tells(q) /\ UNCHANGED <<import, profile>>
        /\ req' = [req EXCEPT ![r] = [Rest EXCEPT !.answer = "done"]]
    BY <1>6 DEF Tell, End, imports
  <2>2. PICK e \in Target(q) :
          /\ google' = [google EXCEPT ![e] = Heard(q, e)]
          /\ row' = [row EXCEPT ![q.id] = [Written(@, q) EXCEPT !.event = EventAfter(q, e)]]
    BY <1>6 DEF Tell
  <2> DEFINE y == [Written(row[q.id], q) EXCEPT !.event = EventAfter(q, e)]
  <2>3. row' = [row EXCEPT ![q.id] = y]
    BY <2>2
  <2>4. DOMAIN y = Columns /\ y.status # "none" /\ y.event = EventAfter(q, e)
    BY <1>3 DEF Columns
  <2> HIDE DEF y
  <2>5. /\ e \in Ids /\ DOMAIN google' = Ids
        /\ \A d \in Ids : google[d].used => google'[d].used
        /\ \A d \in Ids : google'[d].on => google'[d].used
        /\ EventAfter(q, e) \notin {None, q.old.event}
             => EventAfter(q, e) = e /\ ~google[e].used /\ google'[e].used
    BY <1>2, <2>1, <2>2, HeardIsUsed
  <2>6. y.event \in {None, q.old.event} \/ (y.event \in Ids /\ ~google[y.event].used /\ google'[y.event].used)
    BY <2>4, <2>5
  <2>7. QED
    BY <1>2, <2>1, <2>3, <2>4, <2>5, <2>6, EndKeepsEvents
<1>7. ASSUME UNCHANGED <<google, import, profile>>, NEW p, p # "idle", NEW old,
             old \in {q.old, q.new}, old # q.old => Commit(q), UNCHANGED row \/ Commit(q),
             req' = [req EXCEPT ![r] = [q EXCEPT !.pc = p, !.old = old]]
      PROVE  EventInv'
  <2>1. /\ DOMAIN req' = Requests /\ req'[r] = [q EXCEPT !.pc = p, !.old = old]
        /\ \A s \in Requests \ {r} : req'[s] = req[s]
    BY <1>1, <1>7
  <2>2. DOMAIN q = Parts
    BY DEF EventInv, Shaped
  <2>3. /\ req'[r].pc = p /\ req'[r].id = q.id /\ req'[r].op = q.op
        /\ req'[r].new = q.new /\ req'[r].old = old /\ DOMAIN req'[r] = Parts
    BY <2>1, <2>2 DEF Parts
  <2>4. QED
    BY <1>2, <1>7, <2>1, <2>3, AdvanceKeepsEvents
<1>8. Unheard(q) <=> (UNCHANGED google \/ Unheard(q))
  BY DEF Unheard
<1>9. CASE Busy(r)
  <2>1. UNCHANGED <<row, google, import, profile>>
    BY <1>9 DEF Busy, imports
  <2>2. CASE req' = [req EXCEPT ![r].pc = "flush"]
    <3>1. req' = [req EXCEPT ![r] = [q EXCEPT !.pc = "flush", !.old = q.old]]
      BY <2>2
    <3>2. QED
      BY <1>7, <2>1, <3>1
  <2>3. CASE End(r, "failed")
    BY <1>5, <1>8, <2>1, <2>3 DEF End
  <2>4. QED
    BY <1>9, <2>2, <2>3 DEF Busy
<1>10. CASE Flush(r)
  <2>1. UNCHANGED <<row, google, import, profile>>
    BY <1>10 DEF Flush, imports
  <2>2. CASE req' = [req EXCEPT ![r].pc = "calendar"]
    <3>1. req' = [req EXCEPT ![r] = [q EXCEPT !.pc = "calendar", !.old = q.old]]
      BY <2>2
    <3>2. QED
      BY <1>7, <2>1, <3>1
  <2>3. CASE End(r, "failed")
    BY <1>5, <1>8, <2>1, <2>3 DEF End
  <2>4. QED
    BY <1>10, <2>2, <2>3 DEF Flush
<1>11. CASE TellFails(r)
  BY <1>5, <1>11 DEF TellFails, End, Undone, imports
<1>12. CASE AgainFails(r)
  BY <1>5, <1>12 DEF AgainFails, End, imports
<1>13. CASE Silent(r)
  BY <1>5, <1>8, <1>13 DEF Silent, End, imports
<1>14. CASE Refresh(r)
  <2>1. UNCHANGED <<google, import, profile>> /\ (UNCHANGED row \/ Commit(q))
    BY <1>14 DEF Refresh, imports
  <2> DEFINE old == IF q.op = "delete" THEN q.old ELSE q.new
  <2>2. CASE req' = [req EXCEPT ![r].pc = "again", ![r].old = old]
    <3>1. req' = [req EXCEPT ![r] = [q EXCEPT !.pc = "again", !.old = old]]
      BY <2>2
    <3>2. old \in {q.old, q.new} /\ (old # q.old => Commit(q))
      BY <1>14 DEF Refresh
    <3> HIDE DEF old
    <3>3. QED
      BY <1>7, <2>1, <3>1, <3>2
  <2>3. CASE \E x : End(r, x)
    BY <1>5, <1>8, <2>1, <2>3 DEF End
  <2>4. QED
    BY <1>14, <2>2, <2>3 DEF Refresh
<1>15. CASE Crash(r)
  <2>1. Rest = [Rest EXCEPT !.answer = "none"]
    BY DEF Rest
  <2>2. QED
    BY <1>5, <1>15, <2>1 DEF Crash, imports
<1>16. QED
  BY <1>6, <1>9, <1>10, <1>11, <1>12, <1>13, <1>14, <1>15 DEF Proceed, Calendar

(* An import gives a row of its own to an event that no row has and no     *)
(* request read; of the other rows it changes no event.                    *)
LEMMA ApplyKeepsEvents ==
  ASSUME EventInv, Apply
  PROVE  EventInv'
<1>1. /\ "import" \in profile
      /\ UNCHANGED <<google, req, profile>> /\ import' = [import EXCEPT !.pc = "idle"]
  BY DEF EventInv, Shaped, Apply
<1>2. None \notin Ids
  BY BookingAssumption DEF None
<1>3. PICK new \in SUBSET NewEvents, at \in [NewEvents -> Ids] :
        /\ \A e \in new : Unused(at[e])
        /\ \A e, d \in new : e # d => at[e] # at[d]
        /\ row' = [i \in Ids |->
             IF \E e \in new : at[e] = i
             THEN LET e == CHOOSE e \in new : at[e] = i
                      a == import.seen[e].what IN
                  [status |-> "confirmed", key |-> e, event |-> e,
                   what |-> [a EXCEPT !.service = NoService, !.employee = NoOne]]
             ELSE Imported(i)]
  BY DEF Apply
<1>4. \A e \in new : e \in Ids /\ import.seen[e].on /\ Found(e) = {} /\ at[e] \in Ids
  BY <1>3 DEF NewEvents, Listed
<1>5. ASSUME NEW e \in new
      PROVE  /\ DOMAIN row'[at[e]] = Columns /\ row'[at[e]].event = e
             /\ row'[at[e]].status = "confirmed"
             /\ row[at[e]].status = "none" /\ \A r \in Requests : req[r].id # at[e]
  <2>1. e = CHOOSE d \in new : at[d] = at[e]
    BY <1>3
  <2>2. row'[at[e]] = [status |-> "confirmed", key |-> e, event |-> e,
                       what |-> [import.seen[e].what EXCEPT !.service = NoService, !.employee = NoOne]]
    BY <1>3, <1>4, <2>1
  <2>3. QED
    BY <1>3, <2>2 DEF Unused, Columns
<1>6. ASSUME NEW i \in Ids, \A e \in new : at[e] # i
      PROVE  /\ DOMAIN row'[i] = Columns /\ row'[i].event = row[i].event
             /\ row[i].status # "none" => row'[i].status # "none"
             /\ row'[i].status = "none" => row'[i].event = None
  <2>1. row'[i] = Imported(i)
    BY <1>3, <1>6
  <2>2. /\ DOMAIN row[i] = Columns
        /\ row[i].status = "none" => row[i].event = None
    BY DEF EventInv, Shaped
  <2>3. CASE row[i].event \notin Listed \/ row[i].status = "deleted"
    BY <2>1, <2>2, <2>3 DEF Imported
  <2>4. CASE ~(row[i].event \notin Listed \/ row[i].status = "deleted")
    <3> DEFINE e == import.seen[row[i].event]
    <3>1. row'[i] = [row[i] EXCEPT !.status = "confirmed", !.what.start = e.what.start,
                                   !.what.end = e.what.end]
      BY <2>1, <2>4 DEF Imported
    <3>2. QED
      BY <2>2, <3>1 DEF Columns
  <2>5. QED
    BY <2>3, <2>4
<1>7. ASSUME NEW e \in Ids, NEW i \in Ids, Claims(i, e)', ~Claims(i, e)
      PROVE  e \in new /\ i = at[e]
  <2>1. row'[i].event = e /\ row[i].event # e
    BY <1>1, <1>7 DEF Claims
  <2>2. QED
    BY <1>4, <1>5, <1>6, <2>1
<1>8. ASSUME NEW e \in new, NEW i \in Ids, Claims(i, e)'
      PROVE  i = at[e]
  <2>1. row[i].event # e
    BY <1>4 DEF Found
  <2>2. ASSUME NEW r \in Requests PROVE req[r].old.event # e
    <3>1. e # None
      BY <1>2, <1>4
    <3>2. req[r].old.event # None => req[r].id \in Ids /\ row[req[r].id].event = req[r].old.event
      BY <1>1 DEF EventInv, Shaped, WhileImporting
    <3>3. QED
      BY <1>4, <3>1, <3>2 DEF Found
  <2>3. ~Claims(i, e)
    BY <2>1, <2>2 DEF Claims
  <2>4. QED
    BY <1>4, <1>7, <1>8, <2>3
<1>9. \A e \in new : google[e].used
  BY <1>4 DEF EventInv, Shaped
<1>10. OneClaim'
  BY <1>1, <1>7, <1>8, <1>9, ClaimsFollow DEF EventInv
<1>11. ASSUME NEW i \in Ids
       PROVE  /\ DOMAIN row'[i] = Columns /\ row'[i].event \in Ids \cup {None}
              /\ row[i].status # "none" => row'[i].status # "none"
              /\ row'[i].status = "none" => row'[i].event = None
  <2>1. row[i].event \in Ids \cup {None}
    BY DEF EventInv, Shaped
  <2>2. CASE \E e \in new : at[e] = i
    BY <1>4, <1>5, <2>2
  <2>3. CASE \A e \in new : at[e] # i
    BY <1>6, <2>1, <2>3
  <2>4. QED
    BY <2>2, <2>3
<1>12. DOMAIN row' = Ids /\ import'.seen = import.seen
  <2>1. DOMAIN import = {"pc", "seen"}
    BY DEF EventInv, Shaped
  <2>2. QED
    BY <1>1, <1>3, <2>1
<1>13. Shaped'
  BY <1>1, <1>11, <1>12 DEF EventInv, Shaped
<1>14. WhileImporting'
  <2>1. ASSUME NEW r \in Requests, req[r].old.event # None
        PROVE  row'[req[r].id].event = req[r].old.event
    <3>1. req[r].id \in Ids /\ row[req[r].id].event = req[r].old.event
      BY <1>1, <2>1 DEF EventInv, Shaped, WhileImporting
    <3>2. \A e \in new : at[e] # req[r].id
      BY <1>5
    <3>3. QED
      BY <1>6, <3>1, <3>2
  <2>2. QED
    BY <1>1, <2>1 DEF EventInv, WhileImporting
<1>15. QED
  BY <1>10, <1>13, <1>14 DEF EventInv

(* At first there is no event, and no request.                             *)
LEMMA InitEventInv == Init => EventInv
<1>1. SUFFICES ASSUME Init PROVE EventInv
  OBVIOUS
<1>2. None \notin Ids
  BY BookingAssumption DEF None
<1>3. /\ DOMAIN row = Ids /\ DOMAIN google = Ids /\ DOMAIN req = Requests
      /\ \A i \in Ids : row[i] = Blank /\ google[i] = NoEvent
      /\ \A r \in Requests : req[r] = Rest
      /\ DOMAIN import = {"pc", "seen"} /\ import.pc = "idle" /\ import.seen = google
  BY <1>1 DEF Init
<1>4. /\ DOMAIN Blank = Columns /\ Blank.event = None
      /\ DOMAIN Rest = Parts /\ Rest.pc = "idle" /\ Rest.id = None
      /\ Rest.old = Blank /\ Rest.new = Blank /\ ~NoEvent.on
  BY DEF Blank, Rest, NoEvent, Columns, Parts
<1>5. Shaped
  BY <1>3, <1>4 DEF Shaped
<1>6. \A i, e \in Ids : ~Claims(i, e)
  BY <1>2, <1>3, <1>4 DEF Claims
<1>7. QED
  BY <1>3, <1>4, <1>5, <1>6 DEF EventInv, OneClaim, WhileImporting

(* Every step keeps the claims to the events apart.                        *)
LEMMA NextKeepsEvents ==
  ASSUME EventInv, [Next]_vars
  PROVE  EventInv'
<1>1. CASE UNCHANGED vars
  <2>1. UNCHANGED <<row, google, req, import, profile>>
    BY <1>1 DEF vars
  <2>2. QED
    BY <2>1 DEF EventInv, Shaped, OneClaim, Claims, WhileImporting
<1>2. ASSUME UNCHANGED <<row, google, req, profile>>, "import" \in profile,
             DOMAIN import' = {"pc", "seen"}, import'.seen \in {import.seen, google}
      PROVE  EventInv'
  <2>1. \A e \in Ids : import'.seen[e].on => google[e].used
    BY <1>2 DEF EventInv, Shaped
  <2>2. Shaped'
    BY <1>2, <2>1 DEF EventInv, Shaped
  <2>3. QED
    BY <1>2, <2>2 DEF EventInv, OneClaim, Claims, WhileImporting
<1>3. CASE StartImport \/ List \/ ImportFails
  <2>1. /\ UNCHANGED <<row, google, req, profile>> /\ "import" \in profile
        /\ DOMAIN import = {"pc", "seen"}
    BY <1>3 DEF StartImport, List, ImportFails, EventInv, Shaped
  <2>2. DOMAIN import' = {"pc", "seen"} /\ import'.seen \in {import.seen, google}
    BY <1>3, <2>1 DEF StartImport, List, ImportFails
  <2>3. QED
    BY <1>2, <2>1, <2>2
<1>4. ASSUME NEW e \in Ids, OwnerEdits(e) PROVE EventInv'
  <2>1. UNCHANGED <<row, req, import, profile>> /\ DOMAIN google = Ids
    BY <1>4 DEF OwnerEdits, imports, EventInv, Shaped
  <2>2. PICK v : google' = [google EXCEPT ![e] = v] /\ v.used
    <3>1. CASE \E a \in MayWant : google' = [google EXCEPT ![e] = [used |-> TRUE, on |-> TRUE, what |-> a]]
      <4>1. PICK a \in MayWant : google' = [google EXCEPT ![e] = [used |-> TRUE, on |-> TRUE, what |-> a]]
        BY <3>1
      <4>2. [used |-> TRUE, on |-> TRUE, what |-> a].used
        OBVIOUS
      <4>3. QED
        BY <4>1, <4>2
    <3>2. CASE google[e].on /\ google' = [google EXCEPT ![e].on = FALSE]
      <4>1. google[e].used
        BY <3>2 DEF EventInv, Shaped
      <4>2. google' = [google EXCEPT ![e] = [google[e] EXCEPT !.on = FALSE]]
            /\ [google[e] EXCEPT !.on = FALSE].used
        BY <3>2, <4>1
      <4>3. QED
        BY <4>2
    <3>3. CASE google[e].on /\ \E a \in MayWant : google' = [google EXCEPT ![e].what = a]
      <4>1. PICK a \in MayWant : google' = [google EXCEPT ![e] = [google[e] EXCEPT !.what = a]]
        BY <3>3
      <4>2. [google[e] EXCEPT !.what = a].used
        BY <3>3 DEF EventInv, Shaped
      <4>3. QED
        BY <4>1, <4>2
    <3>4. QED
      BY <1>4, <3>1, <3>2, <3>3 DEF OwnerEdits
  <2>3. /\ DOMAIN google' = Ids
        /\ \A d \in Ids : (google[d].used => google'[d].used) /\ (google'[d].on => google'[d].used)
    BY <2>1, <2>2 DEF EventInv, Shaped
  <2>4. Shaped'
    BY <2>1, <2>3 DEF EventInv, Shaped
  <2>5. QED
    BY <2>1, <2>3, <2>4 DEF EventInv, OneClaim, Claims, WhileImporting
<1>5. QED
  BY <1>1, <1>3, <1>4, AskKeepsEvents, ProceedKeepsEvents, ApplyKeepsEvents DEF Next, Import

(* An event is of one appointment at most, whatever is lost, whenever the  *)
(* lock ends, and whatever an import finds.                                *)
THEOREM EventInvariance == Spec => []EventInv
<1>1. EventInv /\ [Next]_vars => EventInv'
  BY NextKeepsEvents
<1>2. QED
  BY <1>1, InitEventInv, PTL DEF Spec

-----------------------------------------------------------------------------
(* A request that fails                                                    *)

(* While the lock lasts, who works holds it alone, and the row it found is *)
(* what the row still is.                                                  *)
FoundStays ==
  /\ lock \subseteq Requests /\ \A r, s \in lock : r = s
  /\ \A r \in Requests :
       /\ req[r].pc # "idle" => /\ r \in lock /\ req[r].pc # "again" /\ req[r].answer = "none"
                                /\ row[req[r].id] = req[r].found
  /\ conn \in {"none", "connected"}

ReadInv == EventInv /\ (Locked => FoundStays)

(* What a request under way does to the rest, while the lock lasts.        *)
LEMMA ProceedWhileLocked ==
  ASSUME ReadInv, Locked, NEW r \in Requests, Proceed(r) \/ Crash(r)
  PROVE  /\ req[r].pc # "idle" /\ r \in lock /\ conn' \in {"none", "connected"}
         /\ \A s \in Requests \ {r} : req'[s] = req[s]
         /\ \/ UNCHANGED <<row, lock>> /\ \E p \in {"flush", "calendar"} : req' = [req EXCEPT ![r].pc = p]
            \/ /\ lock' = lock \ {r} /\ req'[r].pc = "idle" /\ req'[r].answer \in {"none", "done", "failed"}
               /\ req'[r].answer = "failed" => UNCHANGED row
<1>1. /\ DOMAIN req = Requests /\ DOMAIN req[r] = Parts
      /\ "expired" \notin profile /\ conn \in {"none", "connected"} /\ req[r].pc # "again"
  BY DEF ReadInv, EventInv, Shaped, Locked, FoundStays
<1>2. req[r].pc # "idle"
  BY <1>1 DEF Proceed, Busy, Flush, Calendar, Silent, Refresh, Crash
<1>3. r \in lock
  BY <1>2 DEF ReadInv, FoundStays
<1>4. ASSUME NEW x \in {"none", "done", "failed"},
             req' = [req EXCEPT ![r] = [Rest EXCEPT !.answer = x]]
      PROVE  /\ req'[r].pc = "idle" /\ req'[r].answer = x
             /\ \A s \in Requests \ {r} : req'[s] = req[s]
  <2>1. req'[r] = [Rest EXCEPT !.answer = x]
    BY <1>1, <1>4
  <2>2. QED
    BY <1>1, <1>4, <2>1 DEF Rest
<1>5. CASE Busy(r)
  BY <1>1, <1>2, <1>3, <1>4, <1>5 DEF Busy, End, Unlock
<1>6. CASE Flush(r)
  BY <1>1, <1>2, <1>3, <1>4, <1>6 DEF Flush, End, Unlock
<1>7. CASE Tell(r)
  BY <1>1, <1>2, <1>3, <1>4, <1>7 DEF Tell, End, Unlock
<1>8. CASE TellFails(r)
  BY <1>1, <1>2, <1>3, <1>4, <1>8 DEF TellFails, End, Unlock, Undone
<1>9. CASE Silent(r)
  BY <1>1, <1>2, <1>3, <1>4, <1>9 DEF Silent, End, Unlock
<1>10. CASE Crash(r)
  <2>1. Rest = [Rest EXCEPT !.answer = "none"]
    BY DEF Rest
  <2>2. QED
    BY <1>1, <1>2, <1>3, <1>4, <1>10, <2>1 DEF Crash, Unlock
<1>11. QED
  BY <1>1, <1>5, <1>6, <1>7, <1>8, <1>9, <1>10 DEF Proceed, Calendar, Refresh

(* Asking starts one request, when nobody works.                           *)
LEMMA AskWhileLocked ==
  ASSUME ReadInv, Locked, NEW r \in Requests, Ask(r)
  PROVE  /\ lock = {} /\ lock' = {r} /\ UNCHANGED <<row, conn>> /\ req[r].pc = "idle"
         /\ \A s \in Requests \ {r} : req'[s] = req[s]
         /\ req'[r].pc # "again" /\ req'[r].answer = "none"
         /\ row[req'[r].id] = req'[r].found
<1>1. DOMAIN req = Requests
  BY DEF ReadInv, EventInv, Shaped
<1>2. ASSUME NEW step \in {"busy", "flush", "calendar"}, NEW op, NEW i, NEW new,
             Begin(r, step, op, i, new)
      PROVE  /\ lock = {} /\ lock' = {r} /\ UNCHANGED <<row, conn>> /\ req[r].pc = "idle"
             /\ \A s \in Requests \ {r} : req'[s] = req[s]
             /\ req'[r].pc # "again" /\ req'[r].answer = "none"
             /\ row[req'[r].id] = req'[r].found
  BY <1>1, <1>2 DEF Begin, LockFree
<1>3. AfterTest \in {"busy", "flush", "calendar"}
  BY DEF AfterTest
<1>4. QED
  BY <1>2, <1>3 DEF Ask, Create, Move, Amend, Cancel, Delete

(* What requests found is kept while the lock lasts.                       *)
LEMMA NextKeepsFound ==
  ASSUME ReadInv, [Next]_vars
  PROVE  ReadInv'
<1>1. EventInv' /\ profile' = profile
  BY NextKeepsEvents, ProfileStays DEF ReadInv
<1>2. SUFFICES ASSUME Locked PROVE FoundStays'
  BY <1>1 DEF ReadInv, Locked
<1>3. /\ lock \subseteq Requests /\ \A r, s \in lock : r = s
      /\ \A r \in Requests : req[r].pc # "idle" =>
           /\ r \in lock /\ req[r].pc # "again" /\ req[r].answer = "none"
           /\ row[req[r].id] = req[r].found
      /\ conn \in {"none", "connected"}
      /\ "import" \notin profile /\ import.pc = "idle"
      /\ \A r \in Requests : DOMAIN req[r] = Parts /\ DOMAIN req = Requests
  BY <1>2 DEF ReadInv, FoundStays, Locked, EventInv, Shaped
<1>4. CASE UNCHANGED vars
  BY <1>3, <1>4 DEF vars, FoundStays
<1>5. ASSUME NEW r \in Requests, Ask(r) PROVE FoundStays'
  BY <1>2, <1>3, <1>5, AskWhileLocked DEF FoundStays
<1>6. ASSUME NEW r \in Requests, Proceed(r) \/ Crash(r) PROVE FoundStays'
  <2>1. /\ r \in lock /\ conn' \in {"none", "connected"}
        /\ \A s \in Requests \ {r} : req'[s] = req[s] /\ req[s].pc = "idle"
    BY <1>2, <1>3, <1>6, ProceedWhileLocked
  <2>2. CASE UNCHANGED <<row, lock>> /\ \E p \in {"flush", "calendar"} : req' = [req EXCEPT ![r].pc = p]
    <3>1. /\ req'[r].pc # "again" /\ req'[r].answer = req[r].answer
          /\ req'[r].id = req[r].id /\ req'[r].found = req[r].found
          /\ req[r].pc # "idle"
      <4>1. PICK p \in {"flush", "calendar"} : req' = [req EXCEPT ![r].pc = p]
        BY <2>2
      <4>2. req'[r] = [req[r] EXCEPT !.pc = p] /\ DOMAIN req[r] = Parts
        BY <1>3, <4>1
      <4>3. req[r].pc # "idle"
        BY <1>2, <1>6, ProceedWhileLocked
      <4>4. QED
        BY <4>2, <4>3 DEF Parts
    <3>2. QED
      BY <1>3, <2>1, <2>2, <3>1 DEF FoundStays
  <2>3. CASE lock' = lock \ {r} /\ req'[r].pc = "idle"
    BY <1>3, <2>1, <2>3 DEF FoundStays
  <2>4. QED
    BY <1>2, <1>6, <2>2, <2>3, ProceedWhileLocked
<1>7. CASE StartImport \/ Import \/ \E e \in Ids : OwnerEdits(e)
  BY <1>3, <1>7 DEF StartImport, Import, List, Apply, ImportFails, OwnerEdits
<1>8. QED
  BY <1>4, <1>5, <1>6, <1>7 DEF Next

(* A request that answers with a failure leaves its row as it found it.    *)
LEMMA FailureChangesNothing ==
  ASSUME ReadInv, [Next]_vars, Locked, NEW r \in Requests,
         req[r].pc # "idle", req'[r].answer = "failed"
  PROVE  row'[req[r].id] = req[r].found
<1>1. row[req[r].id] = req[r].found /\ req[r].answer = "none" /\ r \in lock
  BY DEF ReadInv, FoundStays
<1>2. CASE UNCHANGED vars
  BY <1>1, <1>2 DEF vars
<1>3. ASSUME NEW s \in Requests, Ask(s) PROVE FALSE
  BY <1>1, <1>3, AskWhileLocked
<1>4. ASSUME NEW s \in Requests, Proceed(s) \/ Crash(s)
      PROVE  row'[req[r].id] = req[r].found
  <2>1. s = r
    BY <1>1, <1>4, ProceedWhileLocked DEF ReadInv, FoundStays
  <2>2. UNCHANGED row
    BY <1>4, <2>1, ProceedWhileLocked
  <2>3. QED
    BY <1>1, <2>2
<1>5. CASE StartImport \/ Import \/ \E e \in Ids : OwnerEdits(e)
  BY <1>5 DEF StartImport, Import, List, Apply, ImportFails, OwnerEdits, Locked, ReadInv, EventInv, Shaped
<1>6. QED
  BY <1>2, <1>3, <1>4, <1>5 DEF Next

(* A failed booking, move or deletion has changed nothing, while nothing   *)
(* commits in the midst of its transaction.                                *)
THEOREM FailuresChangeNothing == Spec => FailedChangesNothing
<1>1. Init => ReadInv
  <2>1. SUFFICES ASSUME Init PROVE ReadInv
    OBVIOUS
  <2>2. \A r \in Requests : req[r].pc = "idle"
    BY <2>1 DEF Init, Rest
  <2>3. QED
    BY <2>1, <2>2, InitEventInv DEF Init, ReadInv, FoundStays
<1>2. ReadInv /\ [Next]_vars => ReadInv'
  BY NextKeepsFound
<1>3. ReadInv /\ [Next]_vars =>
        [\A r \in Requests : (req[r].pc # "idle" /\ req'[r].answer = "failed" /\ Locked)
                             => row'[req[r].id] = req[r].found]_vars
  BY FailureChangesNothing
<1>4. QED
  BY <1>1, <1>2, <1>3, PTL DEF Spec, FailedChangesNothing

-----------------------------------------------------------------------------
(* What Google shows                                                       *)

(* An event is of an appointment, at its time, and of a confirmed one       *)
(* unless updates may name a status.                                        *)
MayShow(status) == status = "confirmed" \/ (status = "cancelled" /\ profile # {})
Shows(i) == row[i].event # None =>
  /\ MayShow(row[i].status)
  /\ google[row[i].event].on /\ google[row[i].event].what = row[i].what
Owned(e) == google[e].on => Found(e) # {}
Shown == (\A i \in Ids : Shows(i)) /\ (\A e \in Ids : Owned(e))

Calmly == profile \subseteq {"status"} => IInv /\ Shown

(* A change of a row without an event shows nothing else.                  *)
LEMMA EventlessWrite ==
  ASSUME EventInv, Shown, UNCHANGED <<google, profile>>, NEW i \in Ids, NEW y, row' = [row EXCEPT ![i] = y],
         row[i].event = None, y.event = None
  PROVE  Shown'
<1>1. /\ DOMAIN row = Ids /\ None \notin Ids
      /\ \A j \in Ids : row'[j].event = row[j].event /\ (row[j].event # None => row'[j] = row[j])
  BY BookingAssumption DEF None, EventInv, Shaped
<1>2. \A e \in Ids : Found(e)' = Found(e)
  BY <1>1 DEF Found
<1>3. QED
  BY <1>1, <1>2 DEF Shown, Shows, Owned, MayShow

(* Telling Google shows what is written: an event of the row alone is set. *)
LEMMA ToldWrite ==
  ASSUME EventInv, Shown, NEW i \in Ids, NEW e \in Ids, NEW y, NEW v,
         row' = [row EXCEPT ![i] = y], google' = [google EXCEPT ![e] = v], profile' = profile,
         \A j \in Ids \ {i} : row[j].event # e,
         row[i].event \in {None, e},
         \/ y.event = e /\ MayShow(y.status) /\ v.on /\ v.what = y.what
         \/ y.event = None /\ ~v.on
  PROVE  Shown'
<1>1. /\ DOMAIN row = Ids /\ DOMAIN google = Ids /\ None \notin Ids
      /\ \A j \in Ids : row[j].event \in Ids \cup {None}
  BY BookingAssumption DEF None, EventInv, Shaped
<1>2. /\ row'[i] = y /\ \A j \in Ids \ {i} : row'[j] = row[j]
      /\ google'[e] = v /\ \A d \in Ids \ {e} : google'[d] = google[d]
  BY <1>1
<1>3. Shows(i)'
  BY <1>2 DEF Shows, MayShow
<1>4. ASSUME NEW j \in Ids \ {i} PROVE Shows(j)'
  <2>1. row'[j] = row[j] /\ row[j].event # e /\ Shows(j)
    BY <1>2 DEF Shown
  <2>2. row[j].event # None => google'[row[j].event] = google[row[j].event]
    BY <1>1, <1>2, <2>1
  <2>3. QED
    BY <2>1, <2>2 DEF Shows, MayShow
<1>5. Owned(e)'
  <2>1. y.event = e => i \in Found(e)'
    BY <1>2 DEF Found
  <2>2. QED
    BY <1>2, <2>1 DEF Owned
<1>6. ASSUME NEW d \in Ids \ {e} PROVE Owned(d)'
  <2>1. google'[d] = google[d] /\ Owned(d)
    BY <1>2 DEF Shown
  <2>2. \A j \in Found(d) : j # i /\ row'[j] = row[j]
    BY <1>1, <1>2, <1>6 DEF Found
  <2>3. Found(d) \subseteq Found(d)'
    BY <2>2 DEF Found
  <2>4. QED
    BY <2>1, <2>3 DEF Owned
<1>7. QED
  BY <1>3, <1>4, <1>5, <1>6 DEF Shown

(* While nothing else happens, a request keeps Google and the rows alike.  *)
LEMMA ProceedShows ==
  ASSUME EventInv, IInv, Shown, profile \subseteq {"status"}, NEW r \in Requests, Proceed(r) \/ Crash(r)
  PROVE  Shown'
<1> DEFINE q == req[r]
<1>1. "loss" \notin profile /\ "expired" \notin profile /\ conn \in {"none", "connected"} /\ q.pc # "again"
      /\ None \notin Ids /\ profile' = profile
  <2>1. profile' = profile
    BY DEF Proceed, Busy, Flush, Calendar, Tell, TellFails, AgainFails, Silent, Refresh, Crash,
           imports
  <2>2. QED
    BY <2>1, BookingAssumption DEF IInv, Typed, Reqs, None
<1>2. ASSUME UNCHANGED <<row, google>> PROVE Shown'
  BY <1>1, <1>2 DEF Shown, Shows, Owned, MayShow, Found
<1>3. ASSUME q.pc = "calendar"
      PROVE  /\ r \in lock /\ q.id \in Ids /\ q.old = row[q.id] /\ q.new \in Rows /\ row[q.id] \in Rows
             /\ q.new.event = q.old.event /\ Written(row[q.id], q) = q.new
             /\ q.op = "create" => q.old.event = None /\ q.new.status = "confirmed"
             /\ q.op = "move" /\ MayShow(q.old.status) => MayShow(q.new.status)
             /\ q.op \in {"create", "move", "cancel", "delete"}
  <2>1. r \in lock /\ q \in Reqs /\ Fits(q)
    BY <1>3 DEF IInv, Typed, OneWorks
  <2>2. q.id \in Ids /\ q.old = row[q.id] /\ q.new \in Rows /\ row[q.id] \in Rows
    BY <2>1 DEF Fits, Reqs, IInv, Typed
  <2>3. q.op = "move" /\ MayShow(q.old.status) => MayShow(q.new.status)
    BY <2>1 DEF Fits, MayShow
  <2>4. /\ q.op = "create" => q.old.event = None
        /\ q.new.event = q.old.event
    BY DEF EventInv, Shaped
  <2>5. /\ q.op = "create" => q.new.status = "confirmed"
        /\ q.op \in {"create", "move", "cancel", "delete"}
    BY <2>1 DEF Fits
  <2>6. Written(row[q.id], q) = q.new
    BY <2>1, <2>2, WrittenIsNew
  <2>7. QED
    BY <2>1, <2>2, <2>3, <2>4, <2>5, <2>6
<1>4. ASSUME q.pc = "calendar", Commit(q), UNCHANGED google, q.old.event = None
      PROVE  Shown'
  <2>1. row' = [row EXCEPT ![q.id] = q.new] /\ q.new.event = None /\ row[q.id].event = None
    BY <1>3, <1>4 DEF Commit
  <2>2. QED
    BY <1>1, <1>3, <1>4, <2>1, EventlessWrite
<1>5. CASE q.pc = "calendar" /\ Tell(r)
  <2>1. PICK e \in Target(q) :
          /\ google' = [google EXCEPT ![e] = Heard(q, e)]
          /\ row' = [row EXCEPT ![q.id] = [q.new EXCEPT !.event = EventAfter(q, e)]]
    BY <1>3, <1>5 DEF Tell
  <2>2. Tells(q) /\ e \in Ids
    <3>1. Tells(q)
      BY <1>5 DEF Tell
    <3>2. QED
      BY <1>5, <2>1, <3>1, HeardIsUsed
  <2> DEFINE y == [q.new EXCEPT !.event = EventAfter(q, e)]
             v == Heard(q, e)
  <2>3. y.event = EventAfter(q, e) /\ y.status = q.new.status /\ y.what = q.new.what
    BY <1>3, <1>5 DEF Rows
  <2>4. CASE q.op = "create"
    <3>1. ~google[e].used /\ y.event = e /\ v.on /\ v.what = y.what /\ row[q.id].event = None
          /\ MayShow(y.status)
      BY <1>3, <1>5, <2>1, <2>3, <2>4 DEF Target, Heard, EventAfter, MayShow
    <3>2. \A j \in Ids : row[j].event # e
      BY <2>2, <3>1 DEF EventInv, OneClaim, Claims
    <3> HIDE DEF y, v
    <3>3. QED
      BY <1>1, <1>3, <1>5, <2>1, <2>2, <3>1, <3>2, ToldWrite DEF y, v
  <2>5. CASE q.op # "create"
    <3>1. e = row[q.id].event /\ e # None
      BY <1>1, <1>3, <1>5, <2>1, <2>2, <2>5 DEF Target
    <3>2. \A j \in Ids \ {q.id} : row[j].event # e
      BY <1>3, <1>5, <2>2, <3>1 DEF EventInv, OneClaim, Claims
    <3>3. MayShow(row[q.id].status) /\ google[e].on
      BY <1>3, <1>5, <3>1 DEF Shown, Shows
    <3>4. CASE q.op = "move"
      <4>1. y.event = e /\ MayShow(y.status)
        BY <1>3, <1>5, <2>3, <3>3, <3>4 DEF EventAfter
      <4>2. v.on /\ v.what = y.what
        <5>1. v = [google[e] EXCEPT !.what = q.new.what]
          BY <3>3, <3>4 DEF Heard
        <5>2. QED
          BY <2>3, <3>3, <5>1
      <4>3. row' = [row EXCEPT ![q.id] = y] /\ google' = [google EXCEPT ![e] = v]
        BY <2>1
      <4>4. q.id \in Ids /\ e \in Ids /\ row[q.id].event \in {None, e} /\ profile' = profile
        BY <1>1, <1>3, <1>5, <2>2, <3>1
      <4> HIDE DEF y, v, q
      <4>5. QED
        BY <3>2, <4>1, <4>2, <4>3, <4>4, ToldWrite
    <3>5. CASE q.op # "move"
      <4>1. y.event = None
        BY <2>3, <2>5, <3>5 DEF EventAfter
      <4>2. ~v.on
        <5>1. v = [google[e] EXCEPT !.on = FALSE]
          BY <2>5, <3>5 DEF Heard
        <5>2. QED
          BY <3>3, <5>1
      <4>3. row' = [row EXCEPT ![q.id] = y] /\ google' = [google EXCEPT ![e] = v]
        BY <2>1
      <4>4. q.id \in Ids /\ e \in Ids /\ row[q.id].event \in {None, e} /\ profile' = profile
        BY <1>1, <1>3, <1>5, <2>2, <3>1
      <4> HIDE DEF y, v, q
      <4>5. QED
        BY <3>2, <4>1, <4>2, <4>3, <4>4, ToldWrite
    <3>6. QED
      BY <3>4, <3>5
  <2>6. QED
    BY <2>4, <2>5
<1>6. CASE q.pc = "calendar" /\ TellFails(r)
  <2>1. UNCHANGED google
    BY <1>1, <1>6 DEF TellFails, Unheard
  <2>2. CASE Kept(q)
    BY <1>3, <1>4, <1>6, <2>1, <2>2 DEF TellFails, Kept
  <2>3. CASE ~Kept(q)
    BY <1>2, <1>6, <2>1, <2>3 DEF TellFails, Undone
  <2>4. QED
    BY <2>2, <2>3
<1>7. CASE Silent(r)
  <2>1. q.pc = "calendar" /\ Commit(q) /\ UNCHANGED google
    BY <1>7 DEF Silent
  <2>2. q.old.event = None
    BY <1>3, <1>7, <2>1 DEF Silent
  <2>3. QED
    BY <1>4, <2>1, <2>2
<1>8. CASE Busy(r) \/ Flush(r)
  BY <1>2, <1>8 DEF Busy, Flush
<1>9. QED
  BY <1>1, <1>5, <1>6, <1>7, <1>8 DEF Proceed, Calendar, Refresh, Crash

(* Google shows the confirmed appointments told to it, and no other.       *)
LEMMA NextKeepsShown ==
  ASSUME EventInv, Calmly, [Next]_vars
  PROVE  Calmly'
<1>1. profile' = profile
  BY ProfileStays
<1>2. SUFFICES ASSUME profile \subseteq {"status"} PROVE IInv' /\ Shown'
  BY <1>1 DEF Calmly
<1>3. Guarded /\ IInv /\ Shown
  BY <1>2 DEF Guarded, Locked, Calmly
<1>4. IInv'
  BY <1>3, GuardedSteps, KindKeepsIInv
<1>5. ASSUME UNCHANGED <<row, google>> PROVE Shown'
  BY <1>1, <1>3, <1>5 DEF Shown, Shows, Owned, MayShow, Found
<1>6. CASE UNCHANGED vars
  <2>1. UNCHANGED <<row, google>>
    BY <1>6 DEF vars
  <2>2. QED
    BY <1>4, <1>5, <2>1
<1>7. ASSUME NEW r \in Requests, Ask(r) PROVE Shown'
  BY <1>5, <1>7 DEF Ask, Create, Move, Amend, Cancel, Delete, Begin
<1>8. ASSUME NEW r \in Requests, Proceed(r) \/ Crash(r) PROVE Shown'
  BY <1>2, <1>3, <1>8, ProceedShows
<1>9. CASE StartImport \/ Import \/ \E e \in Ids : OwnerEdits(e)
  BY <1>2, <1>3, <1>9 DEF StartImport, Import, List, Apply, ImportFails, OwnerEdits, IInv, Typed
<1>10. QED
  BY <1>4, <1>6, <1>7, <1>8, <1>9 DEF Next

(* Google Calendar and the CRM agree: an event is of one appointment at    *)
(* most, always; and while nothing is lost, refreshed or edited at Google, *)
(* it shows each appointment it was told of at its time, and no other, and *)
(* a cancelled one only if updates name a status.                          *)
THEOREM AgreesWithCalendar == Spec => []CalendarAgrees
<1>1. Init => Calmly
  <2>1. SUFFICES ASSUME Init PROVE Shown
    BY InitIInv DEF Calmly
  <2>2. \A i \in Ids : row[i].event = None /\ ~google[i].on
    BY <2>1 DEF Init, Blank, NoEvent
  <2>3. QED
    BY <2>2 DEF Shown, Shows, Owned
<1>2. EventInv /\ Calmly /\ [Next]_vars => Calmly'
  BY NextKeepsShown
<1>3. EventInv /\ Calmly => CalendarAgrees
  <2>1. SUFFICES ASSUME EventInv, Calmly PROVE CalendarAgrees
    OBVIOUS
  <2>2. \A i, j \in Ids : i # j => row[i].event = None \/ row[j].event # row[i].event
    <3>1. SUFFICES ASSUME NEW i \in Ids, NEW j \in Ids, row[i].event # None, row[j].event = row[i].event
                   PROVE  i = j
      OBVIOUS
    <3>2. row[i].event \in Ids
      BY <2>1, <3>1 DEF EventInv, Shaped
    <3>3. QED
      BY <2>1, <3>1, <3>2 DEF EventInv, OneClaim, Claims
  <2>3. QED
    BY <2>1, <2>2 DEF CalendarAgrees, Calmly, Shown, Shows, Owned, MayShow, Present, Live
<1>4. QED
  BY <1>1, <1>2, <1>3, EventInvariance, PTL DEF Spec
=============================================================================
