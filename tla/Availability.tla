---------------------------- MODULE Availability ----------------------------
(***************************************************************************)
(* When two appointments exclude each other, and how                       *)
(* crm_availability_service.py finds it out.                               *)
(***************************************************************************)
EXTENDS Integers

CONSTANTS
  Services,   \* a company's services, and the absence of one
  NoService,
  Before,     \* minutes a service needs before it, by service
  After,      \* minutes a service needs after it, by service
  Employees,
  NoOne,      \* no employee is assigned: anybody may be needed
  Windows,    \* working hours: intervals, by employee or NoOne
  Ids,        \* appointments a company can have
  Wanted      \* what may be asked for

Staff == Employees \cup {NoOne}
Appointments == [start : Int, end : Int, service : Services, employee : Staff]

ASSUME ServicesAssumption ==
  /\ NoService \in Services /\ Before[NoService] = 0 /\ After[NoService] = 0
  /\ Before \in [Services -> Nat] /\ After \in [Services -> Nat]
  /\ \E s \in Services : \A t \in Services : Before[t] <= Before[s]
  /\ \E s \in Services : \A t \in Services : After[t] <= After[s]
  /\ NoOne \notin Employees

ASSUME WantedAssumption ==
  Wanted \subseteq Appointments /\ \A a \in Wanted : a.start < a.end

Opened(a) == a.start - Before[a.service]
Closed(a) == a.end + After[a.service]

SameStaff(a, b) == a.employee = b.employee \/ NoOne \in {a.employee, b.employee}

(* What must never be: the same person in two places, buffers included.    *)
Clash(a, b) == SameStaff(a, b) /\ Opened(a) < Closed(b) /\ Opened(b) < Closed(a)

-----------------------------------------------------------------------------
(* check_conflict: a query by the longest buffers, then each service's own *)

MaxBefore == CHOOSE m \in {Before[s] : s \in Services} : \A s \in Services : Before[s] <= m
MaxAfter == CHOOSE m \in {After[s] : s \in Services} : \A s \in Services : After[s] <= m

Selected(b, from, to) == b.start < to + MaxBefore /\ b.end > from - MaxAfter

Concerns(b, who) == who = NoOne \/ b.employee \in {who, NoOne}

CheckConflict(from, to, who, others) ==
  \E b \in others : /\ Concerns(b, who) /\ Selected(b, from, to)
                    /\ from < Closed(b) /\ to > Opened(b)

InHours(a) ==
  \E w \in Windows[a.employee] : Opened(a) >= w.open /\ Closed(a) <= w.close

Unpadded(a, others) ==   \* mutant
  ~InHours(a) \/ CheckConflict(a.start, a.end, a.employee, others)
(* check_booking_conflict, before Google is asked.                         *)
BookingConflict(a, others) ==
  ~InHours(a) \/ CheckConflict(Opened(a), Closed(a), a.employee, others)

(* The buffers and the query's margins cancel out: a conflict is found     *)
(* exactly when the appointment clashes with one of the others.            *)
ConflictIsClash(a, others) ==
  CheckConflict(Opened(a), Closed(a), a.employee, others) <=> \E b \in others : Clash(a, b)
=============================================================================
