-------------------------------- MODULE Agenda --------------------------------
(***************************************************************************)
(* What the calendar promises: whatever is asked, and by whom, the booked  *)
(* appointments of a company never exclude each other.                     *)
(***************************************************************************)
EXTENDS Availability

VARIABLE agenda   \* the booked appointments, by id

Booked == DOMAIN agenda
FreeFor(i, a) == \A j \in Booked \ {i} : ~Clash(a, agenda[j])

Init == agenda = [i \in {} |-> {}]

Put(i, a) == agenda' = [j \in Booked \cup {i} |-> IF j = i THEN a ELSE agenda[j]]

Book(i, a) == i \notin Booked /\ FreeFor(i, a) /\ Put(i, a)
Move(i, a) == i \in Booked /\ FreeFor(i, a) /\ Put(i, a)
Release(i) == i \in Booked /\ agenda' = [j \in Booked \ {i} |-> agenda[j]]

Next == \E i \in Ids : Release(i) \/ \E a \in Wanted : Book(i, a) \/ Move(i, a)

Spec == Init /\ [][Next]_agenda

-----------------------------------------------------------------------------
(* Type invariant.                                                         *)
AgendaTypeOK == Booked \subseteq Ids /\ agenda \in [Booked -> Wanted]

(* No two booked appointments need the same person at once.                *)
NoClash == \A i, j \in Booked : i # j => ~Clash(agenda[i], agenda[j])

(* check_conflict misses none of the clashes with what is booked, and      *)
(* finds no other: its query by the longest buffers loses nothing.         *)
ConflictsFound ==
  \A i \in Ids, a \in Wanted : ConflictIsClash(a, {agenda[j] : j \in Booked \ {i}})
=============================================================================
