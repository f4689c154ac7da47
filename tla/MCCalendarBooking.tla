--------------------------- MODULE MCCalendarBooking ---------------------------
(* Instances of CalendarBooking for TLC: two employees, a service with     *)
(* buffers of one hour and the absence of one, a day of eight hours.       *)
EXTENDS CalendarBooking, TLC

MCServices == {"none", "care"}
MCBuffer == [s \in MCServices |-> IF s = "care" THEN 1 ELSE 0]
MCWindows == [e \in Staff |-> {[open |-> 0, close |-> 8]}]

At(s, e, service, employee) == [start |-> s, end |-> e, service |-> service, employee |-> employee]
MCThree == {At(1, 2, "none", "ann"), At(2, 4, "none", "ann"), At(4, 6, "care", "anyone")}
MCTwo == {At(2, 4, "none", "ann"), At(4, 6, "none", "ann")}
MCOne == {At(2, 4, "none", "ann")}
MCProfiles == {{}, {"status"}, {"loss"}, {"amend"}, {"expired"}, {"import"}}
MCExpired == {{"expired"}}
=============================================================================
