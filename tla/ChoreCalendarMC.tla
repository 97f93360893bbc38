--------------------------- MODULE ChoreCalendarMC ---------------------------
(***************************************************************************)
(* A chore in rotation, each of whose instants is after the midnight UTC   *)
(* of its date, and one that cannot be generated: two days of two ticks,   *)
(* looking two days ahead, so that the pool of two comes round again.      *)
(***************************************************************************)
EXTENDS ChoreCalendar

CONSTANTS m1, m2, rota, broken, s1, s2

MCTasks    == {rota, broken}
MCPolicy   == [t \in MCTasks |-> "round_robin"]
MCPool     == [t \in MCTasks |-> IF t = rota THEN <<m1, m2>> ELSE << >>]
MCFirstDay == [t \in MCTasks |-> 0]
MCOffset   == [t \in MCTasks |-> 1]
MCEvery    == [t \in MCTasks |-> 1]
MCLead     == [t \in MCTasks |-> 1]
=============================================================================
