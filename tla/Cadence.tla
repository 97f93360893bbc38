------------------------------- MODULE Cadence --------------------------------
(***************************************************************************)
(* Recurrence rules: the arithmetic that finds the first occurrence after  *)
(* an instant, and the walk that lists the occurrences of a window.        *)
(*                                                                         *)
(* An instant is a day and a time of day, as day * DayLen + clock.  Days   *)
(* count from a Sunday that begins the first month of the calendar.        *)
(***************************************************************************)
EXTENDS Integers, Sequences, FiniteSetsExt

CONSTANTS
  FirstDay,   \* the days the calendar's months begin on, and the day after its last
  DayLen,     \* times of day
  Intervals,  \* the rules' intervals
  Weekdays,   \* the rules' sets of weekdays, 0 (Sunday) .. 6
  Anchors,    \* the rules' first days
  Start,      \* the latest day a window starts on
  Span        \* days of a window

VARIABLES
  rule,    \* the rule being walked
  window,  \* the window (start, end]
  at,      \* where the walk is: the last occurrence, or the window's start
  listed   \* the occurrences listed

vars == <<rule, window, at, listed>>

Months  == 1 .. Len(FirstDay) - 1
Horizon == FirstDay[Len(FirstDay)]   \* the calendar's days are 0 .. Horizon - 1
MonthDays(m) == FirstDay[m + 1] - FirstDay[m]
Month(day)   == CHOOSE m \in Months : FirstDay[m] <= day /\ day < FirstDay[m + 1]
DayOfMonth(day) == day - FirstDay[Month(day)]
DayOf(t)     == t \div DayLen
Weekday(day) == day % 7
WeekStart(day) == day - Weekday(day)

Rules == [freq : {"daily", "weekly", "monthly"}, interval : Intervals, days : {{}}, anchor : Anchors, clock : 0 .. DayLen - 1]
         \cup [freq : {"weekly"}, interval : Intervals, days : Weekdays, anchor : Anchors, clock : 0 .. DayLen - 1]

Instant(c, day) == day * DayLen + c.clock

-----------------------------------------------------------------------------
(* The code. *)

\* Mutant: a day past the end of a month runs over into the next.
AddMonthsOverflow(day, m) == FirstDay[Month(day) + m] + DayOfMonth(day)

AddMonthsClamped(day, m) ==
  LET target == Month(day) + m
  IN  FirstDay[target] + Min({DayOfMonth(day), MonthDays(target) - 1})

StepFromAnchor(c, n) ==
  Instant(c, CASE c.freq = "daily"   -> c.anchor + n * c.interval
               [] c.freq = "weekly"  -> c.anchor + n * c.interval * 7
               [] c.freq = "monthly" -> AddMonthsClamped(c.anchor, n * c.interval))

EstimateIndex(c, t) ==
  LET days == DayOf(t) - c.anchor
  IN  CASE c.freq = "daily"   -> days \div c.interval
        [] c.freq = "weekly"  -> days \div (c.interval * 7)
        [] c.freq = "monthly" -> (Month(DayOf(t)) - Month(c.anchor)) \div c.interval

\* The two loops: down while the step before is after t, then up while it is not.
Corrected(c, t) ==
  LET n == EstimateIndex(c, t)
      down == Max({m \in 0 .. n : m = 0 \/ StepFromAnchor(c, m - 1) <= t})
      up == CHOOSE k \in 0 .. Horizon : /\ StepFromAnchor(c, down + k) > t
                                        /\ \A j \in 0 .. k - 1 : StepFromAnchor(c, down + j) <= t
  IN  down + up

\* Scans the days from the anchor's or t's on, whichever is later.
NextWeeklyByWeekday(c, t) ==
  LET day == Max({c.anchor, DayOf(t)})
      good == {i \in 0 .. c.interval * 7 + 7 :
                 /\ Instant(c, day + i) > t /\ Weekday(day + i) \in c.days
                 /\ ((WeekStart(day + i) - WeekStart(c.anchor)) \div 7) % c.interval = 0}
  IN  Instant(c, IF good = {} THEN c.anchor ELSE day + Min(good))

NextAfter(c, t) ==
  IF c.days # {} THEN NextWeeklyByWeekday(c, t)
  ELSE IF StepFromAnchor(c, 0) > t THEN StepFromAnchor(c, 0)
  ELSE StepFromAnchor(c, Corrected(c, t))

Init == /\ rule \in Rules
        /\ \E day \in 0 .. Start, clock \in 0 .. DayLen - 1 :
             LET start == day * DayLen + clock
             IN  window = [start |-> start, end |-> start + Span * DayLen] /\ at = start
        /\ listed = {}

\* OccurrencesBetween, one turn of its loop at a time.
OccurrencesBetween ==
  LET o == NextAfter(rule, at)
  IN  /\ o <= window.end
      /\ at' = o /\ listed' = listed \cup {o}
      /\ UNCHANGED <<rule, window>>

Next == OccurrencesBetween
Spec == Init /\ [][Next]_vars

-----------------------------------------------------------------------------
(* Properties. *)

\* The days a rule falls on, as its documentation describes them.
FallsOn(c, day) ==
  /\ day >= c.anchor
  /\ CASE c.freq = "daily" -> (day - c.anchor) % c.interval = 0
       [] c.freq = "weekly" /\ c.days = {} -> (day - c.anchor) % (7 * c.interval) = 0
       [] c.freq = "weekly" /\ c.days # {} ->
            Weekday(day) \in c.days /\ (WeekStart(day) - WeekStart(c.anchor)) % (7 * c.interval) = 0
       [] c.freq = "monthly" ->
            /\ (Month(day) - Month(c.anchor)) % c.interval = 0
            /\ \/ DayOfMonth(day) = DayOfMonth(c.anchor)
               \/ DayOfMonth(day) < DayOfMonth(c.anchor) /\ DayOfMonth(day) = MonthDays(Month(day)) - 1

\* The walk lists every occurrence up to where it is, each once and nothing
\* else, and ends with the window's last.
WalkIsComplete ==
  LET upto == IF NextAfter(rule, at) > window.end THEN window.end ELSE at
  IN  listed = {t \in {Instant(rule, day) : day \in {d \in 0 .. DayOf(window.end) : FallsOn(rule, d)}} :
                  window.start < t /\ t <= upto}
=============================================================================
