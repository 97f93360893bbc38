------------------------- MODULE ChoreCalendarProofs -------------------------
(***************************************************************************)
(* Proofs about the occurrences of recurring chores, for any chores,       *)
(* cadences, zones, pools, schedulers and failures.                        *)
(*                                                                         *)
(* Two invariants.  The first is the generator's: whoever is inserting has *)
(* a plan that continues where the rows end, each with the member its own  *)
(* number gives, though the numbers were counted from rows that others may *)
(* since have added.  The second is the reminders': a stamp and the notice *)
(* it stands for are in the hands of one process, or settled.              *)
(***************************************************************************)
EXTENDS ChoreCalendar, NaturalSets, FiniteSetTheorems, TLAPS

-----------------------------------------------------------------------------
(* The calendar. *)

Healthy == Tasks \ Corrupt

\* Instants follow each other, and a row's date is its occurrence's number.
LEMMA InstantsGrow ==
  ASSUME NEW t \in Healthy, NEW m \in Nat, NEW n \in Nat, m < n
  PROVE  Instant(t, m) < Instant(t, n) /\ FirstDay[t] + m * Every[t] < FirstDay[t] + n * Every[t]
<1> DEFINE f == FirstDay[t]
           e == Every[t]
           z == Offset[t]
<1>1. f \in Nat /\ z \in Int /\ e \in Nat /\ e > 0 /\ DayLen \in Nat /\ DayLen > 0
  BY CadenceAssumption, ClockAssumption DEF Healthy
<1> HIDE DEF f, e, z
<1>2. m * e \in Nat /\ n * e \in Nat
  BY <1>1
<1>3. m * e < n * e
  <2>1. n - m \in Nat /\ n - m > 0
    OBVIOUS
  <2>2. (n - m) * e > 0
    BY <1>1, <2>1
  <2>3. (n - m) * e = n * e - m * e
    BY <1>1
  <2> QED
    BY <1>2, <2>2, <2>3
<1> DEFINE a == f + m * e
           b == f + n * e
<1>4. a \in Nat /\ b \in Nat /\ a < b
  BY <1>1, <1>2, <1>3
<1> HIDE DEF a, b
<1>5. a * DayLen < b * DayLen
  <2>1. (b - a) * DayLen > 0
    BY <1>1, <1>4
  <2>2. (b - a) * DayLen = b * DayLen - a * DayLen
    BY <1>1, <1>4
  <2>3. a * DayLen \in Nat /\ b * DayLen \in Nat
    BY <1>1, <1>4
  <2> QED
    BY <2>1, <2>2, <2>3
<1>6. a * DayLen + z < b * DayLen + z
  <2>1. a * DayLen \in Nat /\ b * DayLen \in Nat
    BY <1>1, <1>4
  <2> QED
    BY <1>1, <1>5, <2>1
<1> QED
  BY <1>4, <1>6 DEF a, b, f, e, z, Instant

LEMMA InstantTypes ==
  ASSUME NEW t \in Healthy, NEW n \in Nat
  PROVE  Instant(t, n) \in Int /\ FirstDay[t] + n * Every[t] \in Nat
<1> DEFINE f == FirstDay[t]
           e == Every[t]
           z == Offset[t]
<1>1. f \in Nat /\ z \in Int /\ e \in Nat /\ DayLen \in Nat
  BY CadenceAssumption, ClockAssumption DEF Healthy
<1> HIDE DEF f, e, z
<1>2. f + n * e \in Nat
  BY <1>1
<1> DEFINE a == f + n * e
<1>3. a * DayLen + z \in Int
  <2> HIDE DEF a
  <2>1. a \in Nat
    BY <1>2 DEF a
  <2> QED
    BY <1>1, <2>1
<1> QED
  BY <1>2, <1>3 DEF f, e, z, Instant

\* One row for each number.
LEMMA RowsDiffer ==
  ASSUME NEW t \in Healthy, NEW m \in Nat, NEW n \in Nat, RowOf(t, m) = RowOf(t, n)
  PROVE  m = n
<1>1. FirstDay[t] + m * Every[t] = FirstDay[t] + n * Every[t]
  BY DEF RowOf
<1>2. FirstDay[t] + m * Every[t] \in Nat /\ FirstDay[t] + n * Every[t] \in Nat
  BY InstantTypes
<1>3. ~(m < n) /\ ~(n < m)
  BY <1>1, <1>2, InstantsGrow
<1> QED
  BY <1>3

LEMMA DatesGrow ==
  \A a \in Nat, b \in Nat : a <= b => Date(a) \in Nat /\ Date(a) <= Date(b)
BY ClockAssumption DEF Date

LEMMA DateTypes == MaxDay \in Nat
BY ClockAssumption, DatesGrow DEF MaxDay

\* What is before a row that there can be can be, too.
LEMMA EarlierRows ==
  ASSUME NEW t \in Healthy, NEW m \in Nat, NEW n \in Nat, m <= n, RowOf(t, n) \in Rows
  PROVE  RowOf(t, m) \in Rows
<1>1. FirstDay[t] + n * Every[t] \in 0..MaxDay /\ FirstDay[t] + m * Every[t] \in Nat
  BY InstantTypes DEF RowOf, Rows
<1>2. FirstDay[t] + m * Every[t] <= FirstDay[t] + n * Every[t]
  BY <1>1, InstantsGrow
<1> QED
  BY <1>1, <1>2, DateTypes DEF RowOf, Rows, Healthy

\* The occurrences up to the horizon have rows: a zone is less than a day.
LEMMA HorizonHasRows ==
  ASSUME NEW t \in Healthy, NEW n \in Nat, NEW a \in 0..MaxTime,
         Instant(t, n) <= DayLen * Date(a + Ahead)
  PROVE  RowOf(t, n) \in Rows
<1> DEFINE d == FirstDay[t] + n * Every[t]
           h == Date(a + Ahead)
           z == Offset[t]
<1>1. d \in Nat /\ z \in Int /\ z > -DayLen /\ DayLen \in Nat /\ DayLen > 0 /\ Ahead \in Nat /\ MaxTime \in Nat
  BY InstantTypes, CadenceAssumption, ClockAssumption, OffsetAssumption DEF Healthy
<1>2. h \in Nat /\ h <= MaxDay /\ MaxDay \in Nat
  BY <1>1, DatesGrow, DateTypes DEF MaxDay
<1>3. d * DayLen + z <= DayLen * h
  BY DEF Instant
<1> HIDE DEF d, h, z
<1>4. d <= h
  <2> SUFFICES ASSUME d > h PROVE FALSE
    BY <1>1, <1>2
  <2>1. (d - h - 1) * DayLen >= 0
    BY <1>1, <1>2
  <2>2. (d - h - 1) * DayLen = d * DayLen - DayLen * h - DayLen
    BY <1>1, <1>2
  <2>3. d * DayLen \in Nat /\ DayLen * h \in Nat
    BY <1>1, <1>2
  <2> QED
    BY <2>1, <2>2, <2>3, <1>1, <1>3
<1>5. d \in 0..MaxDay
  BY <1>1, <1>2, <1>4
<1> QED
  BY <1>5 DEF d, RowOf, Rows, Healthy

LEMMA FinitePart ==
  ASSUME NEW M \in Nat, NEW S \in SUBSET (0..M)
  PROVE  S \in SUBSET Nat /\ IsFiniteSet(S)
<1>1. IsFiniteSet(0..M)
  BY FS_Interval
<1>2. S \in SUBSET Nat
  OBVIOUS
<1> QED
  BY ONLY <1>1, <1>2, S \in SUBSET (0..M), FS_Subset

\* A set of numbers without gaps from 0 is as long as it has members.
LEMMA Segment ==
  ASSUME NEW M \in Nat, NEW S \in SUBSET (0..M), \A n \in S, m \in Nat : m < n => m \in S
  PROVE  Cardinality(S) \in Nat /\ S = 0..(Cardinality(S) - 1)
<1>1. CASE S = {}
  BY <1>1, FS_EmptySet
<1>2. CASE S # {}
  <2>1. PICK g \in S : \A k \in S : ~(g < k)
    <3>1. S \in SUBSET Nat /\ IsFiniteSet(S)
      BY FinitePart
    <3> QED
      BY <1>2, <3>1, GreatestNatural
  <2>2. S = 0..g /\ g \in Nat
    <3>1. g \in Nat /\ \A k \in S : k \in Nat /\ k <= g
      BY <2>1
    <3>2. \A k \in 0..g : k \in S
      BY <3>1
    <3>3. \A k \in S : k \in 0..g
      BY <3>1
    <3> QED
      BY ONLY <3>1, <3>2, <3>3
  <2>3. Cardinality(0..g) = g + 1
    BY <2>2, FS_Interval
  <2> QED
    BY <2>2, <2>3
<1> QED
  BY <1>1, <1>2

-----------------------------------------------------------------------------
(* The generator's invariant. *)

Statuses  == {"absent", "pending", "overdue", "done"}
Assignees == {None} \cup {AssigneeFor(t, n) : t \in Healthy, n \in Nat}

RowRecord == [status : Statuses, assignee : Assignees, reminded : BOOLEAN]

Cycle == [pc : {"idle", "generate", "insert", "overdue notices", "reminders", "clear"},
          asOf : 0..MaxTime, tasks : SUBSET Tasks, plan : Seq(Rows \X Assignees),
          hand : SUBSET Rows, failed : Rows \cup {None}]

TypeOK ==
  /\ now \in 0..MaxTime
  /\ inst \in [Rows -> RowRecord]
  /\ run \in [Schedulers -> Cycle]

There(t, n) == inst[RowOf(t, n)].status # "absent"

\* The rows of a chore are its first occurrences, each with its member.
ChoreOK(t) ==
  /\ \A r \in Materialised(t) : \E n \in Nat : r = RowOf(t, n)
  /\ \A n \in Nat : RowOf(t, n) \in Materialised(t) =>
       /\ inst[RowOf(t, n)].assignee = AssigneeFor(t, n)
       /\ \A m \in Nat : m < n => There(t, m)

\* A plan goes on from number k, with no gap before it.
GoesOn(plan, t, k) ==
  /\ Len(plan) > 0
  /\ \A i \in 1..Len(plan) : /\ plan[i] = <<RowOf(t, k + i - 1), AssigneeFor(t, k + i - 1)>>
                             /\ RowOf(t, k + i - 1) \in Rows

PlanOK(s) ==
  run[s].pc = "insert" =>
    \E t \in Healthy, k \in Nat : /\ GoesOn(run[s].plan, t, k)
                                  /\ \A m \in Nat : m < k => There(t, m)

GeneratorInv ==
  /\ TypeOK
  /\ \A t \in Healthy : ChoreOK(t)
  /\ \A s \in Schedulers : PlanOK(s)

-----------------------------------------------------------------------------
(* What a plan is. *)

\* The window starts no later than the latest row there is.
LEMMA WindowBehindRows ==
  ASSUME NEW t \in Healthy, ChoreOK(t), inst \in [Rows -> RowRecord]
  PROVE  /\ WindowStart(t) \in Int
         /\ \A n \in Nat : Instant(t, n) <= WindowStart(t) => There(t, n)
<1>1. CASE Materialised(t) = {}
  <2>1. WindowStart(t) = Instant(t, 0) - 1 /\ Instant(t, 0) \in Int
    BY <1>1, InstantTypes DEF WindowStart
  <2>2. ASSUME NEW n \in Nat PROVE ~(Instant(t, n) <= WindowStart(t))
    BY <2>1, InstantTypes, InstantsGrow
  <2> QED
    BY <2>1, <2>2
<1>2. CASE Materialised(t) # {}
  <2> DEFINE dates == {r[2] : r \in Materialised(t)}
  <2>1. dates \in SUBSET (0..MaxDay) /\ dates # {}
    BY <1>2 DEF Materialised, Rows
  <2>2. IsFiniteSet(dates) /\ dates \in SUBSET Nat
    BY ONLY <2>1, FinitePart, DateTypes
  <2>3. PICK g \in dates : \A k \in dates : ~(g < k)
    BY ONLY <2>1, <2>2, GreatestNatural
  <2>4. \A k \in dates : k \in 0..MaxDay /\ k <= g
    <3>1. \A k \in dates : k \in 0..MaxDay
      BY <2>1
    <3> QED
      BY ONLY <3>1, <2>3, DateTypes
  <2> DEFINE P(d) == \E r \in Materialised(t) : r[2] = d /\ \A q \in Materialised(t) : q[2] <= d
             latest == CHOOSE d \in 0..MaxDay : P(d)
  <2>5. P(g) /\ g \in 0..MaxDay
    BY <2>4
  <2>6. P(latest) /\ latest \in 0..MaxDay
    <3> HIDE DEF P
    <3> QED
      BY <2>5
  <2>7. WindowStart(t) = DayLen * latest
    BY <1>2 DEF WindowStart
  <2> HIDE DEF latest, dates
  <2>8. PICK r \in Materialised(t) : r[2] = latest
    BY <2>6
  <2>9. PICK n \in Nat : r = RowOf(t, n)
    BY DEF ChoreOK
  <2>10. latest = FirstDay[t] + n * Every[t] /\ latest \in Nat
    BY <2>8, <2>9, InstantTypes DEF RowOf
  <2>11. WindowStart(t) \in Int
    BY <2>7, <2>10, ClockAssumption
  <2>12. ASSUME NEW m \in Nat, n < m PROVE ~(Instant(t, m) <= WindowStart(t))
    <3> DEFINE d == FirstDay[t] + m * Every[t]
               z == Offset[t]
    <3>1. /\ d \in Nat /\ d > latest /\ z \in Int /\ z > -DayLen /\ DayLen \in Nat /\ DayLen > 0
          /\ Instant(t, m) = d * DayLen + z
      <4>1. d \in Nat /\ d > latest
        BY <2>10, <2>12, InstantTypes, InstantsGrow
      <4>2. z \in Int /\ z > -DayLen
        BY CadenceAssumption, OffsetAssumption DEF Healthy
      <4>3. DayLen \in Nat /\ DayLen > 0
        BY ClockAssumption
      <4> QED
        BY <4>1, <4>2, <4>3 DEF Instant
    <3> HIDE DEF d, z
    <3>2. (d - latest - 1) * DayLen >= 0
      BY <3>1, <2>10
    <3>3. (d - latest - 1) * DayLen = d * DayLen - DayLen * latest - DayLen
      BY <3>1, <2>10
    <3>4. d * DayLen \in Nat /\ DayLen * latest \in Nat
      BY <3>1, <2>10
    <3> QED
      BY <2>7, <3>1, <3>2, <3>3, <3>4
  <2>13. ASSUME NEW m \in Nat, Instant(t, m) <= WindowStart(t) PROVE There(t, m)
    <3>1. m <= n
      BY <2>12, <2>13
    <3>2. CASE m < n
      BY <3>2, <2>9 DEF ChoreOK
    <3>3. CASE m = n
      BY <3>3, <2>9 DEF Materialised, There
    <3> QED
      BY <3>1, <3>2, <3>3
  <2> QED
    BY <2>11, <2>13
<1> QED
  BY <1>1, <1>2

\* The two counts of the code agree, so a row gets the member of its number.
LEMMA PlanGoesOn ==
  ASSUME NEW t \in Healthy, ChoreOK(t), inst \in [Rows -> RowRecord], NEW a \in 0..MaxTime,
         NEW horizon, horizon = DayLen * Date(a + Ahead), PlanFor(t, horizon) # << >>
  PROVE  /\ PlanFor(t, horizon) \in Seq(Rows \X Assignees)
         /\ \E k \in Nat : /\ GoesOn(PlanFor(t, horizon), t, k)
                           /\ \A m \in Nat : m < k => There(t, m)
<1> DEFINE w == WindowStart(t)
           passed == {n \in 0..MaxDay : Instant(t, n) <= w}
           ahead == {n \in 0..MaxDay : Instant(t, n) <= horizon}
           first == Cardinality(passed)
           last == Cardinality(ahead)
           count == Cardinality(Between(t, w, horizon))
<1>1. /\ w \in Int /\ \A n \in Nat : Instant(t, n) <= w => There(t, n)
  BY WindowBehindRows
<1>2. horizon \in Int
  <2>1. DayLen \in Nat /\ Ahead \in Nat /\ MaxTime \in Nat
    BY ClockAssumption
  <2>2. Date(a + Ahead) \in Nat
    BY <2>1, DatesGrow
  <2> QED
    BY <2>1, <2>2
<1>3. \A m \in Nat, n \in Nat : m < n => Instant(t, m) < Instant(t, n)
  BY InstantsGrow
<1>4. \A n \in Nat : Instant(t, n) \in Int
  BY InstantTypes
<1>5. first \in Nat /\ passed = 0..(first - 1)
  <2>1. passed \in SUBSET (0..MaxDay)
    OBVIOUS
  <2>2. \A n \in passed, m \in Nat : m < n => m \in passed
    BY <1>1, <1>3, <1>4, DateTypes
  <2> QED
    BY ONLY <2>1, <2>2, Segment, DateTypes
<1>6. last \in Nat /\ ahead = 0..(last - 1)
  <2>1. ahead \in SUBSET (0..MaxDay)
    OBVIOUS
  <2>2. \A n \in ahead, m \in Nat : m < n => m \in ahead
    BY <1>2, <1>3, <1>4, DateTypes
  <2> QED
    BY ONLY <2>1, <2>2, Segment, DateTypes
<1>7. Between(t, w, horizon) = first..(last - 1)
  <2>1. Between(t, w, horizon) = ahead \ passed
    BY <1>1, <1>4, DateTypes DEF Between
  <2> HIDE DEF passed, ahead, first, last
  <2>2. ahead \ passed = first..(last - 1)
    BY ONLY <1>5, <1>6
  <2> QED
    BY ONLY <2>1, <2>2
<1>8. Between(t, Instant(t, 0) - 1, w) = passed
  <2>1. \A n \in Nat : Instant(t, 0) - 1 < Instant(t, n)
    BY <1>3, <1>4
  <2> QED
    BY <2>1, DateTypes DEF Between
<1>9. /\ PlanFor(t, horizon) = [i \in 1..count |-> <<RowOf(t, first + i - 1), AssigneeFor(t, first + i - 1)>>]
  <2>1. Ordinals(t, horizon) = [i \in 1..count |-> first + i - 1]
    BY <1>8 DEF Ordinals
  <2>2. /\ DOMAIN Ordinals(t, horizon) = 1..count
        /\ \A i \in 1..count : Ordinals(t, horizon)[i] = first + i - 1
    BY <2>1
  <2>3. PlanFor(t, horizon) = [i \in DOMAIN Ordinals(t, horizon) |->
           <<RowOf(t, first + i - 1), AssigneeFor(t, Ordinals(t, horizon)[i])>>]
    BY DEF PlanFor
  <2> HIDE DEF first, count
  <2> QED
    BY <2>2, <2>3
<1>10. count \in Nat /\ \A i \in 1..count : first + i - 1 \in Nat /\ first + i - 1 \in ahead
  <2>1. CASE first > last - 1
    <3>1. first..(last - 1) = {}
      <4> HIDE DEF first, last
      <4> QED
        BY ONLY <2>1, <1>5, <1>6
    <3>2. count = 0
      BY <3>1, <1>7, FS_EmptySet
    <3> HIDE DEF count
    <3> QED
      BY ONLY <3>2
  <2>2. CASE first <= last - 1
    <3>1. count = last - 1 - first + 1
      BY <2>2, <1>5, <1>6, <1>7, FS_Interval
    <3> HIDE DEF first, last, count
    <3> QED
      BY <3>1, <2>2, <1>5, <1>6
  <2> QED
    BY <2>1, <2>2, <1>5, <1>6
<1>11. \A i \in 1..count : RowOf(t, first + i - 1) \in Rows
  BY <1>10, HorizonHasRows
<1>12. \A m \in Nat : m < first => There(t, m)
  <2>1. \A m \in passed : There(t, m)
    BY <1>1, DateTypes
  <2> HIDE DEF passed, first
  <2>2. \A m \in Nat : m < first => m \in passed
    BY ONLY <1>5
  <2> QED
    BY ONLY <2>1, <2>2
<1> HIDE DEF first, last, count, passed, ahead, w
<1>13. \A i \in 1..count : <<RowOf(t, first + i - 1), AssigneeFor(t, first + i - 1)>> \in Rows \X Assignees
  BY <1>10, <1>11 DEF Assignees
<1>14. PlanFor(t, horizon) \in Seq(Rows \X Assignees) /\ Len(PlanFor(t, horizon)) = count
  BY <1>9, <1>10, <1>13
<1>15. count > 0
  <2> SUFFICES ASSUME count = 0 PROVE FALSE
    BY <1>10
  <2>1. Len(PlanFor(t, horizon)) = 0
    BY <1>14
  <2> QED
    BY <2>1, <1>14
<1>16. GoesOn(PlanFor(t, horizon), t, first)
  BY <1>9, <1>11, <1>14, <1>15 DEF GoesOn
<1> QED
  BY <1>5, <1>12, <1>14, <1>16
-----------------------------------------------------------------------------
(* The generator, step by step. *)

\* Rows only come; nobody changes whose they are.
LEMMA ChoresRest ==
  ASSUME GeneratorInv, inst' \in [Rows -> RowRecord],
         \A r \in Rows : /\ inst[r].status = "absent" <=> inst'[r].status = "absent"
                         /\ inst'[r].assignee = inst[r].assignee
  PROVE  /\ (\A t \in Healthy : ChoreOK(t))'
         /\ \A t \in Healthy, n \in Nat : RowOf(t, n) \in Rows /\ There(t, n) => There(t, n)'
<1>1. \A t \in Healthy, n \in Nat : RowOf(t, n) \in Rows => (There(t, n) <=> There(t, n)')
  BY DEF There
<1>2. \A t : Materialised(t)' = Materialised(t)
  BY DEF Materialised
<1>3. ASSUME NEW t \in Healthy PROVE ChoreOK(t)'
  <2>1. \A r \in Materialised(t)' : \E n \in Nat : r = RowOf(t, n)
    BY <1>2 DEF GeneratorInv, ChoreOK
  <2>2. ASSUME NEW n \in Nat, RowOf(t, n) \in Materialised(t)'
        PROVE  /\ inst'[RowOf(t, n)].assignee = AssigneeFor(t, n)
               /\ \A m \in Nat : m < n => There(t, m)'
    <3>1. RowOf(t, n) \in Materialised(t) /\ RowOf(t, n) \in Rows
      BY <2>2, <1>2 DEF Materialised
    <3>2. inst[RowOf(t, n)].assignee = AssigneeFor(t, n) /\ \A m \in Nat : m < n => There(t, m)
      BY <3>1 DEF GeneratorInv, ChoreOK
    <3>3. \A m \in Nat : m < n => RowOf(t, m) \in Rows
      BY <3>1, EarlierRows
    <3> QED
      BY <3>1, <3>2, <3>3, <1>1
  <2> QED
    BY <2>1, <2>2 DEF ChoreOK
<1> QED
  BY <1>1, <1>3

\* A plan in somebody's hands still goes on where it did.
LEMMA PlansRest ==
  ASSUME GeneratorInv, NEW s \in Schedulers, run'[s].pc # "insert" \/ run'[s] = run[s],
         \A t \in Healthy, n \in Nat : RowOf(t, n) \in Rows /\ There(t, n) => There(t, n)'
  PROVE  PlanOK(s)'
<1>1. CASE run'[s].pc # "insert"
  BY <1>1 DEF PlanOK
<1>2. CASE run'[s] = run[s] /\ run[s].pc = "insert"
  <2>1. PICK t \in Healthy, k \in Nat : /\ GoesOn(run[s].plan, t, k)
                                        /\ \A m \in Nat : m < k => There(t, m)
    BY <1>2 DEF GeneratorInv, PlanOK
  <2>2. Len(run[s].plan) \in Nat /\ Len(run[s].plan) > 0
    <3>1. run[s].plan \in Seq(Rows \X Assignees)
      BY DEF GeneratorInv, TypeOK, Cycle
    <3> QED
      BY <2>1, <3>1 DEF GoesOn
  <2>3. RowOf(t, k) \in Rows
    <3>1. RowOf(t, k + 1 - 1) \in Rows
      BY <2>1, <2>2 DEF GoesOn
    <3> QED
      BY <3>1
  <2>4. \A m \in Nat : m < k => There(t, m)'
    BY <2>1, <2>3, EarlierRows
  <2> QED
    BY <1>2, <2>1, <2>4 DEF PlanOK
<1> QED
  BY <1>1, <1>2

\* The steps that neither insert rows nor make plans.
LEMMA OthersKeep ==
  ASSUME GeneratorInv, NEW s \in Schedulers, NEW c \in Cycle,
         run' = [run EXCEPT ![s] = c], c.pc # "insert", now' \in 0..MaxTime,
         inst' \in [Rows -> RowRecord],
         \A r \in Rows : /\ inst[r].status = "absent" <=> inst'[r].status = "absent"
                         /\ inst'[r].assignee = inst[r].assignee
  PROVE  GeneratorInv'
<1>1. run' \in [Schedulers -> Cycle] /\ \A u \in Schedulers : run'[u].pc # "insert" \/ run'[u] = run[u]
  BY DEF GeneratorInv, TypeOK
<1> QED
  BY <1>1, ChoresRest, PlansRest DEF GeneratorInv, TypeOK

LEMMA IdleFields ==
  /\ Idle.pc = "idle" /\ Idle.hand = {} /\ Idle.plan = << >> /\ Idle \in Cycle
BY ClockAssumption DEF Idle, Cycle

LEMMA CycleTypes ==
  ASSUME GeneratorInv
  PROVE  \A s \in Schedulers :
           /\ run[s] \in Cycle
           /\ run[s].hand \in SUBSET Rows /\ run[s].tasks \in SUBSET Tasks
           /\ run[s].asOf \in 0..MaxTime
BY DEF GeneratorInv, TypeOK, Cycle

LEMMA TickKeeps ==
  ASSUME GeneratorInv, NEW s \in Schedulers, NEW o \in Outcomes, Tick(s, o)
  PROVE  GeneratorInv'
<1> DEFINE c == [Idle EXCEPT !.pc = "generate", !.asOf = now, !.tasks = IF o = "ok" THEN Tasks ELSE {}]
<1>1. c \in Cycle /\ c.pc = "generate"
  <2>1. now \in 0..MaxTime /\ (IF o = "ok" THEN Tasks ELSE {}) \in SUBSET Tasks
    BY DEF GeneratorInv, TypeOK
  <2> QED
    BY ONLY <2>1, IdleFields DEF Cycle
<1>2. run' = [run EXCEPT ![s] = c] /\ UNCHANGED <<now, inst>>
  BY DEF Tick, Goto
<1> HIDE DEF c
<1> QED
  BY <1>1, <1>2, OthersKeep DEF GeneratorInv, TypeOK

LEMMA AbandonKeeps ==
  ASSUME GeneratorInv, NEW s \in Schedulers, NEW t, Abandon(s, t), UNCHANGED <<now, inst>>
  PROVE  GeneratorInv'
<1> DEFINE c == [run[s] EXCEPT !.pc = "generate", !.tasks = @ \ {t}, !.plan = << >>]
<1>1. run[s] \in Cycle
  BY CycleTypes
<1>2. c \in Cycle /\ c.pc = "generate"
  <2>1. << >> \in Seq(Rows \X Assignees)
    OBVIOUS
  <2> QED
    BY ONLY <1>1, <2>1 DEF Cycle
<1>3. run' = [run EXCEPT ![s] = c]
  BY DEF Abandon, Goto
<1> HIDE DEF c
<1> QED
  BY <1>2, <1>3, OthersKeep DEF GeneratorInv, TypeOK

LEMMA MaterialiseKeeps ==
  ASSUME GeneratorInv, NEW s \in Schedulers, NEW t \in run[s].tasks, NEW o \in Outcomes,
         Materialise(s, t, o)
  PROVE  GeneratorInv'
<1> DEFINE horizon == DayLen * Date(run[s].asOf + Ahead)
           plan == PlanFor(t, horizon)
           c == [run[s] EXCEPT !.pc = "insert", !.plan = plan]
<1>1. UNCHANGED <<now, inst>>
  BY DEF Materialise
<1>2. CASE Abandon(s, t)
  BY <1>1, <1>2, AbandonKeeps
<1>3. CASE t \notin Corrupt /\ plan # << >> /\ Goto(s, c)
  <2>1. t \in Healthy /\ run[s] \in Cycle /\ run[s].asOf \in 0..MaxTime
    BY <1>3, CycleTypes DEF Healthy
  <2>2. /\ plan \in Seq(Rows \X Assignees)
        /\ \E k \in Nat : GoesOn(plan, t, k) /\ \A m \in Nat : m < k => There(t, m)
    BY <1>3, <2>1, PlanGoesOn DEF GeneratorInv, TypeOK
  <2> HIDE DEF plan
  <2>3. c \in Cycle /\ c.pc = "insert" /\ c.plan = plan
    BY <2>1, <2>2 DEF Cycle
  <2> HIDE DEF c
  <2>4. /\ run' \in [Schedulers -> Cycle] /\ run'[s] = c
        /\ \A u \in Schedulers : u # s => run'[u] = run[u]
    BY <1>3, <2>3 DEF Goto, GeneratorInv, TypeOK
  <2>5. \A r \in Rows : /\ inst[r].status = "absent" <=> inst'[r].status = "absent"
                        /\ inst'[r].assignee = inst[r].assignee
    BY <1>1
  <2>6. TypeOK'
    BY <1>1, <2>4 DEF GeneratorInv, TypeOK
  <2>7. \A u \in Healthy, n \in Nat : There(u, n)' <=> There(u, n)
    BY <1>1 DEF There
  <2>8. PlanOK(s)'
    BY <2>1, <2>2, <2>3, <2>4, <2>7 DEF PlanOK
  <2>9. \A u \in Schedulers : u # s => PlanOK(u)'
    BY <2>4, <2>7, PlansRest
  <2> QED
    BY <2>5, <2>6, <2>8, <2>9, ChoresRest DEF GeneratorInv, TypeOK
<1> QED
  BY <1>2, <1>3 DEF Materialise

\* An insert continues the rows by one, or finds the row there already; what
\* is left of the plan goes on from the next number.
LEMMA InsertKeeps ==
  ASSUME GeneratorInv, NEW s \in Schedulers, NEW o \in Outcomes, Insert(s, o)
  PROVE  GeneratorInv'
<1>1. /\ run[s] \in Cycle /\ run[s].plan \in Seq(Rows \X Assignees) /\ run[s].pc = "insert"
  BY CycleTypes DEF Insert, Cycle
<1>2. PICK t \in Healthy, k \in Nat : /\ GoesOn(run[s].plan, t, k)
                                      /\ \A m \in Nat : m < k => There(t, m)
  BY <1>1 DEF GeneratorInv, PlanOK
<1> DEFINE plan == run[s].plan
           row == RowOf(t, k)
           who == AssigneeFor(t, k)
           fresh == [NoRow EXCEPT !.status = "pending", !.assignee = who]
<1>3. Len(plan) \in Nat /\ Len(plan) > 0 /\ Head(plan) = <<row, who>> /\ row \in Rows
  <2>1. Len(plan) \in Nat /\ Len(plan) > 0
    BY <1>1, <1>2 DEF GoesOn
  <2>2. plan[1] = <<RowOf(t, k + 1 - 1), AssigneeFor(t, k + 1 - 1)>> /\ RowOf(t, k + 1 - 1) \in Rows
    BY <2>1, <1>2 DEF GoesOn
  <2>3. k + 1 - 1 = k
    OBVIOUS
  <2>4. Head(plan) = plan[1]
    BY <1>1, <2>1
  <2> QED
    BY <2>1, <2>2, <2>3, <2>4
<1>4. Head(plan)[1] = row /\ Head(plan)[2] = who
  BY <1>3
<1>5. /\ inst' = IF Applied(o) /\ inst[row].status = "absent" THEN [inst EXCEPT ![row] = fresh] ELSE inst
      /\ UNCHANGED now
  BY <1>4, ZenonT(60) DEF Insert
<1>6. inst \in [Rows -> RowRecord] /\ inst[row] \in RowRecord
  BY <1>3 DEF GeneratorInv, TypeOK
<1>7. fresh \in RowRecord /\ fresh.status = "pending" /\ fresh.assignee = who
  <2>1. who \in Assignees /\ None \in Assignees
    BY DEF Assignees
  <2> HIDE DEF who
  <2> QED
    BY <2>1 DEF NoRow, RowRecord, Statuses
<1> HIDE DEF fresh
<1>8. /\ inst' \in [Rows -> RowRecord]
      /\ \A r \in Rows : r # row => inst'[r] = inst[r]
      /\ inst[row].status # "absent" => inst'[row] = inst[row]
      /\ inst[row].status = "absent" => inst'[row] = inst[row] \/ inst'[row] = fresh
      /\ Applied(o) => inst'[row].status # "absent"
  BY <1>3, <1>5, <1>6, <1>7
<1>9. \A u \in Healthy, n \in Nat : RowOf(u, n) \in Rows /\ There(u, n) => There(u, n)'
  BY <1>8 DEF There
<1>10. Applied(o) => There(t, k)'
  BY <1>8 DEF There
<1>11. ASSUME NEW u \in Healthy PROVE ChoreOK(u)'
  <2>1. ChoreOK(u)
    BY DEF GeneratorInv
  <2>2. ASSUME NEW r \in Materialised(u)' PROVE r \in Materialised(u) \/ (r = row /\ u = t)
    BY <1>8, <2>2 DEF Materialised, RowOf
  <2>3. \A r \in Materialised(u)' : \E n \in Nat : r = RowOf(u, n)
    BY <2>1, <2>2 DEF ChoreOK
  <2>4. ASSUME NEW n \in Nat, RowOf(u, n) \in Materialised(u)'
        PROVE  /\ inst'[RowOf(u, n)].assignee = AssigneeFor(u, n)
               /\ \A m \in Nat : m < n => There(u, m)'
    <3>1. RowOf(u, n) \in Rows
      BY <2>4 DEF Materialised
    <3>2. \A m \in Nat : m < n => RowOf(u, m) \in Rows
      BY <3>1, EarlierRows
    <3>3. CASE RowOf(u, n) \in Materialised(u)
      <4>1. inst'[RowOf(u, n)] = inst[RowOf(u, n)]
        BY <3>3, <1>8 DEF Materialised
      <4> QED
        BY <3>2, <3>3, <4>1, <2>1, <1>9 DEF ChoreOK
    <3>4. CASE RowOf(u, n) \notin Materialised(u)
      <4>1. RowOf(u, n) = row /\ u = t
        BY <3>4, <2>2, <2>4
      <4>2. n = k
        BY <4>1, RowsDiffer
      <4>3. inst[row].status = "absent" /\ inst'[row].status # "absent"
        BY <3>1, <3>4, <2>4, <4>1 DEF Materialised, RowOf
      <4>4. inst'[row] = fresh
        BY <4>3, <1>8
      <4> QED
        BY <4>1, <4>2, <4>4, <1>2, <1>7, <1>9, <3>2
    <3> QED
      BY <3>3, <3>4
  <2> QED
    BY <2>3, <2>4 DEF ChoreOK
<1> DEFINE c == [run[s] EXCEPT !.plan = Tail(@)]
           q == [run[s] EXCEPT !.pc = "generate", !.tasks = @ \ {row[1]}, !.plan = << >>]
<1>12. \/ /\ Inserted(o) /\ Len(plan) > 1
          /\ run' = [run EXCEPT ![s] = c]
       \/ run' = [run EXCEPT ![s] = q]
  BY <1>4, ZenonT(60) DEF Insert, Goto, Abandon
<1>13. q \in Cycle /\ q.pc = "generate"
  <2>1. << >> \in Seq(Rows \X Assignees)
    OBVIOUS
  <2> QED
    BY ONLY <1>1, <2>1 DEF Cycle
<1>14. Len(plan) > 1 => c \in Cycle /\ c.pc = "insert" /\ c.plan = Tail(plan) /\ GoesOn(Tail(plan), t, k + 1)
  <2> SUFFICES ASSUME Len(plan) > 1
               PROVE  c \in Cycle /\ c.pc = "insert" /\ c.plan = Tail(plan) /\ GoesOn(Tail(plan), t, k + 1)
    OBVIOUS
  <2>1. /\ Tail(plan) \in Seq(Rows \X Assignees) /\ Len(Tail(plan)) = Len(plan) - 1
        /\ \A i \in 1..(Len(plan) - 1) : Tail(plan)[i] = plan[i + 1]
    BY ONLY <1>1, <1>3, Len(plan) > 1
  <2>2. c \in Cycle /\ c.pc = "insert" /\ c.plan = Tail(plan)
    BY ONLY <1>1, <2>1 DEF Cycle
  <2>3. \A i \in 1..(Len(plan) - 1) : i + 1 \in 1..Len(plan) /\ k + (i + 1) - 1 = k + 1 + i - 1
    BY <1>3
  <2>4. \A i \in 1..Len(Tail(plan)) :
          /\ Tail(plan)[i] = <<RowOf(t, k + 1 + i - 1), AssigneeFor(t, k + 1 + i - 1)>>
          /\ RowOf(t, k + 1 + i - 1) \in Rows
    BY <2>1, <2>3, <1>2 DEF GoesOn
  <2>5. Len(Tail(plan)) > 0
    BY <2>1, <1>3
  <2> QED
    BY <2>2, <2>4, <2>5 DEF GoesOn
<1>15. /\ run' \in [Schedulers -> Cycle]
       /\ \A u \in Schedulers : u # s => run'[u] = run[u]
       /\ run'[s] = q \/ (Inserted(o) /\ Len(plan) > 1 /\ run'[s] = c)
  <2>1. run \in [Schedulers -> Cycle]
    BY DEF GeneratorInv, TypeOK
  <2> HIDE DEF c, q, plan
  <2> QED
    BY <2>1, <1>12, <1>13, <1>14
<1> HIDE DEF c, q
<1>16. PlanOK(s)'
  <2>1. CASE run'[s] = q
    BY <2>1, <1>13 DEF PlanOK
  <2>2. CASE Inserted(o) /\ Len(plan) > 1 /\ run'[s] = c
    <3>1. Applied(o)
      BY <2>2 DEF Inserted, Applied
    <3>2. \A m \in Nat : m < k + 1 => There(t, m)'
      <4>1. \A m \in Nat : m < k => RowOf(t, m) \in Rows
        BY <1>3, EarlierRows
      <4>2. \A m \in Nat : m < k + 1 => m < k \/ m = k
        OBVIOUS
      <4> QED
        BY <3>1, <4>1, <4>2, <1>2, <1>9, <1>10
    <3>3. GoesOn(run'[s].plan, t, k + 1) /\ k + 1 \in Nat
      BY <2>2, <1>14
    <3> QED
      BY <3>2, <3>3 DEF PlanOK
  <2> QED
    BY <2>1, <2>2, <1>15
<1>17. \A u \in Schedulers : u # s => PlanOK(u)'
  BY <1>9, <1>15, PlansRest
<1> QED
  BY <1>5, <1>8, <1>11, <1>15, <1>16, <1>17 DEF GeneratorInv, TypeOK

-----------------------------------------------------------------------------
(* The other steps of a cycle, and everything else. *)

LEMMA MarkOverdueKeeps ==
  ASSUME GeneratorInv, NEW s \in Schedulers, NEW o \in Outcomes, MarkOverdue(s, o)
  PROVE  GeneratorInv'
<1> DEFINE hand == IF o = "ok" THEN PastDue(run[s].asOf) ELSE {}
           c == [run[s] EXCEPT !.pc = "overdue notices", !.hand = hand]
<1>1. run[s] \in Cycle /\ hand \in SUBSET Rows
  BY CycleTypes DEF PastDue
<1>2. c \in Cycle /\ c.pc = "overdue notices"
  <2> HIDE DEF hand
  <2> QED
    BY ONLY <1>1 DEF Cycle
<1>3. run' = [run EXCEPT ![s] = c] /\ UNCHANGED now
  BY DEF MarkOverdue, Goto
<1> HIDE DEF c, hand
<1>4. inst \in [Rows -> RowRecord]
  BY DEF GeneratorInv, TypeOK
<1>5. inst' = inst \/
      inst' = [r \in Rows |-> IF r \in PastDue(run[s].asOf) THEN [inst[r] EXCEPT !.status = "overdue"] ELSE inst[r]]
  BY DEF MarkOverdue
<1>6. \A r \in PastDue(run[s].asOf) : inst[r].status = "pending"
  BY DEF PastDue
<1>7. \A r \in Rows : /\ inst'[r] \in RowRecord
                      /\ inst[r].status = "absent" <=> inst'[r].status = "absent"
                      /\ inst'[r].assignee = inst[r].assignee
  BY <1>4, <1>5, <1>6 DEF RowRecord, Statuses
<1>8. inst' \in [Rows -> RowRecord]
  BY <1>4, <1>5, <1>7
<1> QED
  BY <1>2, <1>3, <1>7, <1>8, OthersKeep DEF GeneratorInv, TypeOK

LEMMA WithoutFields ==
  ASSUME GeneratorInv, NEW s \in Schedulers, NEW r
  PROVE  Without(s, r) \in Cycle /\ Without(s, r).pc \in {"idle", "reminders"}
         /\ Without(s, r).hand \subseteq run[s].hand \ {r}
         /\ (Without(s, r).pc = "idle" => Without(s, r).hand = {})
         /\ (run[s].hand # {r} => Without(s, r).pc = "reminders" /\ Without(s, r).hand = run[s].hand \ {r})
<1> DEFINE c == [run[s] EXCEPT !.pc = "reminders", !.hand = @ \ {r}, !.failed = None]
<1>1. run[s] \in Cycle
  BY CycleTypes
<1>2. c \in Cycle /\ c.pc = "reminders" /\ c.hand = run[s].hand \ {r}
  BY ONLY <1>1 DEF Cycle
<1>3. Without(s, r) = IF run[s].hand = {r} THEN Idle ELSE c
  BY DEF Without
<1> HIDE DEF c
<1> QED
  BY <1>2, <1>3, IdleFields

\* What ClaimDueSoon, the reminders and the notices do to rows and cycles.
LEMMA RemindersKeep ==
  ASSUME GeneratorInv, NEW s \in Schedulers, NEW o \in Outcomes,
         \/ ClaimDueSoon(s, o) \/ ClearDueSoonReminder(s, o) \/ Crash(s)
         \/ \E r \in run[s].hand : EmitOverdue(s, r, o) \/ EmitDueSoon(s, r, o)
  PROVE  GeneratorInv'
<1>1. run[s] \in Cycle /\ run[s].hand \in SUBSET Rows /\ inst \in [Rows -> RowRecord] /\ UNCHANGED now
  BY CycleTypes DEF GeneratorInv, TypeOK, ClaimDueSoon, ClearDueSoonReminder, Crash, EmitOverdue, EmitDueSoon
<1>2. \E c \in Cycle : run' = [run EXCEPT ![s] = c] /\ c.pc # "insert"
  <2>1. CASE ClaimDueSoon(s, o)
    <3> DEFINE due == DueSoon(run[s].asOf)
               c == [run[s] EXCEPT !.pc = "reminders", !.hand = due]
    <3>1. due \in SUBSET Rows
      BY DEF DueSoon
    <3>2. c \in Cycle /\ c.pc = "reminders"
      <4> HIDE DEF due
      <4> QED
        BY ONLY <1>1, <3>1 DEF Cycle
    <3>3. run' = [run EXCEPT ![s] = c] \/ run' = [run EXCEPT ![s] = Idle]
      BY <2>1 DEF ClaimDueSoon, Goto
    <3> HIDE DEF c
    <3> QED
      BY <3>2, <3>3, IdleFields
  <2>2. CASE ClearDueSoonReminder(s, o)
    <3> DEFINE c == Without(s, run[s].failed)
    <3>1. c \in Cycle /\ c.pc \in {"idle", "reminders"}
      BY WithoutFields
    <3>2. run' = [run EXCEPT ![s] = c]
      BY <2>2 DEF ClearDueSoonReminder, Goto
    <3> HIDE DEF c
    <3> QED
      BY <3>1, <3>2
  <2>3. CASE Crash(s)
    BY <2>3, IdleFields DEF Crash, Goto
  <2>4. ASSUME NEW r \in run[s].hand, EmitOverdue(s, r, o)
        PROVE  \E c \in Cycle : run' = [run EXCEPT ![s] = c] /\ c.pc # "insert"
    <3> DEFINE c == [run[s] EXCEPT !.hand = @ \ {r}]
    <3>1. run[s].pc = "overdue notices" /\ run' = [run EXCEPT ![s] = c]
      BY <2>4 DEF EmitOverdue, Goto
    <3>2. c \in Cycle /\ c.pc = "overdue notices"
      BY ONLY <1>1, <3>1 DEF Cycle
    <3> HIDE DEF c
    <3> QED
      BY <3>1, <3>2
  <2>5. ASSUME NEW r \in run[s].hand, EmitDueSoon(s, r, o)
        PROVE  \E c \in Cycle : run' = [run EXCEPT ![s] = c] /\ c.pc # "insert"
    <3>1. Recover(s, r) \in Cycle /\ Recover(s, r).pc = "clear"
      BY <1>1 DEF Recover, Cycle
    <3>2. run' = [run EXCEPT ![s] = Without(s, r)] \/ run' = [run EXCEPT ![s] = Recover(s, r)]
      BY <2>5 DEF EmitDueSoon, Goto
    <3> QED
      BY <3>1, <3>2, WithoutFields
  <2> QED
    BY <2>1, <2>2, <2>3, <2>4, <2>5
<1>3. \/ inst' = inst
      \/ inst' = [r \in Rows |-> IF r \in DueSoon(run[s].asOf) THEN [inst[r] EXCEPT !.reminded = TRUE] ELSE inst[r]]
      \/ inst' = [inst EXCEPT ![run[s].failed].reminded = FALSE]
  BY DEF ClaimDueSoon, ClearDueSoonReminder, Crash, EmitOverdue, EmitDueSoon
<1>4. ASSUME NEW r \in Rows
      PROVE  /\ inst'[r] \in RowRecord
             /\ inst[r].status = "absent" <=> inst'[r].status = "absent"
             /\ inst'[r].assignee = inst[r].assignee
  <2> DEFINE stamped == [inst[r] EXCEPT !.reminded = TRUE]
             cleared == [inst[r] EXCEPT !.reminded = FALSE]
  <2>1. inst[r] \in RowRecord
    BY <1>1
  <2>2. /\ stamped \in RowRecord /\ stamped.status = inst[r].status /\ stamped.assignee = inst[r].assignee
        /\ cleared \in RowRecord /\ cleared.status = inst[r].status /\ cleared.assignee = inst[r].assignee
    BY ONLY <2>1 DEF RowRecord
  <2>3. inst'[r] = inst[r] \/ inst'[r] = stamped \/ inst'[r] = cleared
    BY <1>1, <1>3
  <2> QED
    BY ONLY <2>1, <2>2, <2>3
<1>5. inst' \in [Rows -> RowRecord]
  BY <1>1, <1>3, <1>4
<1> QED
  BY <1>1, <1>2, <1>4, <1>5, OthersKeep DEF GeneratorInv, TypeOK

LEMMA RestKeeps ==
  ASSUME GeneratorInv, UNCHANGED run, now' \in 0..MaxTime,
         UNCHANGED inst \/ \E r \in Rows : inst[r].status \in {"pending", "overdue"}
                                            /\ inst' = [inst EXCEPT ![r].status = "done"]
  PROVE  GeneratorInv'
<1>1. inst \in [Rows -> RowRecord]
  BY DEF GeneratorInv, TypeOK
<1>2. /\ inst' \in [Rows -> RowRecord]
      /\ \A r \in Rows : /\ inst[r].status = "absent" <=> inst'[r].status = "absent"
                         /\ inst'[r].assignee = inst[r].assignee
  BY <1>1 DEF RowRecord, Statuses
<1> QED
  BY <1>2, ChoresRest, PlansRest DEF GeneratorInv, TypeOK
LEMMA InitKeeps == Init => GeneratorInv
<1> SUFFICES ASSUME Init PROVE GeneratorInv
  OBVIOUS
<1>1. NoRow \in RowRecord /\ NoRow.status = "absent"
  BY DEF NoRow, RowRecord, Statuses, Assignees
<1>2. TypeOK
  BY <1>1, IdleFields, ClockAssumption DEF Init, TypeOK
<1>3. \A t \in Healthy : Materialised(t) = {}
  BY <1>1 DEF Init, Materialised
<1>4. \A s \in Schedulers : PlanOK(s)
  BY IdleFields DEF Init, PlanOK
<1> QED
  BY <1>2, <1>3, <1>4 DEF GeneratorInv, ChoreOK

LEMMA StepKeeps == GeneratorInv /\ [Next]_vars => GeneratorInv'
<1> SUFFICES ASSUME GeneratorInv, [Next]_vars PROVE GeneratorInv'
  OBVIOUS
<1>1. ASSUME NEW s \in Schedulers, RunOnce(s) PROVE GeneratorInv'
  <2>1. PICK o \in Outcomes :
          \/ Tick(s, o) \/ \E t \in run[s].tasks : Materialise(s, t, o)
          \/ Insert(s, o) \/ MarkOverdue(s, o) \/ \E r \in run[s].hand : EmitOverdue(s, r, o)
          \/ ClaimDueSoon(s, o) \/ \E r \in run[s].hand : EmitDueSoon(s, r, o)
          \/ ClearDueSoonReminder(s, o)
    BY <1>1 DEF RunOnce
  <2> QED
    BY <2>1, TickKeeps, MaterialiseKeeps, InsertKeeps, MarkOverdueKeeps, RemindersKeep
<1>2. ASSUME NEW s \in Schedulers, Crash(s) PROVE GeneratorInv'
  <2>1. "ok" \in Outcomes
    BY DEF Outcomes
  <2> QED
    BY <1>2, <2>1, RemindersKeep
<1>3. ASSUME NEW r \in Rows, Close(r) PROVE GeneratorInv'
  <2>1. now \in 0..MaxTime
    BY DEF GeneratorInv, TypeOK
  <2> QED
    BY <1>3, <2>1, RestKeeps DEF Close
<1>4. ASSUME Advance PROVE GeneratorInv'
  <2>1. now' \in 0..MaxTime
    BY <1>4, ClockAssumption DEF Advance, GeneratorInv, TypeOK
  <2> QED
    BY <1>4, <2>1, RestKeeps DEF Advance
<1>5. ASSUME UNCHANGED vars PROVE GeneratorInv'
  <2>1. now' \in 0..MaxTime /\ UNCHANGED <<run, inst>>
    BY <1>5 DEF vars, GeneratorInv, TypeOK
  <2> QED
    BY <2>1, RestKeeps
<1> QED
  BY <1>1, <1>2, <1>3, <1>4, <1>5 DEF Next

\* Whoever generates, and however often it fails, a chore's rows are its first
\* occurrences and every plan in hand continues them, each number with its member.
THEOREM GeneratorInvariant == Spec => []GeneratorInv
<1>1. Init => GeneratorInv
  BY InitKeeps
<1>2. GeneratorInv /\ [Next]_vars => GeneratorInv'
  BY StepKeeps
<1> QED
  BY <1>1, <1>2, PTL DEF Spec

\* The n-th occurrence of every chore belongs to the n-th member of its pool and
\* none is left out before a later one, whatever cycles, processes and failures
\* it took: materialiseTask counts the ordinals of the cadence, not the rows.
THEOREM RotationTheorem == Spec => []RotationStable
<1>1. GeneratorInv => RotationStable
  <2> SUFFICES ASSUME GeneratorInv, NEW t \in Healthy, NEW n \in 0..MaxDay,
                      RowOf(t, n) \in Materialised(t)
               PROVE  /\ inst[RowOf(t, n)].assignee = AssigneeFor(t, n)
                      /\ \A m \in 0..n : RowOf(t, m) \in Materialised(t)
    BY DEF RotationStable, Healthy
  <2>1. n \in Nat /\ RowOf(t, n) \in Rows
    BY DateTypes DEF Materialised
  <2>2. /\ inst[RowOf(t, n)].assignee = AssigneeFor(t, n)
        /\ \A m \in Nat : m < n => There(t, m)
    BY <2>1 DEF GeneratorInv, ChoreOK
  <2>3. ASSUME NEW m \in 0..n PROVE RowOf(t, m) \in Materialised(t)
    <3>1. m \in Nat /\ (m < n \/ m = n)
      BY <2>1
    <3>2. RowOf(t, m) \in Rows
      BY <2>1, <3>1, EarlierRows
    <3>3. RowOf(t, m)[1] = t
      BY DEF RowOf
    <3> QED
      BY <2>2, <3>1, <3>2, <3>3 DEF Materialised, There
  <2> QED
    BY <2>2, <2>3
<1> QED
  BY <1>1, GeneratorInvariant, PTL
-----------------------------------------------------------------------------
(* The reminders' invariant. *)

\* The rows a process has stamped and still has to tell or clear, and those it
\* has swept and still has to give notice of.
Reminders(s) == IF run[s].pc \in {"reminders", "clear"} THEN run[s].hand ELSE {}
Notices(s)   == IF run[s].pc = "overdue notices" THEN run[s].hand ELSE {}

Untold(r, k)  == told[r][k] = 0
AtMost1(r, k) == told[r][k] <= 1
BeforeDue(r)  == inst[r].status \in {"absent", "pending"}

\* A stamp comes before its notice, and is in the hands of the process that
\* stamped until the notice is enqueued or the stamp cleared.
DueSoonOK(r) ==
  /\ \A s, u \in Schedulers : r \in Reminders(s) /\ r \in Reminders(u) => s = u
  /\ \A s \in Schedulers : r \in Reminders(s) => /\ inst[r].reminded
                                                 /\ Untold(r, "due soon") \/ r \in doubted
  /\ inst[r].status = "absent" => ~inst[r].reminded
  /\ ~inst[r].reminded => Untold(r, "due soon") \/ r \in doubted
  /\ AtMost1(r, "due soon") \/ r \in doubted
  /\ inst[r].reminded /\ r \notin stranded /\ Untold(r, "due soon") =>
       \E s \in Schedulers : r \in Reminders(s)

\* A row is swept once, and told of by the process that swept it.
OverdueOK(r) ==
  /\ \A s, u \in Schedulers : r \in Notices(s) /\ r \in Notices(u) => s = u
  /\ \A s \in Schedulers : r \in Notices(s) => Untold(r, "overdue") /\ ~BeforeDue(r)
  /\ BeforeDue(r) => Untold(r, "overdue")
  /\ AtMost1(r, "overdue")

NoticeInv ==
  /\ told \in [Rows -> [Kinds -> Nat]]
  /\ \A r \in Rows : DueSoonOK(r) /\ OverdueOK(r)
  /\ \A s \in Schedulers : run[s].pc = "clear" => run[s].failed \in run[s].hand

LEMMA TheKinds == "due soon" \in Kinds /\ "overdue" \in Kinds /\ "due soon" # "overdue"
BY DEF Kinds

\* What an enqueue does to the counts.
LEMMA TellCounts ==
  ASSUME told \in [Rows -> [Kinds -> Nat]], NEW q \in Rows, NEW k \in Kinds, NEW o, Tell(q, k, o)
  PROVE  /\ told' \in [Rows -> [Kinds -> Nat]]
         /\ \A r \in Rows, j \in Kinds : r # q \/ j # k \/ ~Applied(o) =>
              (Untold(r, j)' <=> Untold(r, j)) /\ (AtMost1(r, j)' <=> AtMost1(r, j))
         /\ Untold(q, k) => AtMost1(q, k)'
         /\ Applied(o) => ~Untold(q, k)'
         /\ doubted \subseteq doubted'
         /\ o = "unanswered" => q \in doubted'
<1>1. doubted \subseteq doubted' /\ (o = "unanswered" => q \in doubted')
  BY DEF Tell
<1>2. CASE ~Applied(o)
  <2>1. told' = told
    BY <1>2 DEF Tell
  <2>2. \A r \in Rows, j \in Kinds : (Untold(r, j)' <=> Untold(r, j)) /\ (AtMost1(r, j)' <=> AtMost1(r, j))
    BY <2>1 DEF Untold, AtMost1
  <2>3. Untold(q, k) => AtMost1(q, k)
    BY DEF Untold, AtMost1
  <2> QED
    BY <1>1, <1>2, <2>1, <2>2, <2>3
<1>3. CASE Applied(o)
  <2>1. told' = [told EXCEPT ![q][k] = @ + 1]
    BY <1>3 DEF Tell
  <2>2. told[q][k] \in Nat
    OBVIOUS
  <2>3. /\ told' \in [Rows -> [Kinds -> Nat]] /\ told'[q][k] = told[q][k] + 1
        /\ \A r \in Rows, j \in Kinds : r # q \/ j # k => told'[r][j] = told[r][j]
    BY ONLY <2>1, <2>2, told \in [Rows -> [Kinds -> Nat]], q \in Rows, k \in Kinds
  <2>4. \A r \in Rows, j \in Kinds : r # q \/ j # k =>
          (Untold(r, j)' <=> Untold(r, j)) /\ (AtMost1(r, j)' <=> AtMost1(r, j))
    BY <2>3 DEF Untold, AtMost1
  <2>5. (Untold(q, k) => AtMost1(q, k)') /\ ~Untold(q, k)'
    BY <2>2, <2>3 DEF Untold, AtMost1
  <2> QED
    BY <1>1, <1>3, <2>3, <2>4, <2>5
<1> QED
  BY <1>2, <1>3

\* What a step leaves alone: no new hand, no stamp and no notice.
LEMMA DueSoonRests ==
  ASSUME NEW r, DueSoonOK(r),
         Untold(r, "due soon")' <=> Untold(r, "due soon"),
         AtMost1(r, "due soon")' <=> AtMost1(r, "due soon"),
         inst'[r].reminded <=> inst[r].reminded,
         inst'[r].status = "absent" => inst[r].status = "absent",
         r \in doubted => r \in doubted', r \in stranded => r \in stranded',
         \A s \in Schedulers : /\ r \in Reminders(s)' => r \in Reminders(s)
                               /\ r \in Reminders(s) => r \in Reminders(s)' \/ r \in stranded'
  PROVE  DueSoonOK(r)'
BY DEF DueSoonOK

LEMMA OverdueRests ==
  ASSUME NEW r, OverdueOK(r),
         Untold(r, "overdue")' <=> Untold(r, "overdue"),
         AtMost1(r, "overdue")' <=> AtMost1(r, "overdue"),
         BeforeDue(r)' => BeforeDue(r),
         \A s \in Schedulers : r \in Notices(s)' => r \in Notices(s)
  PROVE  OverdueOK(r)'
BY DEF OverdueOK

\* A step that adds nothing to any hand.
LEMMA NoticesRest ==
  ASSUME NoticeInv, UNCHANGED <<told, doubted>>, stranded \subseteq stranded',
         \A r \in Rows : /\ inst'[r].reminded <=> inst[r].reminded
                         /\ inst'[r].status = "absent" => inst[r].status = "absent"
                         /\ BeforeDue(r)' => BeforeDue(r),
         \A s \in Schedulers : /\ Notices(s)' \subseteq Notices(s)
                               /\ Reminders(s)' \subseteq Reminders(s)
                               /\ Reminders(s) \subseteq Reminders(s)' \cup stranded'
                               /\ run'[s].pc = "clear" => run'[s] = run[s]
  PROVE  NoticeInv'
<1>1. told' \in [Rows -> [Kinds -> Nat]]
  BY DEF NoticeInv
<1>2. \A r \in Rows : DueSoonOK(r)'
  <2>1. \A r \in Rows : /\ Untold(r, "due soon")' <=> Untold(r, "due soon")
                        /\ AtMost1(r, "due soon")' <=> AtMost1(r, "due soon")
    BY DEF Untold, AtMost1
  <2> QED
    BY <2>1, DueSoonRests DEF NoticeInv
<1>3. \A r \in Rows : OverdueOK(r)'
  <2>1. \A r \in Rows : /\ Untold(r, "overdue")' <=> Untold(r, "overdue")
                        /\ AtMost1(r, "overdue")' <=> AtMost1(r, "overdue")
    BY DEF Untold, AtMost1
  <2> QED
    BY <2>1, OverdueRests DEF NoticeInv
<1>4. \A s \in Schedulers : run'[s].pc = "clear" => run'[s].failed \in run'[s].hand
  BY DEF NoticeInv
<1> QED
  BY <1>1, <1>2, <1>3, <1>4 DEF NoticeInv
-----------------------------------------------------------------------------
(* How the steps keep it. *)

Holding == {"overdue notices", "reminders", "clear"}

\* One process moves; the hands of the others are what they were.
LEMMA OneMoves ==
  ASSUME GeneratorInv, NEW s \in Schedulers, NEW c, run' = [run EXCEPT ![s] = c]
  PROVE  /\ run'[s] = c
         /\ \A u \in Schedulers : u # s => /\ run'[u] = run[u]
                                           /\ Reminders(u)' = Reminders(u) /\ Notices(u)' = Notices(u)
<1>1. run'[s] = c /\ \A u \in Schedulers : u # s => run'[u] = run[u]
  BY DEF GeneratorInv, TypeOK
<1> QED
  BY <1>1 DEF Reminders, Notices

\* The generator's steps hold nothing.
LEMMA GeneratingRests ==
  ASSUME GeneratorInv, NEW s \in Schedulers, NEW c, run' = [run EXCEPT ![s] = c],
         run[s].pc \notin Holding, c.pc \notin Holding
  PROVE  \A u \in Schedulers : /\ Notices(u)' \subseteq Notices(u)
                               /\ Reminders(u)' \subseteq Reminders(u)
                               /\ Reminders(u) \subseteq Reminders(u)' \cup stranded'
                               /\ run'[u].pc = "clear" => run'[u] = run[u]
<1>1. Reminders(s)' = {} /\ Notices(s)' = {} /\ Reminders(s) = {} /\ run'[s].pc # "clear"
  BY OneMoves DEF Reminders, Notices, Holding
<1> QED
  BY <1>1, OneMoves, ZenonT(60)

LEMMA AbandonPc ==
  ASSUME GeneratorInv, NEW s \in Schedulers, NEW t, Abandon(s, t)
  PROVE  \E c \in Cycle : run' = [run EXCEPT ![s] = c] /\ c.pc = "generate"
<1> DEFINE c == [run[s] EXCEPT !.pc = "generate", !.tasks = @ \ {t}, !.plan = << >>]
<1>1. run[s] \in Cycle /\ << >> \in Seq(Rows \X Assignees)
  BY CycleTypes
<1>2. c \in Cycle /\ c.pc = "generate"
  BY ONLY <1>1 DEF Cycle
<1>3. run' = [run EXCEPT ![s] = c]
  BY DEF Abandon, Goto
<1> HIDE DEF c
<1> QED
  BY <1>2, <1>3

LEMMA GeneratorHolds ==
  ASSUME GeneratorInv, NoticeInv, NEW s \in Schedulers, NEW o \in Outcomes,
         Tick(s, o) \/ Insert(s, o) \/ \E t \in run[s].tasks : Materialise(s, t, o)
  PROVE  NoticeInv'
<1>1. UNCHANGED <<told, doubted>> /\ stranded \subseteq stranded'
  BY ZenonT(60) DEF Tick, Insert, Materialise
<1>2. run[s] \in Cycle /\ run[s].pc \in {"idle", "generate", "insert"}
  BY CycleTypes, ZenonT(60) DEF Tick, Insert, Materialise
<1>3. \E c : run' = [run EXCEPT ![s] = c] /\ c.pc \in {"generate", "insert"}
  <2>1. CASE Tick(s, o)
    <3> DEFINE c == [Idle EXCEPT !.pc = "generate", !.asOf = now, !.tasks = IF o = "ok" THEN Tasks ELSE {}]
    <3>1. c.pc = "generate" /\ run' = [run EXCEPT ![s] = c]
      BY <2>1 DEF Tick, Goto, Idle
    <3> HIDE DEF c
    <3> QED
      BY <3>1
  <2>2. CASE Insert(s, o)
    <3> DEFINE c == [run[s] EXCEPT !.plan = Tail(@)]
    <3>1. Abandon(s, Head(run[s].plan)[1][1]) \/ run' = [run EXCEPT ![s] = c]
      BY <2>2, SMTT(30) DEF Insert, Goto
    <3>2. c.pc = "insert"
      <4>1. run[s].pc = "insert"
        BY <2>2 DEF Insert
      <4> QED
        BY ONLY <1>2, <4>1 DEF Cycle
    <3> HIDE DEF c
    <3> QED
      BY <3>1, <3>2, AbandonPc
  <2>3. ASSUME NEW t \in run[s].tasks, Materialise(s, t, o)
        PROVE  \E c : run' = [run EXCEPT ![s] = c] /\ c.pc \in {"generate", "insert"}
    <3> DEFINE plan == PlanFor(t, DayLen * Date(run[s].asOf + Ahead))
               c == [run[s] EXCEPT !.pc = "insert", !.plan = plan]
    <3>1. Abandon(s, t) \/ run' = [run EXCEPT ![s] = c]
      BY <2>3 DEF Materialise, Goto
    <3>2. c.pc = "insert"
      <4> HIDE DEF plan
      <4> QED
        BY ONLY <1>2 DEF Cycle
    <3> HIDE DEF c, plan
    <3> QED
      BY <3>1, <3>2, AbandonPc
  <2> QED
    BY <2>1, <2>2, <2>3
<1>4. PICK c : run' = [run EXCEPT ![s] = c] /\ c.pc \in {"generate", "insert"}
  BY <1>3
<1>5. \A u \in Schedulers : /\ Notices(u)' \subseteq Notices(u)
                            /\ Reminders(u)' \subseteq Reminders(u)
                            /\ Reminders(u) \subseteq Reminders(u)' \cup stranded'
                            /\ run'[u].pc = "clear" => run'[u] = run[u]
  <2>1. run[s].pc \notin Holding /\ c.pc \notin Holding
    BY <1>2, <1>4 DEF Holding
  <2> QED
    BY <1>4, <2>1, GeneratingRests
<1>6. \A r \in Rows : /\ inst'[r].reminded <=> inst[r].reminded
                      /\ inst'[r].status = "absent" => inst[r].status = "absent"
                      /\ BeforeDue(r)' => BeforeDue(r)
  <2>1. CASE inst' = inst
    BY <2>1 DEF BeforeDue
  <2>2. CASE inst' # inst
    <3> DEFINE row == Head(run[s].plan)[1]
               fresh == [NoRow EXCEPT !.status = "pending", !.assignee = Head(run[s].plan)[2]]
    <3>1. inst[row].status = "absent" /\ inst' = [inst EXCEPT ![row] = fresh]
      BY <2>2, ZenonT(60) DEF Tick, Insert, Materialise
    <3>2. fresh.status = "pending" /\ fresh.reminded = FALSE
      BY DEF NoRow
    <3>3. inst \in [Rows -> RowRecord]
      BY DEF GeneratorInv, TypeOK
    <3> HIDE DEF row, fresh
    <3>4. \A r \in Rows : inst'[r] = inst[r] \/ (r = row /\ inst'[r] = fresh)
      BY <3>1, <3>3
    <3>5. \A r \in Rows : inst[r].status = "absent" => ~inst[r].reminded
      BY DEF NoticeInv, DueSoonOK
    <3> QED
      BY <3>1, <3>2, <3>4, <3>5 DEF BeforeDue
  <2> QED
    BY <2>1, <2>2
<1> QED
  BY <1>1, <1>5, <1>6, NoticesRest

\* The rows a sweep marks were pending, so nobody had them and nobody was told.
LEMMA MarkOverdueHolds ==
  ASSUME GeneratorInv, NoticeInv, NEW s \in Schedulers, NEW o \in Outcomes, MarkOverdue(s, o)
  PROVE  NoticeInv'
<1> DEFINE hand == IF o = "ok" THEN PastDue(run[s].asOf) ELSE {}
           c == [run[s] EXCEPT !.pc = "overdue notices", !.hand = hand]
<1>1. run[s] \in Cycle /\ inst \in [Rows -> RowRecord]
  BY CycleTypes DEF GeneratorInv, TypeOK
<1>2. UNCHANGED <<told, doubted, stranded>> /\ run[s].pc = "generate" /\ run' = [run EXCEPT ![s] = c]
  BY DEF MarkOverdue, Goto
<1>3. c.pc = "overdue notices" /\ c.hand = hand
  <2> HIDE DEF hand
  <2> QED
    BY ONLY <1>1 DEF Cycle
<1>4. inst' = IF Applied(o) THEN [r \in Rows |-> IF r \in PastDue(run[s].asOf)
                                                THEN [inst[r] EXCEPT !.status = "overdue"] ELSE inst[r]]
              ELSE inst
  BY DEF MarkOverdue
<1> DEFINE swept(r) == [inst[r] EXCEPT !.status = "overdue"]
<1>5. \A r \in Rows : /\ r \in PastDue(run[s].asOf) => inst[r].status = "pending"
                      /\ swept(r).status = "overdue" /\ swept(r).reminded = inst[r].reminded
  BY <1>1 DEF PastDue, RowRecord
<1>6. \A r \in Rows : \/ inst'[r] = inst[r] /\ r \notin hand
                      \/ inst'[r] = swept(r) /\ r \in PastDue(run[s].asOf)
  BY <1>4 DEF Applied
<1>7. \A r \in Rows : r \in hand => r \in PastDue(run[s].asOf)
  OBVIOUS
<1>8. /\ Reminders(s)' = {} /\ Reminders(s) = {} /\ Notices(s)' = hand /\ run'[s].pc # "clear"
      /\ \A u \in Schedulers : u # s => /\ run'[u] = run[u]
                                        /\ Reminders(u)' = Reminders(u) /\ Notices(u)' = Notices(u)
  <2> HIDE DEF c, hand
  <2> QED
    BY <1>2, <1>3, OneMoves DEF Reminders, Notices
<1> HIDE DEF hand, c, swept
<1>9. \A r \in Rows, k \in Kinds : (Untold(r, k)' <=> Untold(r, k)) /\ (AtMost1(r, k)' <=> AtMost1(r, k))
  BY <1>2 DEF Untold, AtMost1
<1>10. ASSUME NEW r \in Rows PROVE DueSoonOK(r)'
  <2>1. /\ inst'[r].reminded <=> inst[r].reminded
        /\ inst'[r].status = "absent" => inst[r].status = "absent"
    BY <1>5, <1>6
  <2>2. \A u \in Schedulers : Reminders(u)' = Reminders(u)
    BY <1>8
  <2>3. DueSoonOK(r)
    BY DEF NoticeInv
  <2> QED
    BY <2>1, <2>2, <2>3, <1>2, <1>9, TheKinds, DueSoonRests
<1>11. ASSUME NEW r \in Rows PROVE OverdueOK(r)'
  <2>1. OverdueOK(r)
    BY DEF NoticeInv
  <2>2. CASE r \in PastDue(run[s].asOf)
    <3>1. BeforeDue(r)
      BY <2>2, <1>5 DEF BeforeDue
    <3>2. Untold(r, "overdue")' /\ AtMost1(r, "overdue")'
      BY <2>1, <3>1, <1>9, TheKinds DEF OverdueOK
    <3>3. \A u \in Schedulers : r \in Notices(u)' => u = s
      BY <2>1, <3>1, <1>8 DEF OverdueOK
    <3>4. r \in hand => ~BeforeDue(r)'
      BY <1>5, <1>6 DEF BeforeDue
    <3> QED
      BY <3>2, <3>3, <3>4, <1>8 DEF OverdueOK
  <2>3. CASE r \notin PastDue(run[s].asOf)
    <3>1. BeforeDue(r)' => BeforeDue(r)
      BY <2>3, <1>6 DEF BeforeDue
    <3>2. \A u \in Schedulers : r \in Notices(u)' => r \in Notices(u)
      BY <2>3, <1>7, <1>8
    <3> QED
      BY <2>1, <3>1, <3>2, <1>9, TheKinds, OverdueRests
  <2> QED
    BY <2>2, <2>3
<1>12. \A u \in Schedulers : run'[u].pc = "clear" => run'[u].failed \in run'[u].hand
  BY <1>8 DEF NoticeInv
<1> QED
  BY <1>2, <1>10, <1>11, <1>12 DEF NoticeInv
\* The notice given, or lost, the row leaves the only hand it was in.
LEMMA EmitOverdueHolds ==
  ASSUME GeneratorInv, NoticeInv, NEW s \in Schedulers, NEW o \in Outcomes,
         NEW q \in run[s].hand, EmitOverdue(s, q, o)
  PROVE  NoticeInv'
<1> DEFINE c == [run[s] EXCEPT !.hand = @ \ {q}]
<1>1. run[s] \in Cycle /\ q \in Rows
  BY CycleTypes
<1>2. /\ UNCHANGED <<inst, stranded>> /\ run[s].pc = "overdue notices" /\ run' = [run EXCEPT ![s] = c]
      /\ Tell(q, "overdue", o)
  BY DEF EmitOverdue, Goto
<1>3. c.pc = "overdue notices" /\ c.hand = run[s].hand \ {q}
  BY ONLY <1>1, <1>2 DEF Cycle
<1>4. /\ told' \in [Rows -> [Kinds -> Nat]] /\ doubted \subseteq doubted'
      /\ \A r \in Rows, j \in Kinds : r # q \/ j # "overdue" =>
           (Untold(r, j)' <=> Untold(r, j)) /\ (AtMost1(r, j)' <=> AtMost1(r, j))
      /\ Untold(q, "overdue") => AtMost1(q, "overdue")'
  BY <1>1, <1>2, TheKinds, TellCounts DEF NoticeInv
<1>5. /\ Reminders(s)' = {} /\ Reminders(s) = {} /\ run'[s].pc # "clear"
      /\ Notices(s)' = Notices(s) \ {q} /\ q \in Notices(s)
      /\ \A u \in Schedulers : u # s => /\ run'[u] = run[u]
                                        /\ Reminders(u)' = Reminders(u) /\ Notices(u)' = Notices(u)
  <2> HIDE DEF c
  <2> QED
    BY <1>2, <1>3, OneMoves DEF Reminders, Notices
<1> HIDE DEF c
<1>6. \A r \in Rows : BeforeDue(r)' <=> BeforeDue(r)
  BY <1>2 DEF BeforeDue
<1>7. ASSUME NEW r \in Rows PROVE DueSoonOK(r)'
  <2>1. DueSoonOK(r)
    BY DEF NoticeInv
  <2>2. /\ Untold(r, "due soon")' <=> Untold(r, "due soon")
        /\ AtMost1(r, "due soon")' <=> AtMost1(r, "due soon")
    BY <1>4, TheKinds
  <2>3. \A u \in Schedulers : Reminders(u)' = Reminders(u)
    BY <1>5
  <2> QED
    BY <2>1, <2>2, <2>3, <1>2, <1>4, DueSoonRests
<1>8. ASSUME NEW r \in Rows PROVE OverdueOK(r)'
  <2>1. OverdueOK(r)
    BY DEF NoticeInv
  <2>2. CASE r = q
    <3>1. Untold(r, "overdue") /\ ~BeforeDue(r) /\ \A u \in Schedulers : r \in Notices(u) => u = s
      BY <2>1, <2>2, <1>5 DEF OverdueOK
    <3>2. AtMost1(r, "overdue")' /\ ~BeforeDue(r)'
      BY <2>2, <3>1, <1>4, <1>6
    <3>3. \A u \in Schedulers : r \notin Notices(u)'
      BY <2>2, <3>1, <1>5
    <3> QED
      BY <3>2, <3>3 DEF OverdueOK
  <2>3. CASE r # q
    BY <2>1, <2>3, <1>4, <1>5, <1>6, TheKinds, OverdueRests
  <2> QED
    BY <2>2, <2>3
<1>9. \A u \in Schedulers : run'[u].pc = "clear" => run'[u].failed \in run'[u].hand
  BY <1>5 DEF NoticeInv
<1> QED
  BY <1>4, <1>7, <1>8, <1>9 DEF NoticeInv

\* The rows claimed had no stamp, so nobody had them.
LEMMA ClaimDueSoonHolds ==
  ASSUME GeneratorInv, NoticeInv, NEW s \in Schedulers, NEW o \in Outcomes, ClaimDueSoon(s, o)
  PROVE  NoticeInv'
<1> DEFINE due == DueSoon(run[s].asOf)
           busy == [run[s] EXCEPT !.pc = "reminders", !.hand = due]
           c == IF o = "ok" /\ due # {} THEN busy ELSE Idle
           stamped(r) == [inst[r] EXCEPT !.reminded = TRUE]
<1>1. run[s] \in Cycle /\ inst \in [Rows -> RowRecord]
  BY CycleTypes DEF GeneratorInv, TypeOK
<1>2. /\ UNCHANGED <<told, doubted>> /\ run[s].pc = "overdue notices" /\ run[s].hand = {}
      /\ run' = [run EXCEPT ![s] = c]
      /\ stranded' = IF o = "unanswered" THEN stranded \cup due ELSE stranded
      /\ inst' = IF Applied(o) THEN [r \in Rows |-> IF r \in due THEN stamped(r) ELSE inst[r]] ELSE inst
  BY DEF ClaimDueSoon, Goto
<1>3. busy.pc = "reminders" /\ busy.hand = due
  <2> HIDE DEF due
  <2> QED
    BY ONLY <1>1 DEF Cycle
<1>4. \A r \in Rows : /\ r \in due => ~inst[r].reminded /\ inst[r].status = "pending"
                      /\ stamped(r).reminded = TRUE /\ stamped(r).status = inst[r].status
  BY <1>1 DEF DueSoon, RowRecord
<1> HIDE DEF due, busy, stamped
<1>5. \/ o = "ok" /\ due # {} /\ c = busy
      \/ c = Idle /\ (o # "ok" \/ due = {})
  OBVIOUS
<1> HIDE DEF c
<1>6. /\ Notices(s)' = {} /\ Notices(s) = {} /\ Reminders(s) = {} /\ run'[s].pc # "clear"
      /\ (o = "ok" => Reminders(s)' = due) /\ (o # "ok" => Reminders(s)' = {})
      /\ \A u \in Schedulers : u # s => /\ run'[u] = run[u]
                                        /\ Reminders(u)' = Reminders(u) /\ Notices(u)' = Notices(u)
  BY <1>2, <1>3, <1>5, IdleFields, OneMoves DEF Reminders, Notices
<1>7. \A r \in Rows, k \in Kinds : (Untold(r, k)' <=> Untold(r, k)) /\ (AtMost1(r, k)' <=> AtMost1(r, k))
  BY <1>2 DEF Untold, AtMost1
<1>8. \A r \in Rows : /\ r \in due /\ Applied(o) => inst'[r] = stamped(r)
                      /\ r \notin due \/ ~Applied(o) => inst'[r] = inst[r]
  BY <1>2
<1>9. ASSUME NEW r \in Rows PROVE OverdueOK(r)'
  <2>1. OverdueOK(r) /\ (BeforeDue(r)' <=> BeforeDue(r))
    BY <1>4, <1>8 DEF NoticeInv, BeforeDue
  <2> QED
    BY <2>1, <1>6, <1>7, TheKinds, OverdueRests
<1>10. ASSUME NEW r \in Rows PROVE DueSoonOK(r)'
  <2>1. DueSoonOK(r)
    BY DEF NoticeInv
  <2>2. CASE r \in due /\ Applied(o)
    <3>1. Untold(r, "due soon") \/ r \in doubted
      BY <2>1, <2>2, <1>4 DEF DueSoonOK
    <3>2. \A u \in Schedulers : r \in Reminders(u)' => u = s
      BY <2>1, <2>2, <1>4, <1>6 DEF DueSoonOK
    <3>3. inst'[r].reminded /\ inst'[r].status # "absent"
      BY <2>2, <1>4, <1>8
    <3>4. r \in stranded' \/ r \in Reminders(s)'
      BY <2>2, <1>2, <1>6 DEF Applied, Outcomes
    <3>5. /\ Untold(r, "due soon")' \/ r \in doubted'
          /\ AtMost1(r, "due soon")' \/ r \in doubted'
      BY <2>1, <3>1, <1>2, <1>7, TheKinds DEF DueSoonOK
    <3> QED
      BY <3>2, <3>3, <3>4, <3>5 DEF DueSoonOK
  <2>3. CASE r \notin due \/ ~Applied(o)
    <3>1. inst'[r] = inst[r]
      BY <2>3, <1>8
    <3>2. \A u \in Schedulers : r \in Reminders(u)' <=> r \in Reminders(u)
      BY <2>3, <1>6 DEF Applied
    <3>3. r \in stranded => r \in stranded'
      BY <1>2
    <3> QED
      BY <2>1, <3>1, <3>2, <3>3, <1>2, <1>7, TheKinds, DueSoonRests
  <2> QED
    BY <2>2, <2>3
<1>11. \A u \in Schedulers : run'[u].pc = "clear" => run'[u].failed \in run'[u].hand
  BY <1>6 DEF NoticeInv
<1> QED
  BY <1>2, <1>9, <1>10, <1>11 DEF NoticeInv

\* What is left in the hand of the process that dealt with a row.
LEMMA WithoutHand ==
  ASSUME GeneratorInv, NEW s \in Schedulers, run[s].pc \in {"reminders", "clear"}, NEW r \in run[s].hand,
         run' = [run EXCEPT ![s] = Without(s, r)]
  PROVE  /\ Reminders(s)' = Reminders(s) \ {r} /\ r \in Reminders(s)
         /\ Notices(s)' = {} /\ Notices(s) = {} /\ run'[s].pc # "clear"
<1>1. /\ Without(s, r).pc \in {"idle", "reminders"}
      /\ Without(s, r).pc = "idle" => Without(s, r).hand = {}
      /\ run[s].hand # {r} => Without(s, r).pc = "reminders" /\ Without(s, r).hand = run[s].hand \ {r}
      /\ Without(s, r).hand \subseteq run[s].hand \ {r}
  BY WithoutFields
<1>2. run'[s] = Without(s, r)
  BY OneMoves
<1> QED
  BY <1>1, <1>2 DEF Reminders, Notices

\* A notice that was enqueued leaves the hand with its row; one that failed
\* stays there to be cleared, and is doubted if it was carried out after all.
LEMMA EmitDueSoonHolds ==
  ASSUME GeneratorInv, NoticeInv, NEW s \in Schedulers, NEW o \in Outcomes,
         NEW q \in run[s].hand, EmitDueSoon(s, q, o)
  PROVE  NoticeInv'
<1>1. run[s] \in Cycle /\ q \in Rows
  BY CycleTypes
<1>2. /\ UNCHANGED <<inst, stranded>> /\ run[s].pc = "reminders" /\ Tell(q, "due soon", o)
      /\ run' = [run EXCEPT ![s] = IF o = "ok" THEN Without(s, q) ELSE Recover(s, q)]
  BY DEF EmitDueSoon, Goto
<1>3. /\ told' \in [Rows -> [Kinds -> Nat]] /\ doubted \subseteq doubted'
      /\ \A r \in Rows, j \in Kinds : r # q \/ j # "due soon" \/ ~Applied(o) =>
           (Untold(r, j)' <=> Untold(r, j)) /\ (AtMost1(r, j)' <=> AtMost1(r, j))
      /\ Untold(q, "due soon") => AtMost1(q, "due soon")'
      /\ Applied(o) => ~Untold(q, "due soon")'
      /\ o = "unanswered" => q \in doubted'
  BY <1>1, <1>2, TheKinds, TellCounts DEF NoticeInv
<1>4. Recover(s, q).pc = "clear" /\ Recover(s, q).hand = run[s].hand /\ Recover(s, q).failed = q
  BY ONLY <1>1 DEF Recover, Cycle
<1>5. \A u \in Schedulers : u # s => /\ run'[u] = run[u]
                                     /\ Reminders(u)' = Reminders(u) /\ Notices(u)' = Notices(u)
  BY <1>2, OneMoves
<1>6. /\ Notices(s)' = {} /\ Notices(s) = {} /\ q \in Reminders(s)
      /\ o = "ok" => Reminders(s)' = Reminders(s) \ {q}
      /\ o # "ok" => Reminders(s)' = Reminders(s)
      /\ run'[s].pc = "clear" => run'[s].failed \in run'[s].hand
  <2>1. CASE o = "ok"
    BY <2>1, <1>2, WithoutHand
  <2>2. CASE o # "ok"
    <3>1. run'[s] = Recover(s, q)
      BY <2>2, <1>2, OneMoves
    <3> QED
      BY <2>2, <3>1, <1>2, <1>4 DEF Reminders, Notices
  <2> QED
    BY <2>1, <2>2
<1>7. ASSUME NEW r \in Rows PROVE OverdueOK(r)'
  <2>1. OverdueOK(r) /\ (BeforeDue(r)' <=> BeforeDue(r))
    BY <1>2 DEF NoticeInv, BeforeDue
  <2>2. \A u \in Schedulers : r \in Notices(u)' => r \in Notices(u)
    BY <1>5, <1>6
  <2> QED
    BY <2>1, <2>2, <1>3, TheKinds, OverdueRests
<1>8. ASSUME NEW r \in Rows PROVE DueSoonOK(r)'
  <2>1. DueSoonOK(r)
    BY DEF NoticeInv
  <2>2. CASE r # q \/ ~Applied(o)
    <3>1. \A u \in Schedulers : r \in Reminders(u)' <=> r \in Reminders(u)
      BY <2>2, <1>5, <1>6 DEF Applied
    <3>2. /\ Untold(r, "due soon")' <=> Untold(r, "due soon")
          /\ AtMost1(r, "due soon")' <=> AtMost1(r, "due soon")
      BY <2>2, <1>3, TheKinds
    <3> QED
      BY <2>1, <3>1, <3>2, <1>2, <1>3, DueSoonRests
  <2>3. CASE r = q /\ Applied(o)
    <3>1. /\ \A u \in Schedulers : r \in Reminders(u) => u = s
          /\ inst[r].reminded /\ inst[r].status # "absent"
          /\ Untold(r, "due soon") \/ r \in doubted
      BY <2>1, <2>3, <1>6 DEF DueSoonOK
    <3>2. AtMost1(r, "due soon")' \/ r \in doubted'
      BY <2>3, <3>1, <1>3
    <3>3. o # "ok" => r \in doubted'
      BY <2>3, <1>3 DEF Applied, Outcomes
    <3>4. \A u \in Schedulers : r \in Reminders(u)' => u = s /\ o # "ok"
      BY <2>3, <3>1, <1>5, <1>6
    <3> QED
      BY <2>3, <3>1, <3>2, <3>3, <3>4, <1>2, <1>3 DEF DueSoonOK
  <2> QED
    BY <2>2, <2>3
<1>9. \A u \in Schedulers : run'[u].pc = "clear" => run'[u].failed \in run'[u].hand
  BY <1>5, <1>6 DEF NoticeInv
<1> QED
  BY <1>3, <1>7, <1>8, <1>9 DEF NoticeInv

\* Clearing takes the stamp and the row out of the hand together, or leaves the
\* stamp to nobody.
LEMMA ClearHolds ==
  ASSUME GeneratorInv, NoticeInv, NEW s \in Schedulers, NEW o \in Outcomes, ClearDueSoonReminder(s, o)
  PROVE  NoticeInv'
<1> DEFINE q == run[s].failed
           cleared == [inst[q] EXCEPT !.reminded = FALSE]
<1>1. run[s] \in Cycle /\ run[s].pc = "clear" /\ q \in run[s].hand /\ q \in Rows
  BY CycleTypes DEF NoticeInv, ClearDueSoonReminder
<1>2. /\ UNCHANGED <<told, doubted>> /\ run' = [run EXCEPT ![s] = Without(s, q)]
      /\ inst' = IF Applied(o) THEN [inst EXCEPT ![q].reminded = FALSE] ELSE inst
      /\ stranded' = IF Applied(o) THEN stranded ELSE stranded \cup {q}
  BY DEF ClearDueSoonReminder, Goto
<1>3. inst \in [Rows -> RowRecord] /\ cleared.reminded = FALSE /\ cleared.status = inst[q].status
  <2>1. inst \in [Rows -> RowRecord] /\ inst[q] \in RowRecord
    BY <1>1 DEF GeneratorInv, TypeOK
  <2> QED
    BY ONLY <2>1 DEF RowRecord
<1>4. /\ \A r \in Rows : r # q \/ ~Applied(o) => inst'[r] = inst[r]
      /\ Applied(o) => inst'[q] = cleared
  BY <1>1, <1>2, <1>3
<1> HIDE DEF q, cleared
<1>5. /\ Reminders(s)' = Reminders(s) \ {q} /\ q \in Reminders(s)
      /\ Notices(s)' = {} /\ Notices(s) = {} /\ run'[s].pc # "clear"
      /\ \A u \in Schedulers : u # s => /\ run'[u] = run[u]
                                        /\ Reminders(u)' = Reminders(u) /\ Notices(u)' = Notices(u)
  BY <1>1, <1>2, WithoutHand, OneMoves
<1>6. \A r \in Rows, k \in Kinds : (Untold(r, k)' <=> Untold(r, k)) /\ (AtMost1(r, k)' <=> AtMost1(r, k))
  BY <1>2 DEF Untold, AtMost1
<1>7. ASSUME NEW r \in Rows PROVE OverdueOK(r)'
  <2>1. OverdueOK(r) /\ (BeforeDue(r)' <=> BeforeDue(r))
    BY <1>3, <1>4 DEF NoticeInv, BeforeDue
  <2> QED
    BY <2>1, <1>5, <1>6, TheKinds, OverdueRests
<1>8. ASSUME NEW r \in Rows PROVE DueSoonOK(r)'
  <2>1. DueSoonOK(r)
    BY DEF NoticeInv
  <2>2. CASE r # q \/ ~Applied(o)
    <3>1. inst'[r] = inst[r] /\ (r \in stranded => r \in stranded')
      BY <2>2, <1>2, <1>4
    <3>2. \A u \in Schedulers : /\ r \in Reminders(u)' => r \in Reminders(u)
                                /\ r \in Reminders(u) => r \in Reminders(u)' \/ r \in stranded'
      BY <2>2, <1>2, <1>5
    <3> QED
      BY <2>1, <3>1, <3>2, <1>2, <1>6, TheKinds, DueSoonRests
  <2>3. CASE r = q /\ Applied(o)
    <3>1. /\ \A u \in Schedulers : r \in Reminders(u) => u = s
          /\ Untold(r, "due soon") \/ r \in doubted
          /\ AtMost1(r, "due soon") \/ r \in doubted
      BY <2>1, <2>3, <1>5 DEF DueSoonOK
    <3>2. \A u \in Schedulers : r \notin Reminders(u)'
      BY <2>3, <3>1, <1>5
    <3>3. ~inst'[r].reminded
      BY <2>3, <1>3, <1>4
    <3>4. /\ Untold(r, "due soon")' \/ r \in doubted'
          /\ AtMost1(r, "due soon")' \/ r \in doubted'
      BY <3>1, <1>2, <1>6, TheKinds
    <3> QED
      BY <3>2, <3>3, <3>4 DEF DueSoonOK
  <2> QED
    BY <2>2, <2>3
<1>9. \A u \in Schedulers : run'[u].pc = "clear" => run'[u].failed \in run'[u].hand
  BY <1>5 DEF NoticeInv
<1> QED
  BY <1>2, <1>7, <1>8, <1>9 DEF NoticeInv

LEMMA CrashHolds ==
  ASSUME GeneratorInv, NoticeInv, NEW s \in Schedulers, Crash(s)
  PROVE  NoticeInv'
<1>1. /\ UNCHANGED <<told, doubted, inst>> /\ run' = [run EXCEPT ![s] = Idle]
      /\ stranded' = IF run[s].pc \in {"reminders", "clear"} THEN stranded \cup run[s].hand ELSE stranded
  BY DEF Crash, Goto
<1>2. Reminders(s)' = {} /\ Notices(s)' = {} /\ run'[s].pc # "clear" /\ Reminders(s) \subseteq stranded'
  BY <1>1, OneMoves, IdleFields DEF Reminders, Notices
<1>3. \A u \in Schedulers : /\ Notices(u)' \subseteq Notices(u)
                            /\ Reminders(u)' \subseteq Reminders(u)
                            /\ Reminders(u) \subseteq Reminders(u)' \cup stranded'
                            /\ run'[u].pc = "clear" => run'[u] = run[u]
  BY <1>1, <1>2, OneMoves, ZenonT(60)
<1>4. \A r \in Rows : /\ inst'[r].reminded <=> inst[r].reminded
                      /\ inst'[r].status = "absent" => inst[r].status = "absent"
                      /\ BeforeDue(r)' => BeforeDue(r)
  BY <1>1 DEF BeforeDue
<1>5. stranded \subseteq stranded'
  BY <1>1
<1> QED
  BY <1>1, <1>3, <1>4, <1>5, NoticesRest

LEMMA RestHolds ==
  ASSUME GeneratorInv, NoticeInv, UNCHANGED <<run, told, stranded, doubted>>,
         UNCHANGED inst \/ \E r \in Rows : inst' = [inst EXCEPT ![r].status = "done"]
  PROVE  NoticeInv'
<1>1. \A u \in Schedulers : /\ Notices(u)' \subseteq Notices(u)
                            /\ Reminders(u)' \subseteq Reminders(u)
                            /\ Reminders(u) \subseteq Reminders(u)' \cup stranded'
                            /\ run'[u].pc = "clear" => run'[u] = run[u]
  BY DEF Notices, Reminders
<1>2. inst \in [Rows -> RowRecord]
  BY DEF GeneratorInv, TypeOK
<1>3. ASSUME NEW r \in Rows
      PROVE  /\ inst'[r].reminded <=> inst[r].reminded
             /\ inst'[r].status = "absent" => inst[r].status = "absent"
             /\ BeforeDue(r)' => BeforeDue(r)
  <2> DEFINE closed == [inst[r] EXCEPT !.status = "done"]
  <2>1. closed.reminded = inst[r].reminded /\ closed.status = "done"
    BY <1>2 DEF RowRecord
  <2>2. inst'[r] = inst[r] \/ inst'[r] = closed
    BY <1>2
  <2> HIDE DEF closed
  <2> QED
    BY <2>1, <2>2 DEF BeforeDue
<1> QED
  BY <1>1, <1>3, NoticesRest

LEMMA InitHolds == Init => NoticeInv
<1> SUFFICES ASSUME Init PROVE NoticeInv
  OBVIOUS
<1>1. told \in [Rows -> [Kinds -> Nat]] /\ \A r \in Rows, k \in Kinds : told[r][k] = 0
  BY DEF Init
<1>2. \A r \in Rows, k \in Kinds : Untold(r, k) /\ AtMost1(r, k)
  BY <1>1 DEF Untold, AtMost1
<1>3. \A s \in Schedulers : Reminders(s) = {} /\ Notices(s) = {} /\ run[s].pc # "clear"
  BY IdleFields DEF Init, Reminders, Notices
<1>4. \A r \in Rows : ~inst[r].reminded
  BY DEF Init, NoRow
<1> QED
  BY <1>1, <1>2, <1>3, <1>4, TheKinds DEF NoticeInv, DueSoonOK, OverdueOK

LEMMA StepHolds == GeneratorInv /\ NoticeInv /\ [Next]_vars => NoticeInv'
<1> SUFFICES ASSUME GeneratorInv, NoticeInv, [Next]_vars PROVE NoticeInv'
  OBVIOUS
<1>1. ASSUME NEW s \in Schedulers, RunOnce(s) PROVE NoticeInv'
  <2>1. PICK o \in Outcomes :
          \/ Tick(s, o) \/ \E t \in run[s].tasks : Materialise(s, t, o)
          \/ Insert(s, o) \/ MarkOverdue(s, o) \/ \E r \in run[s].hand : EmitOverdue(s, r, o)
          \/ ClaimDueSoon(s, o) \/ \E r \in run[s].hand : EmitDueSoon(s, r, o)
          \/ ClearDueSoonReminder(s, o)
    BY <1>1 DEF RunOnce
  <2> QED
    BY <2>1, GeneratorHolds, MarkOverdueHolds, EmitOverdueHolds, ClaimDueSoonHolds,
       EmitDueSoonHolds, ClearHolds
<1>2. ASSUME NEW r \in Rows, Close(r) PROVE NoticeInv'
  BY <1>2, RestHolds DEF Close
<1>3. ASSUME Advance \/ UNCHANGED vars PROVE NoticeInv'
  BY <1>3, RestHolds DEF Advance, vars
<1> QED
  BY <1>1, <1>2, <1>3, CrashHolds DEF Next

LEMMA NoticesInvariant == Spec => [](GeneratorInv /\ NoticeInv)
<1>1. Init => NoticeInv
  BY InitHolds
<1>2. GeneratorInv /\ NoticeInv /\ [Next]_vars => NoticeInv'
  BY StepHolds
<1> QED
  BY <1>1, <1>2, GeneratorInvariant, PTL DEF Spec

LEMMA Counting ==
  ASSUME told \in [Rows -> [Kinds -> Nat]], NEW r \in Rows, NEW k \in Kinds
  PROVE  (~Untold(r, k) => told[r][k] > 0) /\ (AtMost1(r, k) <=> ~(told[r][k] > 1))
BY DEF Untold, AtMost1

\* A row stamped as reminded has its notice in the outbox or is in the hands of
\* a process that will enqueue it or clear the stamp, unless a crash, a lost
\* commit answer or a failed clear in EmitDueSoon left it to nobody.
THEOREM StampTheorem == Spec => []StampedIsTold
<1>1. GeneratorInv /\ NoticeInv => StampedIsTold
  <2> SUFFICES ASSUME NoticeInv, NEW r \in Rows, inst[r].reminded, ~InHand(r), r \notin stranded
               PROVE  told[r]["due soon"] > 0
    BY DEF StampedIsTold
  <2>1. \A s \in Schedulers : r \notin Reminders(s)
    BY DEF InHand, Reminders
  <2>2. ~Untold(r, "due soon")
    BY <2>1 DEF NoticeInv, DueSoonOK
  <2> QED
    BY <2>2, TheKinds, Counting DEF NoticeInv
<1> QED
  BY <1>1, NoticesInvariant, PTL

\* However many schedulers sweep and remind, nobody is reminded of a chore twice
\* unless an enqueue that failed had been carried out after all, and an overdue
\* notice is never repeated: both follow from a conditional UPDATE ... RETURNING.
THEOREM ToldTheorem == Spec => []ToldOnce
<1>1. GeneratorInv /\ NoticeInv => ToldOnce
  <2> SUFFICES ASSUME NoticeInv, NEW r \in Rows
               PROVE  /\ told[r]["due soon"] > 1 => r \in doubted
                      /\ told[r]["overdue"] <= 1
    BY DEF ToldOnce
  <2>1. AtMost1(r, "due soon") \/ r \in doubted
    BY DEF NoticeInv, DueSoonOK
  <2>2. AtMost1(r, "overdue")
    BY DEF NoticeInv, OverdueOK
  <2>3. ~(told[r]["due soon"] > 1) \/ r \in doubted
    BY <2>1, TheKinds, Counting DEF NoticeInv
  <2>4. told[r]["overdue"] <= 1
    BY <2>2 DEF AtMost1
  <2> QED
    BY <2>3, <2>4
<1> QED
  BY <1>1, NoticesInvariant, PTL
=============================================================================
