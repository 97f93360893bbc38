---------------------------- MODULE ChoreCalendar ----------------------------
(***************************************************************************)
(* The occurrences of recurring chores: how a scheduler's cycle generates  *)
(* them, marks them overdue and reminds their assignees.                   *)
(*                                                                         *)
(* Every scheduler runs RunOnce step after step; each step is one          *)
(* statement, or one transaction that holds nothing between statements,    *)
(* and others may come between any two.  Calls fail as in Calls, and a     *)
(* process may crash.                                                      *)
(*                                                                         *)
(* A chore's cadence is reduced to a first day and a number of days: the   *)
(* module Cadence has the arithmetic of the other frequencies.             *)
(***************************************************************************)
EXTENDS Calls, Integers, Sequences, FiniteSets

CONSTANTS
  Tasks,        \* the active recurring chores
  Corrupt,      \* those with an invalid cadence or an empty pool
  Policy,       \* Policy[t]: "fixed", "round_robin" or "claimable"
  Pool,         \* Pool[t]: the rotation, a sequence of members
  FirstDay,     \* FirstDay[t]: the date of the anchor, in its own zone
  Offset,       \* Offset[t]: its instant, from midnight UTC of that date
  Every,        \* Every[t]: days between occurrences
  Lead,         \* Lead[t]: days of notice
  Schedulers,   \* the processes that run a scheduler
  DayLen,       \* ticks in a day
  Ahead,        \* ticks the generator looks ahead
  MaxTime,      \* bound on the clock
  None

ASSUME CorruptAssumption == Corrupt \subseteq Tasks
ASSUME ClockAssumption == DayLen \in Nat \ {0} /\ Ahead \in Nat /\ MaxTime \in Nat
\* A valid cadence; the calendar of the model begins with the first anchor.
ASSUME CadenceAssumption ==
  \A t \in Tasks \ Corrupt : FirstDay[t] \in Nat /\ Offset[t] \in Int /\ Every[t] \in Nat \ {0}
\* A zone is less than a day from UTC and a clock time less than a day long.
ASSUME OffsetAssumption == \A t \in Tasks : Offset[t] > -DayLen /\ Offset[t] < 2 * DayLen

VARIABLES
  now,       \* the clock
  inst,      \* inst[r]: the row of the occurrence r, r = <<task, due date>>
  run,       \* run[s]: what scheduler s knows in its cycle
  told,      \* told[r][k]: how many notices of kind k were enqueued for r
  stranded,  \* history: rows whose stamp no process will clear or honour
  doubted    \* history: rows with an enqueue that was carried out unanswered

vars == <<now, inst, run, told, faults, stranded, doubted>>

Date(t) == t \div DayLen
MaxDay  == Date(MaxTime + Ahead)
Rows    == Tasks \X (0 .. MaxDay)
Kinds   == {"due soon", "overdue"}

NoRow   == [status |-> "absent", assignee |-> None, reminded |-> FALSE]

\* plan: the rows still to insert for a chore, with their assignees;
\* hand: the rows whose notice is still to be enqueued; failed: the one to clear.
Idle == [pc |-> "idle", asOf |-> 0, tasks |-> {}, plan |-> << >>, hand |-> {}, failed |-> None]

Init == /\ now = 0
        /\ inst = [r \in Rows |-> NoRow]
        /\ run = [s \in Schedulers |-> Idle]
        /\ told = [r \in Rows |-> [k \in Kinds |-> 0]]
        /\ faults = 0 /\ stranded = {} /\ doubted = {}

Goto(s, r) == run' = [run EXCEPT ![s] = r]

-----------------------------------------------------------------------------
(* The generator. *)

\* The instant of occurrence number n, and the row it belongs to.
Instant(t, n) == (FirstDay[t] + n * Every[t]) * DayLen + Offset[t]
RowOf(t, n) == <<t, FirstDay[t] + n * Every[t]>>

\* The ordinals of the occurrences in the window (from, to].
Between(t, from, to) == {n \in 0 .. MaxDay : from < Instant(t, n) /\ Instant(t, n) <= to}

Materialised(t) == {r \in Rows : r[1] = t /\ inst[r].status # "absent"}

\* Midnight UTC of the latest due date, or just before the anchor.
WindowStart(t) == IF Materialised(t) = {} THEN Instant(t, 0) - 1
                  ELSE DayLen * (CHOOSE d \in 0 .. MaxDay : \E r \in Materialised(t) :
                                   r[2] = d /\ \A q \in Materialised(t) : q[2] <= d)

\* Mutant: counts the rows there are instead of the occurrences passed.
OrdinalsFromRows(t, horizon) ==
  [i \in 1 .. Cardinality(Between(t, WindowStart(t), horizon)) |->
     Cardinality(Materialised(t)) + i - 1]

\* The ordinals of the occurrences to insert, in order.
Ordinals(t, horizon) ==
  LET base == Cardinality(Between(t, Instant(t, 0) - 1, WindowStart(t)))
  IN  [i \in 1 .. Cardinality(Between(t, WindowStart(t), horizon)) |-> base + i - 1]

AssigneeFor(t, ordinal) ==
  CASE Policy[t] = "fixed"       -> Pool[t][1]
    [] Policy[t] = "round_robin" -> Pool[t][(ordinal % Len(Pool[t])) + 1]
    [] OTHER                     -> None

\* Which row comes next in the window, each with the member its ordinal gives.
PlanFor(t, horizon) ==
  LET ns == Ordinals(t, horizon)
      first == Cardinality({n \in 0 .. MaxDay : Instant(t, n) <= WindowStart(t)})
  IN  [i \in DOMAIN ns |-> <<RowOf(t, first + i - 1), AssigneeFor(t, ns[i])>>]

Tick(s, o) ==
  /\ run[s].pc = "idle" /\ Ends(o) /\ o # "unanswered"
  /\ Goto(s, [Idle EXCEPT !.pc = "generate", !.asOf = now,
                          !.tasks = IF o = "ok" THEN Tasks ELSE {}])
  /\ UNCHANGED <<now, inst, told, stranded, doubted>>

\* Mutant: a chore that fails ends the whole cycle.
AbandonAll(s, t) == Goto(s, Idle)

\* A chore that fails is left out and the others go on.
Abandon(s, t) == Goto(s, [run[s] EXCEPT !.pc = "generate", !.tasks = @ \ {t}, !.plan = << >>])

Materialise(s, t, o) ==
  /\ run[s].pc = "generate" /\ Ends(o) /\ o # "unanswered"
  /\ LET plan == PlanFor(t, DayLen * Date(run[s].asOf + Ahead))
     IN  IF o = "refused" \/ t \in Corrupt \/ plan = << >> THEN Abandon(s, t)
         ELSE Goto(s, [run[s] EXCEPT !.pc = "insert", !.plan = plan])
  /\ UNCHANGED <<now, inst, told, stranded, doubted>>

\* Whether the chore's next occurrence may follow.
Inserted(o) == o = "ok"

Insert(s, o) ==
  LET row == Head(run[s].plan)[1]
  IN  /\ run[s].pc = "insert" /\ Ends(o)
      /\ inst' = IF Applied(o) /\ inst[row].status = "absent"
                 THEN [inst EXCEPT ![row] = [NoRow EXCEPT !.status = "pending",
                                                          !.assignee = Head(run[s].plan)[2]]]
                 ELSE inst
      /\ IF Inserted(o) /\ Len(run[s].plan) > 1
         THEN Goto(s, [run[s] EXCEPT !.plan = Tail(@)])
         ELSE Abandon(s, row[1])
      /\ UNCHANGED <<now, told, stranded, doubted>>

-----------------------------------------------------------------------------
(* The overdue sweep and its notices. *)

PastDue(asOf) == {r \in Rows : inst[r].status = "pending" /\ r[2] < Date(asOf)}

\* The rows are committed before the titles are read: when the answer or the
\* titles are missing nobody is told.
MarkOverdue(s, o) ==
  /\ run[s].pc = "generate" /\ run[s].tasks = {} /\ Ends(o)
  /\ inst' = IF Applied(o) THEN [r \in Rows |-> IF r \in PastDue(run[s].asOf)
                                                THEN [inst[r] EXCEPT !.status = "overdue"] ELSE inst[r]]
             ELSE inst
  /\ Goto(s, [run[s] EXCEPT !.pc = "overdue notices",
                            !.hand = IF o = "ok" THEN PastDue(run[s].asOf) ELSE {}])
  /\ UNCHANGED <<now, told, stranded, doubted>>

Tell(r, k, o) ==
  /\ told' = IF Applied(o) THEN [told EXCEPT ![r][k] = @ + 1] ELSE told
  /\ doubted' = IF o = "unanswered" THEN doubted \cup {r} ELSE doubted

EmitOverdue(s, r, o) ==
  /\ run[s].pc = "overdue notices" /\ Ends(o)
  /\ Tell(r, "overdue", o)
  /\ Goto(s, [run[s] EXCEPT !.hand = @ \ {r}])
  /\ UNCHANGED <<now, inst, stranded>>

-----------------------------------------------------------------------------
(* Due-soon reminders: stamp, enqueue, and unstamp what was not enqueued. *)

\* Mutant: forgets that the row was reminded before.
DueSoonAgain(asOf) == {r \in Rows : /\ inst[r].status = "pending"
                                    /\ Date(asOf) <= r[2] /\ r[2] <= Date(asOf) + Lead[r[1]]}

DueSoon(asOf) == {r \in Rows : /\ inst[r].status = "pending" /\ ~inst[r].reminded
                               /\ Date(asOf) <= r[2] /\ r[2] <= Date(asOf) + Lead[r[1]]}

\* One transaction, committed once every returned row has been read.
ClaimDueSoon(s, o) ==
  /\ run[s].pc = "overdue notices" /\ run[s].hand = {} /\ Ends(o)
  /\ LET due == DueSoon(run[s].asOf)
     IN  /\ inst' = IF Applied(o) THEN [r \in Rows |-> IF r \in due THEN [inst[r] EXCEPT !.reminded = TRUE]
                                                       ELSE inst[r]]
                    ELSE inst
         /\ stranded' = IF o = "unanswered" THEN stranded \cup due ELSE stranded
         /\ Goto(s, IF o = "ok" /\ due # {} THEN [run[s] EXCEPT !.pc = "reminders", !.hand = due] ELSE Idle)
  /\ UNCHANGED <<now, told, doubted>>

\* What is left of the cycle once r has been dealt with.
Without(s, r) == IF run[s].hand = {r} THEN Idle
                 ELSE [run[s] EXCEPT !.pc = "reminders", !.hand = @ \ {r}, !.failed = None]

\* Mutant: a reminder that was not enqueued is let go.
LetGo(s, r) == Without(s, r)

\* Where a failed enqueue leads.
Recover(s, r) == [run[s] EXCEPT !.pc = "clear", !.failed = r]

EmitDueSoon(s, r, o) ==
  /\ run[s].pc = "reminders" /\ Ends(o)
  /\ Tell(r, "due soon", o)
  /\ Goto(s, IF o = "ok" THEN Without(s, r) ELSE Recover(s, r))
  /\ UNCHANGED <<now, inst, stranded>>

ClearDueSoonReminder(s, o) ==
  LET r == run[s].failed
  IN  /\ run[s].pc = "clear" /\ Ends(o)
      /\ inst' = IF Applied(o) THEN [inst EXCEPT ![r].reminded = FALSE] ELSE inst
      /\ stranded' = IF Applied(o) THEN stranded ELSE stranded \cup {r}
      /\ Goto(s, Without(s, r))
      /\ UNCHANGED <<now, told, doubted>>

-----------------------------------------------------------------------------
(* Everything else that happens. *)

\* A member completes or skips the chore.
Close(r) == /\ inst[r].status \in {"pending", "overdue"}
            /\ inst' = [inst EXCEPT ![r].status = "done"]
            /\ UNCHANGED <<now, run, told, faults, stranded, doubted>>

\* The process stops; what it had stamped and not enqueued is nobody's now.
Crash(s) ==
  /\ run[s].pc # "idle" /\ Fault
  /\ stranded' = IF run[s].pc \in {"reminders", "clear"} THEN stranded \cup run[s].hand ELSE stranded
  /\ Goto(s, Idle)
  /\ UNCHANGED <<now, inst, told, doubted>>

Advance == /\ now < MaxTime /\ now' = now + 1
           /\ UNCHANGED <<inst, run, told, faults, stranded, doubted>>

RunOnce(s) == \E o \in Outcomes :
  \/ Tick(s, o)
  \/ \E t \in run[s].tasks : Materialise(s, t, o)
  \/ Insert(s, o)
  \/ MarkOverdue(s, o)
  \/ \E r \in run[s].hand : EmitOverdue(s, r, o)
  \/ ClaimDueSoon(s, o)
  \/ \E r \in run[s].hand : EmitDueSoon(s, r, o)
  \/ ClearDueSoonReminder(s, o)

Next == \/ \E s \in Schedulers : RunOnce(s) \/ Crash(s)
        \/ \E r \in Rows : Close(r)
        \/ Advance

Spec == Init /\ [][Next]_vars

\* Time passes, and of the servers' schedulers one at least goes on: its ticker
\* fires again after every cycle.
FairSpec == Spec /\ WF_vars(Advance) /\ WF_vars(\E s \in Schedulers : RunOnce(s))

-----------------------------------------------------------------------------
(* Properties. *)

\* Rotation: the n-th occurrence of a chore belongs to the n-th member of its
\* pool, however many cycles, processes and failures it took to generate the
\* occurrences, and none is left out before a later one.
RotationStable ==
  \A t \in Tasks \ Corrupt, n \in 0 .. MaxDay :
    RowOf(t, n) \in Materialised(t) =>
      /\ inst[RowOf(t, n)].assignee = AssigneeFor(t, n)
      /\ \A m \in 0 .. n : RowOf(t, m) \in Materialised(t)

InHand(r) == \E s \in Schedulers : run[s].pc \in {"reminders", "clear"} /\ r \in run[s].hand

\* A row stamped as reminded has its notice, or a process that will enqueue it
\* or clear the stamp; only a crash, a lost commit answer or a failed clear
\* leaves a stamp with neither.
StampedIsTold ==
  \A r \in Rows : inst[r].reminded /\ ~InHand(r) /\ r \notin stranded => told[r]["due soon"] > 0

\* Nobody is reminded of one chore twice, unless an enqueue that failed had
\* been carried out after all; an overdue notice is never repeated.
ToldOnce == \A r \in Rows : /\ told[r]["due soon"] > 1 => r \in doubted
                            /\ told[r]["overdue"] <= 1

\* Every occurrence that falls due is generated and goes overdue or is closed in
\* the end, even next to a chore that can never be generated and when a call or
\* a process fails, if one server keeps running.
PastDueIsSettled ==
  <>[](\A t \in Tasks \ Corrupt, n \in 0 .. MaxDay :
         LET r == RowOf(t, n)
         IN  r \in Rows /\ r[2] < Date(now) => inst[r].status \in {"overdue", "done"})
=============================================================================
