---------------------------- MODULE StandingChore ----------------------------
(***************************************************************************)
(* An as-needed chore: its one open standing instance, the claims members  *)
(* take on it, and a scheduler's warnings that a claim is about to expire. *)
(*                                                                         *)
(* A claim's window is named by its instance and the instant it expires.   *)
(* The points a lapsed claim costs are the ledger's business               *)
(* (PointLedger).                                                          *)
(***************************************************************************)
EXTENDS Calls, FiniteSets

CONSTANTS
  Members,
  Instances,    \* 1 .. n: bounds how often the chore is closed
  Schedulers,   \* the processes that run a scheduler
  ClaimWindow,  \* ticks a claim lasts
  WarnAhead,    \* ticks before its expiry in which the claimant is warned
  MaxTime,      \* bound on the clock
  None

VARIABLES
  now,
  standing,     \* standing[i]: the row of the chore's i-th instance
  sweep,        \* sweep[s]: what scheduler s knows in its cycle
  warnings,     \* warnings[w]: how many warnings were enqueued for window w
  lostWarnings, \* history: windows whose stamp no process will clear or honour
  unsure        \* history: windows with an enqueue carried out unanswered

vars == <<now, faults, standing, sweep, warnings, lostWarnings, unsure>>

Times   == 0 .. MaxTime + ClaimWindow
Windows == Instances \X Times

Unclaimed == [status |-> "pending", by |-> None, expires |-> None, warned |-> FALSE]
Unborn    == [Unclaimed EXCEPT !.status = "absent"]
Rows == [status : {"absent", "pending", "done", "skipped"}, by : Members \cup {None},
         expires : Times \cup {None}, warned : BOOLEAN]

\* hand: the windows whose notice is to be enqueued; failed: the one to clear.
Cycles == [pc : {"idle", "warn", "warnings", "clear", "sweep", "notices"}, asOf : 0 .. MaxTime,
           hand : SUBSET Windows, failed : Windows \cup {None}]
Idle == [pc |-> "idle", asOf |-> 0, hand |-> {}, failed |-> None]

\* CreateWithRotation inserts the task and its first standing instance.
Init == /\ now = 0 /\ faults = 0
        /\ standing = [i \in Instances |-> IF i = 1 THEN Unclaimed ELSE Unborn]
        /\ sweep = [s \in Schedulers |-> Idle]
        /\ warnings = [w \in Windows |-> 0]
        /\ lostWarnings = {} /\ unsure = {}

Open == {i \in Instances : standing[i].status = "pending"}

-----------------------------------------------------------------------------
(* Members. *)

\* Claiming one's own claim again changes nothing.
Claim(m, i) ==
  /\ i \in Open /\ standing[i].by = None
  /\ standing' = [standing EXCEPT ![i] = [Unclaimed EXCEPT !.by = m, !.expires = now + ClaimWindow]]
  /\ UNCHANGED <<now, faults, sweep, warnings, lostWarnings, unsure>>

\* Mutant: only a completion is followed by a new instance.
RespawnAfterDone(status, rows) ==
  IF status = "done" THEN {[rows EXCEPT ![i] = Unclaimed] : i \in {i \in Instances : rows[i] = Unborn}}
  ELSE {rows}

\* The table after a fresh standing instance has been inserted.
Respawn(status, rows) == {[rows EXCEPT ![i] = Unclaimed] : i \in {i \in Instances : rows[i] = Unborn}}

\* Complete, CompleteAndAward and Skip: the transition and the respawn commit
\* together or not at all.
Close(i, status) ==
  /\ i \in Open
  /\ standing' \in Respawn(status, [standing EXCEPT ![i] = [Unclaimed EXCEPT !.status = status]])
  /\ UNCHANGED <<now, faults, sweep, warnings, lostWarnings, unsure>>

-----------------------------------------------------------------------------
(* The scheduler: warnings, then the expiry sweep. *)

Goto(s, r) == sweep' = [sweep EXCEPT ![s] = r]

Tick(s) == /\ sweep[s].pc = "idle"
           /\ Goto(s, [Idle EXCEPT !.pc = "warn", !.asOf = now])
           /\ UNCHANGED <<now, faults, standing, warnings, lostWarnings, unsure>>

Window(i) == <<i, standing[i].expires>>

\* The claims entering their warning window.
ToWarn(asOf) == {i \in Open : /\ standing[i].expires # None /\ ~standing[i].warned
                              /\ asOf < standing[i].expires /\ standing[i].expires <= asOf + WarnAhead}

\* One statement, committed by the server before its answer is read.
ClaimWarnings(s, o) ==
  /\ sweep[s].pc = "warn" /\ Ends(o)
  /\ LET due == ToWarn(sweep[s].asOf)
         windows == {Window(i) : i \in due}
     IN  /\ standing' = IF Applied(o)
                        THEN [i \in Instances |-> IF i \in due THEN [standing[i] EXCEPT !.warned = TRUE]
                                                  ELSE standing[i]]
                        ELSE standing
         /\ lostWarnings' = IF o = "unanswered" THEN lostWarnings \cup windows ELSE lostWarnings
         /\ Goto(s, IF o = "ok" /\ due # {} THEN [sweep[s] EXCEPT !.pc = "warnings", !.hand = windows]
                    ELSE [sweep[s] EXCEPT !.pc = "sweep"])
  /\ UNCHANGED <<now, warnings, unsure>>

\* What is left of the cycle once window w has been dealt with.
Without(s, w, after) == [sweep[s] EXCEPT !.hand = @ \ {w}, !.failed = None,
                                         !.pc = IF sweep[s].hand = {w} THEN after ELSE "warnings"]

EmitClaimWarning(s, w, o) ==
  /\ sweep[s].pc = "warnings" /\ Ends(o)
  /\ warnings' = IF Applied(o) THEN [warnings EXCEPT ![w] = @ + 1] ELSE warnings
  /\ unsure' = IF o = "unanswered" THEN unsure \cup {w} ELSE unsure
  /\ Goto(s, IF o = "ok" THEN Without(s, w, "sweep") ELSE [sweep[s] EXCEPT !.pc = "clear", !.failed = w])
  /\ UNCHANGED <<now, standing, lostWarnings>>

\* Mutant: clears the instance's warning whatever window it is in.
ClearableById(w) == TRUE

\* Only the window the warning was for.
Clearable(w) == Window(w[1]) = w

ClearClaimWarning(s, o) ==
  LET w == sweep[s].failed
  IN  /\ sweep[s].pc = "clear" /\ Ends(o)
      /\ standing' = IF Applied(o) /\ Clearable(w) THEN [standing EXCEPT ![w[1]].warned = FALSE] ELSE standing
      /\ lostWarnings' = IF Applied(o) THEN lostWarnings ELSE lostWarnings \cup {w}
      /\ Goto(s, Without(s, w, "sweep"))
      /\ UNCHANGED <<now, warnings, unsure>>

\* Every expired claim is reverted, and its claimant noted for a notice.
SweepExpiredClaims(s, o) ==
  /\ sweep[s].pc = "sweep" /\ Ends(o)
  /\ LET expired == {i \in Open : standing[i].expires # None /\ standing[i].expires <= sweep[s].asOf}
     IN  /\ standing' = IF Applied(o) THEN [i \in Instances |-> IF i \in expired THEN Unclaimed ELSE standing[i]]
                        ELSE standing
         /\ Goto(s, IF o = "ok" /\ expired # {}
                    THEN [sweep[s] EXCEPT !.pc = "notices", !.hand = {Window(i) : i \in expired}] ELSE Idle)
  /\ UNCHANGED <<now, warnings, lostWarnings, unsure>>

\* The notice of an expiry is attempted once.
EmitClaimExpiry(s, w, o) ==
  /\ sweep[s].pc = "notices" /\ Ends(o)
  /\ Goto(s, IF sweep[s].hand = {w} THEN Idle ELSE [sweep[s] EXCEPT !.hand = @ \ {w}])
  /\ UNCHANGED <<now, standing, warnings, lostWarnings, unsure>>

Crash(s) ==
  /\ sweep[s].pc # "idle" /\ Fault
  /\ lostWarnings' = IF sweep[s].pc \in {"warnings", "clear"} THEN lostWarnings \cup sweep[s].hand
                     ELSE lostWarnings
  /\ Goto(s, Idle)
  /\ UNCHANGED <<now, standing, warnings, unsure>>

Advance == /\ now < MaxTime /\ now' = now + 1
           /\ UNCHANGED <<faults, standing, sweep, warnings, lostWarnings, unsure>>

RunOnce(s) ==
  \/ Tick(s)
  \/ \E o \in Outcomes :
       \/ ClaimWarnings(s, o) \/ ClearClaimWarning(s, o) \/ SweepExpiredClaims(s, o)
       \/ \E w \in sweep[s].hand : EmitClaimWarning(s, w, o) \/ EmitClaimExpiry(s, w, o)

Next == \/ \E i \in Instances : \/ \E m \in Members : Claim(m, i)
                                \/ \E status \in {"done", "skipped"} : Close(i, status)
        \/ \E s \in Schedulers : RunOnce(s) \/ Crash(s)
        \/ Advance

Spec == Init /\ [][Next]_vars

-----------------------------------------------------------------------------
(* Properties. *)

\* The types of the table and of a scheduler's cycle.
TypeOK == /\ now \in 0 .. MaxTime /\ faults \in 0 .. MaxFaults
          /\ standing \in [Instances -> Rows]
          /\ sweep \in [Schedulers -> Cycles]
          /\ warnings \in [Windows -> Nat]
          /\ lostWarnings \subseteq Windows /\ unsure \subseteq Windows

\* The chore always has exactly one open instance, through every completion,
\* skip, claim and sweep.
OneOpenStanding == Cardinality(Open) = 1

\* A claimant is warned exactly once of a claim's expiry.  Not twice, unless an
\* enqueue that failed had been carried out after all: also when the clearing of
\* a failed warning comes after the claim was swept and the chore claimed anew.
\* And not never: a claim stamped as warned has had its warning, or a scheduler
\* has it in hand; only a crash, a lost answer or a failed clear leaves neither.
WarnedOncePerWindow ==
  /\ \A w \in Windows : warnings[w] > 1 => w \in unsure
  /\ \A i \in Open : LET w == Window(i) IN
       standing[i].warned /\ w \notin lostWarnings
         /\ (\A s \in Schedulers : sweep[s].pc \in {"warnings", "clear"} => w \notin sweep[s].hand)
       => warnings[w] > 0
=============================================================================
