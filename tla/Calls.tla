-------------------------------- MODULE Calls --------------------------------
(***************************************************************************)
(* The calls a process makes to a server: a call ends "ok", is "refused"   *)
(* without effect, or takes effect and is "unanswered", and the caller     *)
(* sees the last two as the same error.  MaxFaults bounds the calls and    *)
(* processes that fail.                                                    *)
(***************************************************************************)
EXTENDS Naturals

CONSTANT MaxFaults
VARIABLE faults   \* history: calls and processes that have failed

Outcomes == {"ok", "refused", "unanswered"}

Fault      == faults < MaxFaults /\ faults' = faults + 1
Ends(o)    == IF o = "ok" THEN UNCHANGED faults ELSE Fault
Applied(o) == o # "refused"
=============================================================================
