-------------------------- MODULE ChoreTradeScenes --------------------------
(***************************************************************************)
(* One run explores two scenes, each with every interleaving of what       *)
(* happens in it.                                                          *)
(***************************************************************************)
EXTENDS ChoreTradeMC

VARIABLE scene

\* One member's requests and the scheduler, over two days.
Overnight == tx'[q2] = tx[q2]

\* Two members' requests on one day.
OneDay == UNCHANGED now /\ \A s \in Schedulers : tx'[s] = tx[s]

MCInit == Init /\ scene \in {"overnight", "one day"}
MCNext == /\ Next /\ UNCHANGED scene
          /\ scene = "overnight" => Overnight
          /\ scene = "one day" => OneDay
Scenes == MCInit /\ [][MCNext]_<<vars, scene>>
=============================================================================
