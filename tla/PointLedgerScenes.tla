------------------------- MODULE PointLedgerScenes --------------------------
(***************************************************************************)
(* One run explores three scenes of a household, each with every           *)
(* interleaving of what happens in it; the funds run mixes them.           *)
(***************************************************************************)
EXTENDS PointLedgerMC

VARIABLE scene

Closing  == {"close: check lapse", "close: update", "close: commit"}
Sweeping == {"sweep: revert", "sweep: commit"}

\* Chores in S have not been claimed, and nobody is closing one of them.
Untouched(S) == /\ \A i \in S : chore[i] = NoChore
                /\ \A w \in charged \cup pardoned : w[1] \notin S
                /\ \A s \in Sessions : tx[s].chore \notin S

\* Redemptions and the catalogue; no chore is touched.
Shop == UNCHANGED now /\ Untouched(Chores)' /\ \A s \in Sessions : tx'[s].pc \notin Sweeping

\* Monday's chores, for one tick; nothing is for sale.
TwoChores == UNCHANGED reward /\ now' <= 1 /\ Untouched(Tuesday)'

\* Replicas of the scheduler: Monday's chores are claimed on day 0 and
\* Tuesday's on day 1, once each, and lapse a day later.
SweepsOnly ==
  /\ UNCHANGED reward
  /\ \A s \in Sessions : tx'[s].pc \notin Closing
  /\ \A i \in Chores : chore[i] = NoChore /\ chore'[i] # NoChore =>
       Untouched({i}) /\ i \in IF now = 0 THEN Monday ELSE Tuesday

MCInit == Init /\ scene \in {"shop", "chores", "sweeps"}
MCNext == /\ Next /\ UNCHANGED scene
          /\ scene = "shop" => Shop
          /\ scene = "chores" => TwoChores
          /\ scene = "sweeps" => SweepsOnly
Scenes == MCInit /\ [][MCNext]_<<vars, scene>>
=============================================================================
