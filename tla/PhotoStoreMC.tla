---------------------------- MODULE PhotoStoreMC -----------------------------
(***************************************************************************)
(* An album photo and a proof.  One run explores four scenes, each with    *)
(* every interleaving of what happens in it.                               *)
(***************************************************************************)
EXTENDS PhotoStore

CONSTANTS a, p, u1, u2

VARIABLE scene

MCClass == [k \in Keys |-> IF k = a THEN "album" ELSE "proof"]

\* Uploads and deletes while the operator migrates, on one day.
Moving == UNCHANGED <<now, reap>> /\ up'[u2] = IdleUpload

\* Uploads and deletes while the reaper passes over a bucket.
Reaping == UNCHANGED mig /\ up'[u2] = IdleUpload

\* Both commands at once, with nothing uploaded.
Operating == UNCHANGED up

\* Two uploads at once.
Uploading == UNCHANGED <<now, mig, reap>>

MCInit == /\ Init
          /\ \/ scene = "moving"
             \/ scene \in {"reaping", "uploading"} /\ (\A i \in Rows : row[i] = None)
             \/ scene = "operating" /\ row[1] # None
MCNext == /\ UNCHANGED scene
          /\ Next
          /\ scene = "moving" => Moving
          /\ scene = "reaping" => Reaping
          /\ scene = "operating" => Operating
          /\ scene = "uploading" => Uploading
Scenes == MCInit /\ [][MCNext]_<<vars, scene>>
=============================================================================
