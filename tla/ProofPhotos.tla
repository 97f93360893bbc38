---------------------------- MODULE ProofPhotos ------------------------------
(***************************************************************************)
(* The proof photos of one chore: the times they were taken at, kept in    *)
(* order by a transaction that locks the chore, and the two who read them  *)
(* at a distance: a member who closes the chore once it has the photos its *)
(* policy asks for, and retention, which removes them after a while.       *)
(***************************************************************************)
EXTENDS Integers

CONSTANTS
  Cameras,    \* uploads that can be in flight at once
  Policy,     \* "none", "after" or "before_after"
  Fresh,      \* ticks between a photo being taken and uploaded, either way
  Retention,  \* ticks a proof is kept for
  MaxTime,    \* bound on the clock
  None

VARIABLES
  now,
  proofs,  \* the rows of task_instance_photo: their kind, capture time and upload time
  shot,    \* shot[u]: the upload in flight at u
  closing, \* the request that completes the chore
  chore    \* the chore's status

vars == <<now, proofs, shot, closing, chore>>

Kinds == {"before", "after"}
Idle  == [pc |-> "idle", kind |-> None, taken |-> 0]

Init == /\ now = 0 /\ proofs = {} /\ shot = [u \in Cameras |-> Idle]
        /\ closing = "idle" /\ chore = "pending"

Times(kind) == {q.taken : q \in {r \in proofs : r.kind = kind}}
Goto(u, pc) == shot' = [shot EXCEPT ![u].pc = pc]
Quit(u)     == shot' = [shot EXCEPT ![u] = Idle]

\* AfterPrecedesBefore, against the extreme of the other kind that is stored.
OutOfOrder(kind, taken) ==
  IF kind = "after" THEN \E b \in Times("before") : taken < b ELSE \E a \in Times("after") : a < taken

\* Upload: the photo's own time decides; an after photo is looked at once
\* before it is stored, without the lock.
Upload(u, kind, taken) ==
  /\ shot[u].pc = "idle" /\ taken - now \in (- Fresh) .. Fresh
  /\ kind = "after" => ~OutOfOrder(kind, taken)
  /\ shot' = [shot EXCEPT ![u] = [pc |-> "put", kind |-> kind, taken |-> taken]]
  /\ UNCHANGED <<now, proofs, closing, chore>>

\* Mutant: only an after photo takes the lock.
LocksAfters(kind) == kind = "after"

\* Every insert for the chore takes the lock.
Locks(kind) == kind \in Kinds

\* pg_advisory_xact_lock, held until the transaction ends.
Lock(u) ==
  /\ shot[u].pc = "put"
  /\ Locks(shot[u].kind) => \A v \in Cameras : ~(shot[v].pc \in {"check", "commit"} /\ Locks(shot[v].kind))
  /\ Goto(u, "check")
  /\ UNCHANGED <<now, proofs, closing, chore>>

Check(u) ==
  /\ shot[u].pc = "check"
  /\ IF OutOfOrder(shot[u].kind, shot[u].taken) THEN Quit(u) ELSE Goto(u, "commit")
  /\ UNCHANGED <<now, proofs, closing, chore>>

Commit(u) ==
  /\ shot[u].pc = "commit" /\ Quit(u)
  /\ proofs' = proofs \cup {[kind |-> shot[u].kind, taken |-> shot[u].taken, at |-> now]}
  /\ UNCHANGED <<now, closing, chore>>

Fail(u) == shot[u].pc # "idle" /\ Quit(u) /\ UNCHANGED <<now, proofs, closing, chore>>

\* requirePhotos, on a read of its own.
HasProof == /\ Policy = "before_after" => Times("before") # {}
            /\ Policy # "none" => Times("after") # {}

CheckPolicy ==
  /\ closing = "idle" /\ chore = "pending" /\ HasProof /\ closing' = "award"
  /\ UNCHANGED <<now, proofs, shot, chore>>

\* CompleteAndAward, which asks about the chore alone.
CompleteAndAward ==
  /\ closing = "award" /\ closing' = "idle" /\ chore' = "done"
  /\ UNCHANGED <<now, proofs, shot>>

GiveUp == closing = "award" /\ closing' = "idle" /\ UNCHANGED <<now, proofs, shot, chore>>

\* DeleteUploadedBefore, of a pass of the reaper.
Retain ==
  /\ proofs' = {q \in proofs : q.at + Retention >= now}
  /\ UNCHANGED <<now, shot, closing, chore>>

Advance == now < MaxTime /\ now' = now + 1 /\ UNCHANGED <<proofs, shot, closing, chore>>

Next == \/ \E u \in Cameras : \/ Lock(u) \/ Check(u) \/ Commit(u) \/ Fail(u)
                              \/ \E k \in Kinds, t \in 0 .. MaxTime + Fresh : Upload(u, k, t)
        \/ CheckPolicy \/ CompleteAndAward \/ GiveUp \/ Retain \/ Advance

Spec == Init /\ [][Next]_vars

-----------------------------------------------------------------------------
(* Properties. *)

TypeOK == /\ proofs \subseteq [kind : Kinds, taken : 0 .. MaxTime + Fresh, at : 0 .. MaxTime]
          /\ \A u \in Cameras : shot[u].pc \in {"idle", "put", "check", "commit"}
          /\ closing \in {"idle", "award"} /\ chore \in {"pending", "done"}

\* No after photo of the chore was taken before one of its before photos,
\* whichever of them was uploaded first and however their inserts interleave.
ProofsInOrder == \A a \in Times("after"), b \in Times("before") : b <= a

\* A chore that asks for photos is completed while it has them: "nothing
\* currently deletes a task_instance_photo row (see media's
\* TaskInstancePhotoRepository, which exposes no delete method), so a racing
\* photo removal between this check and CompleteAndAward is not a real
\* exposure today" (tasks/app/service.go).
CompletedWithProof == [][chore # "done" /\ chore' = "done" => HasProof]_vars
=============================================================================
