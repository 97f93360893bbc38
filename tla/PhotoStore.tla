----------------------------- MODULE PhotoStore ------------------------------
(***************************************************************************)
(* Photographs: the rows of the two tables (album photos and chore         *)
(* proofs), the files on the server's disk and the objects in the bucket   *)
(* that hold their bytes, and everyone who changes them: uploads, deletes  *)
(* of album photos, the operator's `storage migrate' and `storage reap'.   *)
(*                                                                         *)
(* A key names a content and its class, so equal contents share one file   *)
(* and one object.  One household.                                         *)
(***************************************************************************)
EXTENDS Naturals, FiniteSets

CONSTANTS
  Keys,       \* storage keys
  Class,      \* Class[k]: "album" or "proof"
  Rows,       \* 1 .. n: the rows there can be
  Seeded,     \* 1 .. m: the rows there may be at the start, all local
  Uploaders,  \* uploads that can be in flight at once
  Grace,      \* ticks an object must have been left alone to be an orphan
  Retention,  \* ticks a proof is kept for
  MaxTime,    \* bound on the clock
  None, Gone

ASSUME PhotoStoreAssumption ==
  /\ Class \in [Keys -> {"album", "proof"}]
  /\ Rows \subseteq Nat \ {0} /\ Seeded \subseteq Rows
  /\ Grace \in Nat \ {0} /\ Retention \in Nat \ {0} /\ MaxTime \in Nat
ASSUME FiniteAssumption == IsFiniteSet(Rows)
ASSUME NullAssumption == None # Gone   \* an id is not used again

VARIABLES
  now,
  row,     \* row[i]: the row with id i, None, or Gone once deleted
  file,    \* file[k]: the bytes at k under MEDIA_ROOT
  object,  \* object[k]: the bytes at k in the bucket and when they were put
  backend, \* where the server writes
  up,      \* up[u]: the upload in flight at u
  mig,     \* the migration in progress
  reap,    \* the reaper's pass in progress
  raced    \* history: keys deleted under a write the pass could not have seen

vars == <<now, row, file, object, backend, up, mig, reap, raced>>

Bytes    == {"absent", "intact", "corrupt"}
NoObject == [bytes |-> "absent", at |-> 0]
Row(k, b) == [key |-> k, backend |-> b, at |-> now]

Live(i)   == row[i] \notin {None, Gone}
On(b)     == {i \in Rows : Live(i) /\ row[i].backend = b}
Refs(b)   == {row[i].key : i \in On(b)}

IdleUpload == [pc |-> "idle", key |-> None, backend |-> None, at |-> 0]
IdleMig    == [pc |-> "idle", delete |-> FALSE, done |-> {}, row |-> None, key |-> None]
IdleReap   == [pc |-> "idle", at |-> 0, class |-> "album", refs |-> {}, todo |-> {}, key |-> None, fresh |-> {}, adopted |-> FALSE]

\* Local rows of any class, equal proofs among them; files of which some have
\* rotted; a bucket that may hold what an earlier attempt left.
Init ==
  /\ now = 0 /\ backend = "local" /\ raced = {}
  /\ row \in {r \in [Rows -> {None} \cup {Row(k, "local") : k \in Keys}] :
                /\ \A i \in Rows : r[i] # None => i \in Seeded /\ \A j \in Rows : j < i => r[j] # None
                /\ \A i, j \in Rows : i # j /\ r[i] # None /\ r[i] = r[j] => Class[r[i].key] = "proof"}
  /\ file \in {f \in [Keys -> Bytes] : \A k \in Keys : f[k] = "absent" <=> k \notin Refs("local")}
  /\ object \in [Keys -> {[bytes |-> b, at |-> 0] : b \in Bytes}]
  /\ up = [u \in Uploaders |-> IdleUpload] /\ mig = IdleMig /\ reap = IdleReap

-----------------------------------------------------------------------------
(* Uploads and deletes. *)

Upload(u, r) == up' = [up EXCEPT ![u] = r]

\* The reaper's pass has listed the bucket and has not finished.
Sweeping == reap.pc \in {"sweep", "delete"}

Written(k) ==
  /\ object' = [object EXCEPT ![k] = [bytes |-> "intact", at |-> now]]
  /\ reap' = IF Sweeping THEN [reap EXCEPT !.fresh = @ \cup {k}] ELSE reap

\* A row refers to k from now on; the pass has looked for it before.
Adopted(k) == reap' = IF reap.pc = "delete" /\ reap.key = k THEN [reap EXCEPT !.adopted = TRUE] ELSE reap

\* Put: the bytes go to the server's backend, over what is there already.
Put(u, k) ==
  /\ up[u].pc = "idle"
  /\ Upload(u, [pc |-> IF Class[k] = "album" THEN "find" ELSE "create", key |-> k, backend |-> backend, at |-> now])
  /\ IF backend = "local" THEN file' = [file EXCEPT ![k] = "intact"] /\ UNCHANGED <<object, reap>>
                          ELSE Written(k) /\ UNCHANGED file
  /\ UNCHANGED <<now, row, backend, mig, raced>>

\* FindByContentHash: an album has each content once, wherever its bytes are.
InAlbum(k) == \E i \in Rows : Live(i) /\ row[i].key = k /\ Class[k] = "album"

Find(u) ==
  /\ up[u].pc = "find"
  /\ Upload(u, IF InAlbum(up[u].key) THEN IdleUpload ELSE [up[u] EXCEPT !.pc = "date"])
  /\ UNCHANGED <<now, row, file, object, backend, mig, reap, raced>>

\* takenAt: the stored bytes are opened again for their capture date.
TakenAt(u) ==
  LET stored == IF up[u].backend = "local" THEN file[up[u].key] ELSE object[up[u].key].bytes
  IN  /\ up[u].pc = "date"
      /\ Upload(u, IF stored = "absent" THEN IdleUpload ELSE [up[u] EXCEPT !.pc = "create"])
      /\ UNCHANGED <<now, row, file, object, backend, mig, reap, raced>>

\* Create: the row is inserted, or the index says a concurrent upload won.
Create(u) ==
  /\ up[u].pc = "create" /\ Upload(u, IdleUpload)
  /\ IF InAlbum(up[u].key) THEN UNCHANGED <<row, reap>>
     ELSE \E i \in Rows : /\ row[i] = None /\ \A j \in Rows : j < i => row[j] # None
                          /\ row' = [row EXCEPT ![i] = Row(up[u].key, up[u].backend)]
                          /\ Adopted(up[u].key)
  /\ UNCHANGED <<now, file, object, backend, mig, raced>>

\* An upload that fails leaves what it has stored.
Fail(u) ==
  /\ up[u].pc # "idle" /\ Upload(u, IdleUpload)
  /\ UNCHANGED <<now, row, file, object, backend, mig, reap, raced>>

\* PhotoService.Delete: the row alone.
Delete(i) ==
  /\ Live(i) /\ Class[row[i].key] = "album"
  /\ row' = [row EXCEPT ![i] = Gone]
  /\ UNCHANGED <<now, file, object, backend, up, mig, reap, raced>>

\* The server is restarted with MEDIA_STORAGE_BACKEND=s3.
FlipServer ==
  /\ backend = "local" /\ backend' = "s3"
  /\ up' = [u \in Uploaders |-> IdleUpload]
  /\ UNCHANGED <<now, row, file, object, mig, reap, raced>>

-----------------------------------------------------------------------------
(* storage migrate: one row after another, in pages of one row. *)

Mig(r)  == mig' = r
NextRow == [mig EXCEPT !.pc = "list", !.row = None, !.key = None]

\* The runbook has local files deleted once the server writes to the bucket.
StartMigrate(delete) ==
  /\ mig.pc = "idle" /\ (delete => backend = "s3")
  /\ Mig([IdleMig EXCEPT !.pc = "list", !.delete = delete])
  /\ UNCHANGED <<now, row, file, object, backend, up, reap, raced>>

ListLocal ==
  LET todo == On("local") \ mig.done
  IN  /\ mig.pc = "list"
      /\ IF todo = {} THEN Mig(IF mig.delete THEN [mig EXCEPT !.pc = "leftovers", !.done = {}] ELSE IdleMig)
         ELSE \E i \in todo : Mig([mig EXCEPT !.pc = "read", !.done = @ \cup {i}, !.row = i, !.key = row[i].key])
      /\ UNCHANGED <<now, row, file, object, backend, up, reap, raced>>

\* The local bytes must hash to the row's content_sha256.
ReadLocal ==
  /\ mig.pc = "read"
  /\ Mig(IF file[mig.key] = "intact" THEN [mig EXCEPT !.pc = "exists"] ELSE NextRow)
  /\ UNCHANGED <<now, row, file, object, backend, up, reap, raced>>

ObjectExists ==
  /\ mig.pc = "exists"
  /\ Mig([mig EXCEPT !.pc = IF object[mig.key].bytes = "absent" THEN "put" ELSE "verify"])
  /\ UNCHANGED <<now, row, file, object, backend, up, reap, raced>>

PutAt ==
  /\ mig.pc = "put" /\ Written(mig.key) /\ Mig([mig EXCEPT !.pc = "verify"])
  /\ UNCHANGED <<now, row, file, backend, up, raced>>

\* Mutant: an object that exists is taken to be good.
TrustTarget(k) == TRUE

\* verifyTargetObject: what the bucket holds is downloaded and hashed.
TargetIntact(k) == object[k].bytes = "intact"

VerifyTarget ==
  /\ mig.pc = "verify"
  /\ Mig(IF TargetIntact(mig.key) THEN [mig EXCEPT !.pc = "flip"] ELSE NextRow)
  /\ UNCHANGED <<now, row, file, object, backend, up, reap, raced>>

\* MigrateStorageBackend, on a row that is still local.
Flip ==
  /\ mig.pc = "flip"
  /\ IF mig.row \in On("local")
     THEN /\ row' = [row EXCEPT ![mig.row].backend = "s3"] /\ Adopted(mig.key)
          /\ Mig(IF mig.delete THEN [mig EXCEPT !.pc = "refs"] ELSE NextRow)
     ELSE UNCHANGED <<row, reap>> /\ Mig(NextRow)
  /\ UNCHANGED <<now, file, object, backend, up, raced>>

\* Mutant: the file is deleted with the row that was migrated.
NobodyElse(k) == TRUE

\* deleteLocalIfUnreferenced: no local row shares the file.
Unreferenced(k) == k \notin Refs("local")

Back == IF mig.row = None THEN [mig EXCEPT !.pc = "leftovers", !.key = None] ELSE NextRow

CheckLocalRefs ==
  /\ mig.pc = "refs"
  /\ Mig(IF Unreferenced(mig.key) THEN [mig EXCEPT !.pc = "unlink"] ELSE Back)
  /\ UNCHANGED <<now, row, file, object, backend, up, reap, raced>>

Unlink ==
  /\ mig.pc = "unlink" /\ Mig(Back)
  /\ file' = [file EXCEPT ![mig.key] = "absent"]
  /\ UNCHANGED <<now, row, object, backend, up, reap, raced>>

\* sweepLeftoverLocal...Files: files of rows an earlier run has migrated.
SweepLeftovers ==
  LET todo == On("s3") \ mig.done
  IN  /\ mig.pc = "leftovers"
      /\ IF todo = {} THEN Mig(IdleMig)
         ELSE \E i \in todo :
                Mig([mig EXCEPT !.pc = IF file[row[i].key] = "intact" THEN "verify leftover" ELSE "leftovers",
                                !.done = @ \cup {i}, !.key = IF file[row[i].key] = "intact" THEN row[i].key ELSE None])
      /\ UNCHANGED <<now, row, file, object, backend, up, reap, raced>>

VerifyLeftover ==
  /\ mig.pc = "verify leftover"
  /\ Mig(IF TargetIntact(mig.key) THEN [mig EXCEPT !.pc = "refs"] ELSE Back)
  /\ UNCHANGED <<now, row, file, object, backend, up, reap, raced>>

\* An error of a listing, an interrupt or a crash.
StopMigrate ==
  /\ mig.pc # "idle" /\ Mig(IdleMig)
  /\ UNCHANGED <<now, row, file, object, backend, up, reap, raced>>

-----------------------------------------------------------------------------
(* storage reap. *)

\* DeleteUploadedBefore: what retention removes, of this backend only.
Doomed(t) == {i \in On("s3") : Class[row[i].key] = "proof" /\ row[i].at + Retention < t}

\* Mutant: any object nobody refers to is a candidate, however young.
AnyOrphan(t, refs) == {k \in Keys : object[k].bytes # "absent" /\ k \notin refs}

\* orphanCandidates.
Orphans(t, refs) == {k \in Keys : object[k].bytes # "absent" /\ k \notin refs /\ object[k].at + Grace <= t}

StartReap ==
  /\ reap.pc = "idle"
  /\ reap' = [IdleReap EXCEPT !.pc = "retain", !.at = now]
  /\ UNCHANGED <<now, row, file, object, backend, up, mig, raced>>

Retain ==
  /\ reap.pc = "retain"
  /\ row' = [i \in Rows |-> IF i \in Doomed(reap.at) THEN Gone ELSE row[i]]
  /\ reap' = [reap EXCEPT !.pc = "album refs"]
  /\ UNCHANGED <<now, file, object, backend, up, mig, raced>>

\* referencedRefs: one query for each table.
ReferencedRefs(class, pc, next) ==
  /\ reap.pc = pc
  /\ reap' = [reap EXCEPT !.pc = next, !.refs = @ \cup {k \in Refs("s3") : Class[k] = class}]
  /\ UNCHANGED <<now, row, file, object, backend, up, mig, raced>>

ListObjects ==
  /\ reap.pc = "list"
  /\ reap' = [reap EXCEPT !.pc = "sweep", !.fresh = {},
                          !.todo = {k \in Orphans(reap.at, reap.refs) : Class[k] = reap.class}]
  /\ UNCHANGED <<now, row, file, object, backend, up, mig, raced>>

\* Mutant: the snapshot is trusted.
StillListed(k) == FALSE

\* existsByStorageRef, once more before the object goes.
StillReferenced(k) == k \in Refs("s3")

Recheck(k) ==
  /\ reap.pc = "sweep" /\ k \in reap.todo
  /\ reap' = IF StillReferenced(k) THEN [reap EXCEPT !.todo = @ \ {k}] ELSE [reap EXCEPT !.pc = "delete", !.key = k]
  /\ UNCHANGED <<now, row, file, object, backend, up, mig, raced>>

\* Nothing this pass has read could tell it that the key is wanted: its row
\* came after the second look, or is still to come and its bytes were put after
\* the listing, or found in place by the migrator.
Raced(k) == \/ reap.adopted
            \/ k \in reap.fresh /\ \E u \in Uploaders : up[u].key = k
            \/ mig.key = k /\ mig.pc \in {"verify", "flip"}

DeleteObject ==
  /\ reap.pc = "delete"
  /\ object' = [object EXCEPT ![reap.key] = NoObject]
  /\ raced' = IF Raced(reap.key) THEN raced \cup {reap.key} ELSE raced
  /\ reap' = [reap EXCEPT !.pc = "sweep", !.todo = @ \ {reap.key}, !.key = None, !.adopted = FALSE]
  /\ UNCHANGED <<now, row, file, backend, up, mig>>

NextClass ==
  /\ reap.pc = "sweep" /\ reap.todo = {}
  /\ reap' = IF reap.class = "album" THEN [reap EXCEPT !.pc = "list", !.class = "proof"] ELSE IdleReap
  /\ UNCHANGED <<now, row, file, object, backend, up, mig, raced>>

\* Any error ends the pass.
StopReap ==
  /\ reap.pc # "idle" /\ reap' = IdleReap
  /\ UNCHANGED <<now, row, file, object, backend, up, mig, raced>>

-----------------------------------------------------------------------------

\* A request does not last for the days of the grace window.
Advance ==
  /\ now < MaxTime /\ now' = now + 1
  /\ \A u \in Uploaders : up[u].pc # "idle" => now' < up[u].at + Grace
  /\ UNCHANGED <<row, file, object, backend, up, mig, reap, raced>>

UploadStep(u) == Find(u) \/ TakenAt(u) \/ Create(u) \/ Fail(u) \/ \E k \in Keys : Put(u, k)

Migrate == \/ \E d \in BOOLEAN : StartMigrate(d)
           \/ ListLocal \/ ReadLocal \/ ObjectExists \/ PutAt \/ VerifyTarget \/ Flip
           \/ CheckLocalRefs \/ Unlink \/ SweepLeftovers \/ VerifyLeftover \/ StopMigrate

Reap == \/ StartReap \/ Retain \/ ListObjects \/ DeleteObject \/ NextClass \/ StopReap
        \/ ReferencedRefs("album", "album refs", "proof refs")
        \/ ReferencedRefs("proof", "proof refs", "list")
        \/ \E k \in Keys : Recheck(k)

Next == \/ \E u \in Uploaders : UploadStep(u)
        \/ \E i \in Rows : Delete(i)
        \/ Migrate \/ Reap \/ FlipServer \/ Advance

Spec == Init /\ [][Next]_vars

-----------------------------------------------------------------------------
(* Properties. *)

\* Every row's bytes are where the row says: a file that was there at the start
\* is still there while a local row refers to it, and what a row in the bucket
\* refers to is there and intact -- but for what a pass of the reaper deleted
\* while a row it could not have seen was on its way.
RowsKeepTheirBytes ==
  \A i \in Rows : Live(i) =>
    IF row[i].backend = "local" THEN file[row[i].key] # "absent"
    ELSE object[row[i].key].bytes = "intact" \/ row[i].key \in raced

\* Mutant: a key with any row that retention removes is previewed as an orphan.
PreviewByKey(t) == Refs("s3") \ {row[i].key : i \in Doomed(t)}

\* dryRunReferencedRefs: the keys with more rows than retention will remove.
PreviewRefs(t) ==
  {k \in Keys : LET rows == {i \in On("s3") : row[i].key = k}
                IN  Cardinality(rows) > Cardinality(rows \cap Doomed(t))}

\* A dry run at this moment previews exactly the objects a run would delete if
\* nothing else happened: the two agree on what retention leaves unreferenced,
\* equal proofs of different ages included.
PreviewIsFaithful ==
  LET kept == {row[i].key : i \in On("s3") \ Doomed(now)}
  IN  Orphans(now, PreviewRefs(now)) = Orphans(now, kept)
=============================================================================
