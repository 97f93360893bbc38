--------------------------- MODULE PhotoStoreProofs ----------------------------
(***************************************************************************)
(* Proofs that no row loses its bytes, for any photographs, rows, uploads  *)
(* and times, and that a dry run of the reaper tells the truth.            *)
(*                                                                         *)
(* Bytes are deleted in two places, and what makes each deletion safe is   *)
(* known before it: the migrator has seen that no local row shares a file, *)
(* and no local row can come any more, since the server writes elsewhere;  *)
(* the reaper has seen an object that was old and unreferenced, so whoever *)
(* needs it now has come since, and is one of those it could not see.      *)
(***************************************************************************)
EXTENDS PhotoStore, FiniteSetTheorems, TLAPS

-----------------------------------------------------------------------------
(* Times. *)

Before(m, n) == m <= n
InTime(t, n) == t < n + Grace

LEMMA Times ==
  /\ \A a \in Nat : Before(a, a) /\ Before(0, a) /\ InTime(a, a)
  /\ \A a, b \in Nat : a + Grace <= b => ~InTime(b, a)
  /\ \A a, b, c \in Nat : Before(a, b) /\ Before(b, c) => Before(a, c)
  /\ \A a, b, c \in Nat : InTime(a, b) /\ Before(b, c) => InTime(a, c)
  /\ \A a, b, c \in Nat : InTime(a, b) /\ Before(c, a) => InTime(c, b)
BY PhotoStoreAssumption DEF Before, InTime

-----------------------------------------------------------------------------
(* The inductive invariant. *)

RowRecord  == [key : Keys, backend : {"local", "s3"}, at : Nat]
UpRecord   == [pc : {"idle", "find", "date", "create"}, key : Keys \cup {None},
               backend : {"local", "s3", None}, at : Nat]
MigPCs     == {"idle", "list", "read", "exists", "put", "verify", "flip", "refs", "unlink",
               "leftovers", "verify leftover"}
MigRecord  == [pc : MigPCs, delete : BOOLEAN, done : SUBSET Rows,
               row : Rows \cup {None}, key : Keys \cup {None}]
ReapPCs    == {"idle", "retain", "album refs", "proof refs", "list", "sweep", "delete"}
ReapRecord == [pc : ReapPCs, at : Nat, class : {"album", "proof"}, refs : SUBSET Keys,
               todo : SUBSET Keys, key : Keys \cup {None}, fresh : SUBSET Keys, adopted : BOOLEAN]

Types ==
  /\ now \in Nat /\ backend \in {"local", "s3"} /\ raced \subseteq Keys
  /\ row \in [Rows -> RowRecord \cup {None, Gone}]
  /\ file \in [Keys -> Bytes]
  /\ object \in [Keys -> [bytes : Bytes, at : Nat]]
  /\ up \in [Uploaders -> UpRecord] /\ mig \in MigRecord /\ reap \in ReapRecord

\* What a row in the bucket has, or an upload whose row is still to come.
Backed(k)   == object[k].bytes = "intact" \/ k \in raced
Stored(k, t) == k \in raced \/ (object[k].bytes = "intact" /\ Before(t, object[k].at))

\* An upload in flight has its bytes in place; a pass that lists its key has
\* seen it written after the listing.
FlightOK(r) ==
  r.pc # "idle" =>
    /\ r.key \in Keys /\ r.backend \in {"local", "s3"}
    /\ Before(r.at, now) /\ InTime(now, r.at)
    /\ r.backend = "local" => backend = "local" /\ file[r.key] # "absent"
    /\ r.backend = "s3" => Stored(r.key, r.at)
    /\ r.backend = "s3" /\ Sweeping /\ r.key \in reap.todo => r.key \in reap.fresh \cup raced

\* The migrator deletes only when told to, which is once the server writes to
\* the bucket, and only files no local row shares.
MigOK ==
  /\ mig.delete => backend = "s3"
  /\ mig.pc \in {"refs", "unlink", "leftovers", "verify leftover"} => mig.delete
  /\ mig.pc \notin {"idle", "list", "leftovers"} => mig.key \in Keys
  /\ mig.pc \in {"read", "exists", "put", "verify", "flip"} =>
       /\ mig.row \in Rows /\ row[mig.row] # None
       /\ Live(mig.row) => row[mig.row].key = mig.key
  /\ mig.pc = "flip" => Backed(mig.key)
  /\ mig.pc = "unlink" => Unreferenced(mig.key)

\* The reaper deletes a candidate of its listing that had no row, or has had
\* one only since.
ReapOK ==
  /\ Before(reap.at, now)
  /\ reap.pc = "delete" => /\ reap.key \in reap.todo
                           /\ reap.key \in Refs("s3") => reap.adopted

IInv == /\ Types /\ RowsKeepTheirBytes
        /\ \A u \in Uploaders : FlightOK(up[u])
        /\ MigOK /\ ReapOK

-----------------------------------------------------------------------------
(* What a step leaves alone. *)

LEMMA RowsRest ==
  ASSUME RowsKeepTheirBytes,
         \A i \in Rows : Live(i)' => Live(i) /\ row'[i] = row[i],
         \A k \in Keys : file[k] # "absent" /\ k \in Refs("local") => file'[k] # "absent",
         \A k \in Keys : Backed(k) /\ k \in Refs("s3") => Backed(k)',
         Types
  PROVE  RowsKeepTheirBytes'
<1> SUFFICES ASSUME NEW i \in Rows, Live(i)'
             PROVE  IF row'[i].backend = "local" THEN file'[row'[i].key] # "absent"
                    ELSE object'[row'[i].key].bytes = "intact" \/ row'[i].key \in raced'
  BY DEF RowsKeepTheirBytes
<1>1. Live(i) /\ row'[i] = row[i]
  OBVIOUS
<1>2. row[i].key \in Keys /\ row[i].backend \in {"local", "s3"}
  BY <1>1 DEF Types, RowRecord, Live
<1>3. row[i].backend = "local" => row[i].key \in Refs("local") /\ file[row[i].key] # "absent"
  BY <1>1 DEF RowsKeepTheirBytes, Refs, On
<1>4. row[i].backend # "local" => row[i].key \in Refs("s3") /\ Backed(row[i].key)
  BY <1>1, <1>2 DEF RowsKeepTheirBytes, Refs, On, Backed
<1> QED
  BY <1>1, <1>2, <1>3, <1>4 DEF Backed

LEMMA FlightRests ==
  ASSUME Types, NEW r \in UpRecord, FlightOK(r), now' \in Nat,
         r.pc # "idle" => Before(now, now') /\ InTime(now', r.at),
         r.pc # "idle" /\ r.backend = "local" => backend' = "local" /\ file'[r.key] # "absent",
         r.pc # "idle" /\ r.backend = "s3" => Stored(r.key, r.at)',
         Sweeping' => Sweeping /\ reap'.todo \subseteq reap.todo
                      /\ reap.fresh \subseteq reap'.fresh /\ raced \subseteq raced'
  PROVE  FlightOK(r)'
<1>1. r.pc # "idle" => Before(r.at, now')
  BY Times DEF FlightOK, Types, UpRecord
<1> QED
  BY <1>1 DEF FlightOK
-----------------------------------------------------------------------------
(* Steps that only move an upload or a command. *)

LEMMA StorageRests ==
  ASSUME IInv, UNCHANGED <<now, row, file, object, backend, raced>>
  PROVE  /\ RowsKeepTheirBytes'
         /\ \A k : Live(k)' <=> Live(k)
         /\ Refs("s3")' = Refs("s3") /\ Refs("local")' = Refs("local")
         /\ \A k, t : (Backed(k)' <=> Backed(k)) /\ (Stored(k, t)' <=> Stored(k, t))
BY DEF IInv, RowsKeepTheirBytes, Live, Refs, On, Backed, Stored

LEMMA MigMoves ==
  ASSUME IInv, UNCHANGED <<now, row, file, object, backend, up, reap, raced>>,
         mig' \in MigRecord, MigOK'
  PROVE  IInv'
<1>1. \A u \in Uploaders : FlightOK(up[u])'
  BY StorageRests DEF IInv, FlightOK, Sweeping
<1>2. ReapOK'
  BY StorageRests DEF IInv, ReapOK
<1>3. Types'
  BY DEF IInv, Types
<1> QED
  BY <1>1, <1>2, <1>3, StorageRests DEF IInv

LEMMA UploadMoves ==
  ASSUME IInv, UNCHANGED <<now, row, file, object, backend, mig, reap, raced>>,
         NEW u \in Uploaders, NEW r \in UpRecord, up' = [up EXCEPT ![u] = r],
         r.pc # "idle" => up[u].pc # "idle" /\ r.key = up[u].key
                          /\ r.backend = up[u].backend /\ r.at = up[u].at
  PROVE  IInv'
<1>1. up' \in [Uploaders -> UpRecord] /\ up'[u] = r /\ \A v \in Uploaders : v # u => up'[v] = up[v]
  BY DEF IInv, Types
<1>2. \A v \in Uploaders : FlightOK(up[v])
  BY DEF IInv
<1>3. \A v \in Uploaders : FlightOK(up[v])'
  <2>1. ASSUME NEW v \in Uploaders, v # u PROVE FlightOK(up[v])'
    BY <1>1, <1>2, <2>1, StorageRests DEF FlightOK, Sweeping
  <2>2. FlightOK(up[u])'
    BY <1>1, <1>2, StorageRests DEF FlightOK, Sweeping
  <2> QED
    BY <2>1, <2>2
<1>4. ReapOK' /\ MigOK'
  BY StorageRests DEF IInv, ReapOK, MigOK, Unreferenced
<1>5. Types'
  BY <1>1 DEF IInv, Types
<1> QED
  BY <1>3, <1>4, <1>5, StorageRests DEF IInv

LEMMA ReapMoves ==
  ASSUME IInv, UNCHANGED <<now, row, file, object, backend, up, mig, raced>>,
         reap' \in ReapRecord, ReapOK',
         Sweeping' => \A u \in Uploaders :
           up[u].pc # "idle" /\ up[u].backend = "s3" /\ up[u].key \in reap'.todo => up[u].key \in reap'.fresh \cup raced
  PROVE  IInv'
<1>1. \A u \in Uploaders : FlightOK(up[u])'
  BY StorageRests DEF IInv, FlightOK
<1>2. MigOK'
  BY StorageRests DEF IInv, MigOK, Unreferenced
<1>3. Types'
  BY DEF IInv, Types
<1> QED
  BY <1>1, <1>2, <1>3, StorageRests DEF IInv

LEMMA IdleRecords ==
  /\ IdleUpload \in UpRecord /\ IdleUpload.pc = "idle"
  /\ IdleMig \in MigRecord /\ IdleMig.pc = "idle" /\ IdleMig.delete = FALSE
  /\ IdleReap \in ReapRecord /\ IdleReap.pc = "idle" /\ IdleReap.at = 0
BY DEF IdleUpload, UpRecord, IdleMig, MigRecord, MigPCs, IdleReap, ReapRecord, ReapPCs

LEMMA UploadsHold ==
  ASSUME IInv, NEW u \in Uploaders, Find(u) \/ TakenAt(u) \/ Fail(u)
  PROVE  IInv'
<1> DEFINE next(pc) == [up[u] EXCEPT !.pc = pc]
<1>1. up[u] \in UpRecord
  BY DEF IInv, Types
<1>2. \A pc \in {"date", "create"} :
        /\ next(pc) \in UpRecord /\ next(pc).key = up[u].key
        /\ next(pc).backend = up[u].backend /\ next(pc).at = up[u].at
  BY ONLY <1>1 DEF UpRecord
<1>3. /\ UNCHANGED <<now, row, file, object, backend, mig, reap, raced>>
      /\ \/ up' = [up EXCEPT ![u] = IdleUpload]
         \/ up[u].pc # "idle" /\ \E pc \in {"date", "create"} : up' = [up EXCEPT ![u] = next(pc)]
  BY DEF Find, TakenAt, Fail, Upload
<1> HIDE DEF next
<1> QED
  BY <1>2, <1>3, IdleRecords, UploadMoves
-----------------------------------------------------------------------------
(* The migrator's steps that change nothing but where it is. *)

AtPc(pc) == [mig EXCEPT !.pc = pc]

LEMMA MigRecords ==
  ASSUME mig \in MigRecord
  PROVE  /\ \A pc \in MigPCs : /\ AtPc(pc) \in MigRecord /\ AtPc(pc).pc = pc
                               /\ AtPc(pc).delete = mig.delete /\ AtPc(pc).row = mig.row
                               /\ AtPc(pc).key = mig.key
         /\ NextRow \in MigRecord /\ NextRow.pc = "list" /\ NextRow.delete = mig.delete
         /\ Back \in MigRecord /\ Back.pc \in {"list", "leftovers"} /\ Back.delete = mig.delete
<1>1. \A pc \in MigPCs : /\ AtPc(pc) \in MigRecord /\ AtPc(pc).pc = pc
                         /\ AtPc(pc).delete = mig.delete /\ AtPc(pc).row = mig.row
                         /\ AtPc(pc).key = mig.key
  BY ONLY mig \in MigRecord DEF AtPc, MigRecord
<1>2. NextRow \in MigRecord /\ NextRow.pc = "list" /\ NextRow.delete = mig.delete
  BY ONLY mig \in MigRecord DEF NextRow, MigRecord, MigPCs
<1> DEFINE m == [mig EXCEPT !.pc = "leftovers", !.key = None]
<1>3. m \in MigRecord /\ m.pc = "leftovers" /\ m.delete = mig.delete
  BY ONLY mig \in MigRecord DEF MigRecord, MigPCs
<1> QED
  BY <1>1, <1>2, <1>3 DEF Back

\* Where the migrator has no key in hand it must only be allowed to be there.
LEMMA MigRestarts ==
  ASSUME IInv, UNCHANGED <<now, row, file, object, backend, up, reap, raced>>,
         mig' \in MigRecord, mig'.pc \in {"idle", "list", "leftovers"},
         mig'.delete => backend = "s3",
         mig'.pc = "leftovers" => mig'.delete
  PROVE  IInv'
BY MigMoves DEF MigOK

LEMMA MigStepsHold ==
  ASSUME IInv,
         \/ \E d \in BOOLEAN : StartMigrate(d)
         \/ ListLocal \/ ReadLocal \/ ObjectExists \/ VerifyTarget \/ CheckLocalRefs
         \/ SweepLeftovers \/ VerifyLeftover \/ StopMigrate
  PROVE  IInv'
<1>1. mig \in MigRecord /\ MigOK /\ row \in [Rows -> RowRecord \cup {None, Gone}]
  BY DEF IInv, Types
<1>2. UNCHANGED <<now, row, file, object, backend, up, reap, raced>>
  BY ZenonT(60) DEF StartMigrate, ListLocal, ReadLocal, ObjectExists, VerifyTarget, CheckLocalRefs, SweepLeftovers,
         VerifyLeftover, StopMigrate
<1>3. MigPCs = {"idle", "list", "read", "exists", "put", "verify", "flip", "refs", "unlink",
                "leftovers", "verify leftover"}
  BY DEF MigPCs
<1>4. ASSUME NEW d \in BOOLEAN, StartMigrate(d) PROVE IInv'
  <2> DEFINE m == [IdleMig EXCEPT !.pc = "list", !.delete = d]
  <2>1. m \in MigRecord /\ m.pc = "list" /\ m.delete = d
    BY DEF IdleMig, MigRecord, MigPCs
  <2>2. mig' = m /\ (d => backend = "s3")
    BY <1>4 DEF StartMigrate, Mig
  <2> HIDE DEF m
  <2> QED
    BY <1>2, <2>1, <2>2, MigRestarts
<1>5. ASSUME ListLocal PROVE IInv'
  <2> DEFINE m(i) == [mig EXCEPT !.pc = "read", !.done = @ \cup {i}, !.row = i, !.key = row[i].key]
             l == [mig EXCEPT !.pc = "leftovers", !.done = {}]
  <2>1. ASSUME NEW i \in On("local"), mig' = m(i) PROVE IInv'
    <3>1. i \in Rows /\ Live(i) /\ row[i] # None /\ row[i].key \in Keys
      BY <1>1 DEF On, Live, RowRecord
    <3>2. m(i) \in MigRecord /\ m(i).pc = "read" /\ m(i).delete = mig.delete /\ m(i).row = i
          /\ m(i).key = row[i].key
      BY <1>1, <3>1 DEF MigRecord, MigPCs
    <3> HIDE DEF m
    <3>3. MigOK'
      BY <1>1, <1>2, <2>1, <3>1, <3>2 DEF MigOK, Live
    <3> QED
      BY <1>2, <2>1, <3>2, <3>3, MigMoves
  <2>2. l \in MigRecord /\ l.pc = "leftovers" /\ l.delete = mig.delete
    BY ONLY <1>1 DEF MigRecord, MigPCs
  <2>3. \/ mig' = IdleMig
        \/ mig.delete /\ mig' = l
        \/ \E i \in On("local") : mig' = m(i)
    BY <1>5 DEF ListLocal, Mig
  <2> HIDE DEF m, l
  <2>4. CASE mig' = IdleMig
    BY <2>4, <1>2, IdleRecords, MigRestarts
  <2>5. CASE mig.delete /\ mig' = l
    BY <2>5, <2>2, <1>1, <1>2, MigRestarts DEF MigOK
  <2> QED
    BY <2>1, <2>3, <2>4, <2>5
<1>6. ASSUME ReadLocal PROVE IInv'
  <2>1. CASE mig' = AtPc("exists") /\ mig.pc = "read"
    <3>1. MigOK'
      BY <1>1, <1>2, <1>3, <2>1, MigRecords, ZenonT(60) DEF MigOK, Live
    <3> QED
      BY <1>1, <1>2, <1>3, <2>1, <3>1, MigMoves, MigRecords
  <2>2. CASE mig' = NextRow
    BY <2>2, <1>1, <1>2, MigRecords, MigRestarts DEF MigOK
  <2> QED
    BY <1>6, <2>1, <2>2 DEF ReadLocal, Mig, AtPc
<1>7. ASSUME ObjectExists PROVE IInv'
  <2>1. PICK pc \in {"put", "verify"} : mig.pc = "exists" /\ mig' = AtPc(pc)
    BY <1>7 DEF ObjectExists, Mig, AtPc
  <2>2. mig' \in MigRecord /\ mig'.pc = pc /\ mig'.delete = mig.delete /\ mig'.row = mig.row /\ mig'.key = mig.key
    BY <1>1, <1>3, <2>1, MigRecords, ZenonT(60)
  <2>3. MigOK'
    BY <1>1, <1>2, <2>1, <2>2 DEF MigOK, Live
  <2> QED
    BY <1>2, <2>2, <2>3, MigMoves
<1>8. ASSUME VerifyTarget PROVE IInv'
  <2>1. CASE mig' = AtPc("flip") /\ mig.pc = "verify" /\ TargetIntact(mig.key)
    <3>1. Backed(mig.key)'
      BY <2>1, <1>1, <1>2, <1>3, MigRecords DEF Backed, TargetIntact
    <3>2. MigOK'
      BY <1>1, <1>2, <1>3, <2>1, <3>1, MigRecords DEF MigOK, Live
    <3> QED
      BY <1>1, <1>2, <1>3, <2>1, <3>2, MigMoves, MigRecords
  <2>2. CASE mig' = NextRow
    BY <2>2, <1>1, <1>2, MigRecords, MigRestarts DEF MigOK
  <2> QED
    BY <1>8, <2>1, <2>2 DEF VerifyTarget, Mig, AtPc
<1>9. ASSUME mig.pc \in {"refs", "verify leftover"}, mig' = Back PROVE IInv'
  BY <1>9, <1>1, <1>2, MigRecords, MigRestarts DEF MigOK
<1>10. ASSUME CheckLocalRefs PROVE IInv'
  <2>1. CASE mig' = AtPc("unlink") /\ mig.pc = "refs" /\ Unreferenced(mig.key)
    <3>1. mig'.key = mig.key
      BY <1>1, <1>3, <2>1, MigRecords
    <3>2. Unreferenced(mig.key)'
      BY <2>1, <3>1, StorageRests, <1>2 DEF Unreferenced
    <3>3. MigOK'
      BY <1>1, <1>2, <1>3, <2>1, <3>2, MigRecords DEF MigOK
    <3> QED
      BY <1>1, <1>2, <1>3, <2>1, <3>3, MigMoves, MigRecords
  <2> QED
    BY <1>9, <1>10, <2>1 DEF CheckLocalRefs, Mig, AtPc
<1>11. ASSUME SweepLeftovers PROVE IInv'
  <2> DEFINE pc(i) == IF file[row[i].key] = "intact" THEN "verify leftover" ELSE "leftovers"
             k(i) == IF file[row[i].key] = "intact" THEN row[i].key ELSE None
             m(i) == [mig EXCEPT !.pc = pc(i), !.done = @ \cup {i}, !.key = k(i)]
  <2>1. ASSUME NEW i \in On("s3"), mig' = m(i), mig.pc = "leftovers" PROVE IInv'
    <3>1. i \in Rows /\ row[i].key \in Keys
      BY <1>1 DEF On, Live, RowRecord
    <3>2. pc(i) \in {"leftovers", "verify leftover"} /\ k(i) \in Keys \cup {None}
          /\ (pc(i) = "verify leftover" => k(i) \in Keys)
      BY <3>1
    <3> HIDE DEF pc, k
    <3>3. m(i) \in MigRecord /\ m(i).pc = pc(i) /\ m(i).delete = mig.delete /\ m(i).key = k(i)
      BY <1>1, <3>1, <3>2 DEF MigRecord, MigPCs
    <3> HIDE DEF m
    <3>4. MigOK'
      BY <1>1, <1>2, <2>1, <3>2, <3>3 DEF MigOK
    <3> QED
      BY <1>2, <2>1, <3>3, <3>4, MigMoves
  <2>2. mig' = IdleMig \/ \E i \in On("s3") : mig' = m(i) /\ mig.pc = "leftovers"
    BY <1>11, ZenonT(60) DEF SweepLeftovers, Mig
  <2> HIDE DEF m
  <2> QED
    BY <2>1, <2>2, <1>2, IdleRecords, MigRestarts
<1>12. ASSUME VerifyLeftover PROVE IInv'
  <2>1. CASE mig' = AtPc("refs") /\ mig.pc = "verify leftover"
    <3>1. MigOK'
      BY <1>1, <1>2, <1>3, <2>1, MigRecords DEF MigOK
    <3> QED
      BY <1>1, <1>2, <1>3, <2>1, <3>1, MigMoves, MigRecords
  <2> QED
    BY <1>9, <1>12, <2>1 DEF VerifyLeftover, Mig, AtPc
<1>13. ASSUME StopMigrate PROVE IInv'
  BY <1>13, <1>2, IdleRecords, MigRestarts DEF StopMigrate, Mig
<1> QED
  BY <1>4, <1>5, <1>6, <1>7, <1>8, <1>10, <1>11, <1>12, <1>13
-----------------------------------------------------------------------------
(* The reaper's steps that change nothing but where it is. *)

\* Away from a listing the reaper has no candidates.
LEMMA ReapRestarts ==
  ASSUME IInv, UNCHANGED <<now, row, file, object, backend, up, mig, raced>>,
         reap' \in ReapRecord, reap'.pc \notin {"sweep", "delete"}, Before(reap'.at, now)
  PROVE  IInv'
<1>1. ReapOK' /\ ~Sweeping'
  BY DEF ReapOK, Sweeping
<1> QED
  BY <1>1, ReapMoves

LEMMA ReapStepsHold ==
  ASSUME IInv,
         \/ StartReap \/ ListObjects \/ NextClass \/ StopReap
         \/ ReferencedRefs("album", "album refs", "proof refs")
         \/ ReferencedRefs("proof", "proof refs", "list")
         \/ \E k \in Keys : Recheck(k)
  PROVE  IInv'
<1>1. reap \in ReapRecord /\ now \in Nat /\ Before(reap.at, now) /\ reap.at \in Nat
  BY DEF IInv, Types, ReapRecord, ReapOK
<1>2. UNCHANGED <<now, row, file, object, backend, up, mig, raced>>
  BY DEF StartReap, ListObjects, NextClass, StopReap, ReferencedRefs, Recheck
<1>3. Before(now, now) /\ Before(0, now)
  BY <1>1, Times
<1>4. ASSUME StartReap PROVE IInv'
  <2> DEFINE q == [IdleReap EXCEPT !.pc = "retain", !.at = now]
  <2>1. q \in ReapRecord /\ q.pc = "retain" /\ q.at = now
    BY ONLY <1>1, IdleRecords DEF ReapRecord, ReapPCs
  <2>2. reap' = q
    BY <1>4 DEF StartReap
  <2> HIDE DEF q
  <2> QED
    BY <1>2, <1>3, <2>1, <2>2, ReapRestarts
<1>5. ASSUME NEW class, NEW pc, NEW next \in {"proof refs", "list"}, ReferencedRefs(class, pc, next) PROVE IInv'
  <2> DEFINE refs == {k \in Refs("s3") : Class[k] = class}
             q == [reap EXCEPT !.pc = next, !.refs = @ \cup refs]
  <2>1. refs \subseteq Keys
    BY DEF Refs, On, Live, IInv, Types, RowRecord
  <2> HIDE DEF refs
  <2>2. q \in ReapRecord /\ q.pc = next /\ q.at = reap.at
    BY ONLY <1>1, <2>1, next \in {"proof refs", "list"} DEF ReapRecord, ReapPCs
  <2>3. reap' = q
    BY <1>5 DEF ReferencedRefs, refs
  <2> HIDE DEF q
  <2> QED
    BY <1>1, <1>2, <2>2, <2>3, ReapRestarts
<1>6. ASSUME ListObjects PROVE IInv'
  <2> DEFINE todo == {k \in Orphans(reap.at, reap.refs) : Class[k] = reap.class}
             q == [reap EXCEPT !.pc = "sweep", !.fresh = {}, !.todo = todo]
  <2>1. todo \subseteq Keys
    BY DEF Orphans
  <2>2. \A k \in todo : ~InTime(reap.at, object[k].at) /\ object[k].bytes # "absent"
    <3>1. \A k \in todo : object[k].at + Grace <= reap.at /\ object[k].bytes # "absent" /\ k \in Keys
      BY DEF Orphans
    <3>2. \A k \in Keys : object[k].at \in Nat
      BY DEF IInv, Types
    <3> HIDE DEF todo
    <3>3. \A m \in Nat : m + Grace <= reap.at => ~InTime(reap.at, m)
      BY ONLY <1>1, Times
    <3> QED
      BY <3>1, <3>2, <3>3
  <2> HIDE DEF todo
  <2>3. q \in ReapRecord /\ q.pc = "sweep" /\ q.at = reap.at /\ q.todo = todo
    BY ONLY <1>1, <2>1 DEF ReapRecord, ReapPCs
  <2>4. reap' = q
    BY <1>6 DEF ListObjects, todo
  <2> HIDE DEF q
  <2>5. ReapOK'
    BY <1>1, <1>2, <2>3, <2>4 DEF ReapOK
  <2>6. ASSUME NEW u \in Uploaders, up[u].pc # "idle", up[u].backend = "s3", up[u].key \in todo
        PROVE  up[u].key \in raced
    <3>1. /\ Stored(up[u].key, up[u].at) /\ InTime(now, up[u].at)
      BY <2>6 DEF IInv, FlightOK
    <3>2. up[u].at \in Nat /\ object[up[u].key].at \in Nat
      BY <2>1, <2>6 DEF IInv, Types, UpRecord
    <3>3. Before(up[u].at, object[up[u].key].at) => InTime(reap.at, object[up[u].key].at)
      <4>1. Before(up[u].at, object[up[u].key].at) => InTime(now, object[up[u].key].at)
        BY ONLY <1>1, <3>1, <3>2, Times
      <4> QED
        BY ONLY <1>1, <3>2, <4>1, Times
    <3> QED
      BY <2>2, <2>6, <3>1, <3>3 DEF Stored
  <2> QED
    BY <1>2, <2>3, <2>4, <2>5, <2>6, ReapMoves
<1>7. ASSUME NEW k \in Keys, Recheck(k) PROVE IInv'
  <2> DEFINE less == [reap EXCEPT !.todo = @ \ {k}]
             mark == [reap EXCEPT !.pc = "delete", !.key = k]
  <2>1. reap.pc = "sweep" /\ k \in reap.todo
    BY <1>7 DEF Recheck
  <2>2. less \in ReapRecord /\ less.pc = "sweep" /\ less.at = reap.at /\ less.fresh = reap.fresh
        /\ less.todo = reap.todo \ {k}
    BY ONLY <1>1, <2>1 DEF ReapRecord
  <2>3. mark \in ReapRecord /\ mark.pc = "delete" /\ mark.at = reap.at /\ mark.fresh = reap.fresh
        /\ mark.todo = reap.todo /\ mark.key = k
    BY ONLY <1>1, <2>1, k \in Keys DEF ReapRecord, ReapPCs
  <2>4. reap' = less \/ (reap' = mark /\ k \notin Refs("s3"))
    BY <1>7 DEF Recheck, StillReferenced
  <2> HIDE DEF less, mark
  <2>5. ReapOK'
    <3>1. CASE reap' = less
      BY <3>1, <1>1, <1>2, <2>2 DEF ReapOK
    <3>2. CASE reap' = mark /\ k \notin Refs("s3")
      BY <3>2, <1>1, <1>2, <2>1, <2>3, StorageRests DEF ReapOK
    <3> QED
      BY <2>4, <3>1, <3>2
  <2>6. \A u \in Uploaders : up[u].pc # "idle" /\ up[u].backend = "s3" /\ up[u].key \in reap'.todo
          => up[u].key \in reap'.fresh \cup raced
    BY <2>1, <2>2, <2>3, <2>4 DEF IInv, FlightOK, Sweeping
  <2> QED
    BY <1>2, <2>2, <2>3, <2>4, <2>5, <2>6, ReapMoves
<1>8. ASSUME NextClass \/ StopReap PROVE IInv'
  <2> DEFINE q == [reap EXCEPT !.pc = "list", !.class = "proof"]
  <2>1. q \in ReapRecord /\ q.pc = "list" /\ q.at = reap.at
    BY ONLY <1>1 DEF ReapRecord, ReapPCs
  <2>2. reap' = q \/ reap' = IdleReap
    BY <1>8 DEF NextClass, StopReap
  <2> HIDE DEF q
  <2> QED
    BY <1>1, <1>2, <1>3, <2>1, <2>2, IdleRecords, ReapRestarts
<1> QED
  BY <1>4, <1>5, <1>6, <1>7, <1>8
-----------------------------------------------------------------------------
(* What a change to the tables or the stores leaves alone. *)

LEMMA MigRests ==
  ASSUME MigOK, mig' = mig, backend = "s3" => backend' = "s3",
         mig.pc = "flip" /\ Backed(mig.key) => Backed(mig.key)',
         mig.pc = "unlink" /\ Unreferenced(mig.key) => Unreferenced(mig.key)',
         \A i \in Rows : row[i] # None =>
           row'[i] # None /\ (Live(i)' => Live(i) /\ row'[i].key = row[i].key)
  PROVE  MigOK'
BY DEF MigOK

LEMMA ReapRests ==
  ASSUME ReapOK, Before(reap.at, now) => Before(reap.at, now'),
         reap'.at = reap.at, reap'.pc = reap.pc, reap'.key = reap.key, reap'.todo = reap.todo,
         reap.adopted => reap'.adopted,
         reap.pc = "delete" /\ reap.key \in Refs("s3")' => reap.key \in Refs("s3") \/ reap'.adopted
  PROVE  ReapOK'
BY DEF ReapOK

\* Rows that go take no other with them.
LEMMA RefsShrink ==
  ASSUME \A i \in Rows : Live(i)' => Live(i) /\ row'[i] = row[i]
  PROVE  \A b : Refs(b)' \subseteq Refs(b)
BY DEF Refs, On

LEMMA RefTypes ==
  ASSUME Types
  PROVE  \A b : Refs(b) \subseteq Keys
BY DEF Types, Refs, On, Live, RowRecord

LEMMA TimeRests ==
  ASSUME IInv
  PROVE  /\ now \in Nat /\ Before(now, now) /\ InTime(now, now)
         /\ \A u \in Uploaders : up[u] \in UpRecord /\ up[u].at \in Nat /\ FlightOK(up[u])
         /\ \A u \in Uploaders : up[u].pc # "idle" => Before(up[u].at, now) /\ InTime(now, up[u].at)
<1>1. now \in Nat /\ \A u \in Uploaders : up[u] \in UpRecord /\ FlightOK(up[u])
  BY DEF IInv, Types
<1>2. Before(now, now) /\ InTime(now, now)
  BY ONLY <1>1, Times
<1> QED
  BY <1>1, <1>2 DEF UpRecord, FlightOK

\* An object that is put is intact and new, and the pass has not seen it.
LEMMA WrittenDoes ==
  ASSUME IInv, NEW k \in Keys, Written(k), UNCHANGED <<now, raced>>
  PROVE  /\ object' \in [Keys -> [bytes : Bytes, at : Nat]] /\ reap' \in ReapRecord
         /\ Backed(k)' /\ Stored(k, now)' /\ \A j \in Keys : Backed(j) => Backed(j)'
         /\ \A j \in Keys, t \in Nat : Stored(j, t) /\ Before(t, now) => Stored(j, t)'
         /\ reap'.pc = reap.pc /\ reap'.at = reap.at /\ reap'.todo = reap.todo
         /\ reap'.key = reap.key /\ reap'.adopted = reap.adopted
         /\ reap.fresh \subseteq reap'.fresh /\ (Sweeping => k \in reap'.fresh)
<1> DEFINE o == [bytes |-> "intact", at |-> now]
           q == [reap EXCEPT !.fresh = @ \cup {k}]
<1>1. reap \in ReapRecord /\ now \in Nat /\ object \in [Keys -> [bytes : Bytes, at : Nat]]
  BY DEF IInv, Types
<1>2. o \in [bytes : Bytes, at : Nat] /\ o.bytes = "intact" /\ o.at = now
  BY <1>1 DEF Bytes
<1>3. /\ q \in ReapRecord /\ q.pc = reap.pc /\ q.at = reap.at /\ q.todo = reap.todo /\ q.key = reap.key
      /\ q.adopted = reap.adopted /\ q.fresh = reap.fresh \cup {k}
  BY ONLY <1>1, k \in Keys DEF ReapRecord
<1>4. object' = [object EXCEPT ![k] = o] /\ reap' = IF Sweeping THEN q ELSE reap
  BY DEF Written
<1> HIDE DEF o, q
<1>5. /\ object' \in [Keys -> [bytes : Bytes, at : Nat]] /\ object'[k] = o
      /\ \A j \in Keys : j # k => object'[j] = object[j]
  BY ONLY <1>1, <1>2, <1>4, k \in Keys
<1>6. Before(now, now)
  BY TimeRests
<1>7. Backed(k)' /\ Stored(k, now)'
  BY <1>2, <1>5, <1>6 DEF Backed, Stored
<1>8. \A j \in Keys : Backed(j) => Backed(j)'
  BY <1>5, <1>7 DEF Backed
<1>9. \A j \in Keys, t \in Nat : Stored(j, t) /\ Before(t, now) => Stored(j, t)'
  BY <1>2, <1>5 DEF Stored
<1> QED
  BY <1>1, <1>3, <1>4, <1>5, <1>7, <1>8, <1>9

LEMMA AdoptedDoes ==
  ASSUME IInv, NEW k, Adopted(k)
  PROVE  /\ reap' \in ReapRecord
         /\ reap'.pc = reap.pc /\ reap'.at = reap.at /\ reap'.todo = reap.todo
         /\ reap'.key = reap.key /\ reap'.fresh = reap.fresh
         /\ reap.adopted => reap'.adopted
         /\ reap.pc = "delete" /\ reap.key = k => reap'.adopted
<1> DEFINE q == [reap EXCEPT !.adopted = TRUE]
<1>1. reap \in ReapRecord
  BY DEF IInv, Types
<1>2. /\ q \in ReapRecord /\ q.pc = reap.pc /\ q.at = reap.at /\ q.todo = reap.todo
      /\ q.key = reap.key /\ q.fresh = reap.fresh /\ q.adopted = TRUE
  BY ONLY <1>1 DEF ReapRecord
<1>3. reap' = IF reap.pc = "delete" /\ reap.key = k THEN q ELSE reap
  BY DEF Adopted
<1> HIDE DEF q
<1> QED
  BY <1>1, <1>2, <1>3
-----------------------------------------------------------------------------
(* Uploads and deletes. *)

LEMMA PutHolds ==
  ASSUME IInv, NEW u \in Uploaders, NEW k \in Keys, Put(u, k)
  PROVE  IInv'
<1> DEFINE r == [pc |-> IF Class[k] = "album" THEN "find" ELSE "create", key |-> k, backend |-> backend, at |-> now]
<1>1. /\ UNCHANGED <<now, row, backend, mig, raced>> /\ up' = [up EXCEPT ![u] = r]
      /\ IF backend = "local" THEN file' = [file EXCEPT ![k] = "intact"] /\ UNCHANGED <<object, reap>>
                              ELSE Written(k) /\ UNCHANGED file
  BY DEF Put, Upload
<1>2. Types /\ MigOK /\ ReapOK /\ RowsKeepTheirBytes
  BY DEF IInv
<1>3. r \in UpRecord /\ r.key = k /\ r.backend = backend /\ r.at = now
  BY <1>2 DEF Types, UpRecord
<1> HIDE DEF r
<1>4. up' \in [Uploaders -> UpRecord] /\ up'[u] = r /\ \A v \in Uploaders : v # u => up'[v] = up[v]
  BY <1>1, <1>2, <1>3 DEF Types
<1>5. /\ file' \in [Keys -> Bytes] /\ \A j \in Keys : file[j] # "absent" => file'[j] # "absent"
      /\ backend = "local" => file'[k] # "absent"
  BY <1>1, <1>2 DEF Types, Bytes
<1>6. /\ object' \in [Keys -> [bytes : Bytes, at : Nat]] /\ reap' \in ReapRecord
      /\ \A j \in Keys : Backed(j) => Backed(j)'
      /\ \A j \in Keys, t \in Nat : Stored(j, t) /\ Before(t, now) => Stored(j, t)'
      /\ reap'.pc = reap.pc /\ reap'.at = reap.at /\ reap'.todo = reap.todo
      /\ reap'.key = reap.key /\ reap'.adopted = reap.adopted /\ reap.fresh \subseteq reap'.fresh
      /\ backend = "s3" => Stored(k, now)' /\ (Sweeping => k \in reap'.fresh)
  <2>1. CASE backend = "local"
    BY <2>1, <1>1, <1>2 DEF Types, Backed, Stored
  <2>2. CASE backend # "local"
    BY <2>2, <1>1, WrittenDoes
  <2> QED
    BY <2>1, <2>2
<1>7. Types'
  BY <1>1, <1>2, <1>4, <1>5, <1>6 DEF Types
<1>8. RowsKeepTheirBytes'
  BY <1>1, <1>2, <1>5, <1>6, RowsRest, RefTypes DEF Live
<1>9. ASSUME NEW v \in Uploaders PROVE FlightOK(up[v])'
  <2>1. CASE v # u
    <3>1. /\ up[v] \in UpRecord /\ FlightOK(up[v]) /\ up[v].at \in Nat /\ up'[v] = up[v]
          /\ up[v].pc # "idle" => Before(up[v].at, now) /\ InTime(now, up[v].at)
          /\ now \in Nat /\ Before(now, now)
      BY <2>1, <1>4, TimeRests
    <3> DEFINE f == up[v]
    <3>2. f.pc # "idle" /\ f.backend = "local" => backend' = "local" /\ file'[f.key] # "absent"
      BY <3>1, <1>1, <1>5 DEF FlightOK
    <3>3. f.pc # "idle" /\ f.backend = "s3" => Stored(f.key, f.at)'
      <4>1. f.pc # "idle" /\ f.backend = "s3" => f.key \in Keys /\ Stored(f.key, f.at)
        BY <3>1 DEF FlightOK
      <4>2. f.pc # "idle" /\ f.backend = "s3" => Stored(f.key, f.at) /\ Before(f.at, now)
        BY <3>1, <4>1
      <4>3. f' = f
        BY <3>1
      <4> QED
        BY <3>1, <4>1, <4>2, <4>3, <1>6 DEF Stored
    <3>4. FlightOK(f)'
      BY <3>1, <3>2, <3>3, <1>1, <1>6 DEF FlightOK, Sweeping
    <3> QED
      BY <3>4
  <2>2. CASE v = u
    <3>1. up'[v] = r /\ Before(now, now) /\ InTime(now, now)
      BY <2>2, <1>4, TimeRests
    <3>2. backend \in {"local", "s3"}
      BY <1>2 DEF Types
    <3>3. backend = "s3" => Stored(r.key, r.at)'
      BY <1>1, <1>3, <1>6 DEF Stored, r
    <3> QED
      BY <3>1, <3>2, <3>3, <1>1, <1>3, <1>5, <1>6 DEF FlightOK, Sweeping
  <2> QED
    BY <2>1, <2>2
<1>10. Refs("s3")' = Refs("s3") /\ Refs("local")' = Refs("local") /\ \A i \in Rows : Live(i)' <=> Live(i)
  BY <1>1 DEF Refs, On, Live
<1>11. MigOK'
  <2>1. mig.pc = "flip" /\ Backed(mig.key) => Backed(mig.key)'
    BY <1>1, <1>2, <1>6 DEF MigOK, Backed
  <2>2. mig.pc = "unlink" /\ Unreferenced(mig.key) => Unreferenced(mig.key)'
    BY <1>1, <1>10 DEF Unreferenced
  <2> QED
    BY <1>1, <1>2, <1>10, <2>1, <2>2, MigRests
<1>12. ReapOK'
  BY <1>1, <1>2, <1>6, <1>10, ReapRests
<1> QED
  BY <1>7, <1>8, <1>9, <1>11, <1>12 DEF IInv
\* A row that comes has its bytes, and a pass that looked for it before knows.
LEMMA CreateHolds ==
  ASSUME IInv, NEW u \in Uploaders, Create(u)
  PROVE  IInv'
<1> DEFINE f == up[u]
           k == f.key
<1>1. Types /\ MigOK /\ ReapOK /\ RowsKeepTheirBytes /\ FlightOK(f) /\ f \in UpRecord
  BY DEF IInv, Types
<1>2. /\ UNCHANGED <<now, file, object, backend, mig, raced>> /\ up' = [up EXCEPT ![u] = IdleUpload]
      /\ f.pc = "create"
  BY DEF Create, Upload
<1>3. CASE UNCHANGED <<row, reap>>
  BY <1>2, <1>3, IdleRecords, UploadMoves
<1>4. ASSUME NEW i \in Rows, row[i] = None, row' = [row EXCEPT ![i] = Row(k, f.backend)], Adopted(k)
      PROVE  IInv'
  <2>1. k \in Keys /\ f.backend \in {"local", "s3"}
    BY <1>1, <1>2 DEF FlightOK
  <2> DEFINE new == Row(k, f.backend)
  <2>2. new \in RowRecord /\ new.key = k /\ new.backend = f.backend
    BY <1>1, <2>1 DEF Row, RowRecord, Types
  <2> HIDE DEF new
  <2>3. /\ row' \in [Rows -> RowRecord \cup {None, Gone}] /\ row'[i] = new
        /\ \A j \in Rows : j # i => row'[j] = row[j]
    BY <1>1, <1>4, <2>2 DEF Types, new
  <2>4. /\ reap' \in ReapRecord
        /\ reap'.pc = reap.pc /\ reap'.at = reap.at /\ reap'.todo = reap.todo
        /\ reap'.key = reap.key /\ reap'.fresh = reap.fresh
        /\ reap.adopted => reap'.adopted
        /\ reap.pc = "delete" /\ reap.key = k => reap'.adopted
    BY <1>4, AdoptedDoes
  <2>5. /\ up' \in [Uploaders -> UpRecord] /\ up'[u] = IdleUpload
        /\ \A v \in Uploaders : v # u => up'[v] = up[v]
    BY <1>1, <1>2, IdleRecords DEF Types
  <2>6. Types'
    BY <1>1, <1>2, <2>3, <2>4, <2>5 DEF Types
  <2>7. \A b, x : x \in Refs(b)' => x \in Refs(b) \/ (x = k /\ b = f.backend)
    <3> SUFFICES ASSUME NEW b, NEW x \in Refs(b)' PROVE x \in Refs(b) \/ (x = k /\ b = f.backend)
      OBVIOUS
    <3>1. PICK j \in Rows : Live(j)' /\ row'[j].backend = b /\ x = row'[j].key
      BY DEF Refs, On
    <3>2. CASE j = i
      BY <3>1, <3>2, <2>2, <2>3
    <3>3. CASE j # i
      BY <3>1, <3>3, <2>3 DEF Refs, On, Live
    <3> QED
      BY <3>2, <3>3
  <2>8. RowsKeepTheirBytes'
    <3>1. f.backend = "local" => file'[k] # "absent"
      BY <1>1, <1>2 DEF FlightOK
    <3>2. f.backend # "local" => object'[k].bytes = "intact" \/ k \in raced'
      BY <1>1, <1>2, <2>1 DEF FlightOK, Stored
    <3> QED
      BY <1>1, <1>2, <2>2, <2>3, <3>1, <3>2 DEF RowsKeepTheirBytes, Live
  <2>9. ASSUME NEW v \in Uploaders PROVE FlightOK(up[v])'
    <3>1. CASE v = u
      BY <3>1, <2>5, IdleRecords DEF FlightOK
    <3>2. CASE v # u
      <4>1. up'[v] = up[v] /\ FlightOK(up[v])
        BY <3>2, <2>5 DEF IInv
      <4> QED
        BY <4>1, <1>2, <2>4 DEF FlightOK, Stored, Sweeping
    <3> QED
      BY <3>1, <3>2
  <2>10. MigOK'
    <3>1. mig.pc = "flip" /\ Backed(mig.key) => Backed(mig.key)'
      BY <1>2 DEF Backed
    <3>2. mig.pc = "unlink" /\ Unreferenced(mig.key) => Unreferenced(mig.key)'
      <4>1. mig.pc = "unlink" => backend = "s3"
        BY <1>1 DEF MigOK
      <4>2. mig.pc = "unlink" => f.backend # "local"
        BY <4>1, <1>1, <1>2 DEF FlightOK
      <4> QED
        BY <1>2, <2>7, <4>2 DEF Unreferenced
    <3>3. \A j \in Rows : row[j] # None => row'[j] # None /\ (Live(j)' => Live(j) /\ row'[j].key = row[j].key)
      BY <1>4, <2>3 DEF Live
    <3> QED
      BY <1>1, <1>2, <3>1, <3>2, <3>3, MigRests
  <2>11. ReapOK'
    <3>1. reap.key \in Refs("s3")' => reap.key \in Refs("s3") \/ reap.key = k
      BY <2>7
    <3> QED
      BY <1>1, <1>2, <2>4, <3>1, ReapRests
  <2> QED
    BY <2>6, <2>8, <2>9, <2>10, <2>11 DEF IInv
<1> QED
  BY <1>3, <1>4 DEF Create

\* A row that goes, of an album or by retention, asks nothing of anyone.
LEMMA RowsGo ==
  ASSUME IInv, UNCHANGED <<now, file, object, backend, up, mig, raced>>,
         row' \in [Rows -> RowRecord \cup {None, Gone}],
         \A i \in Rows : row'[i] = row[i] \/ row'[i] = Gone,
         reap' \in ReapRecord, ReapOK' \/ reap' = reap, Sweeping' => reap' = reap
  PROVE  IInv'
<1>1. Types /\ MigOK /\ ReapOK /\ RowsKeepTheirBytes
  BY DEF IInv
<1>2. \A i \in Rows : Live(i)' => Live(i) /\ row'[i] = row[i]
  BY DEF Live
<1>3. \A b : Refs(b)' \subseteq Refs(b)
  BY <1>2, RefsShrink
<1>4. Types'
  BY <1>1 DEF Types
<1>5. RowsKeepTheirBytes'
  BY <1>1, <1>2, RowsRest DEF Backed
<1>6. \A v \in Uploaders : FlightOK(up[v])'
  BY DEF IInv, FlightOK, Stored, Sweeping
<1>7. MigOK'
  <2>1. mig.pc = "flip" /\ Backed(mig.key) => Backed(mig.key)'
    BY DEF Backed
  <2>2. mig.pc = "unlink" /\ Unreferenced(mig.key) => Unreferenced(mig.key)'
    BY <1>3 DEF Unreferenced
  <2>3. \A i \in Rows : row[i] # None => row'[i] # None
    BY NullAssumption
  <2> QED
    BY <1>1, <1>2, <2>1, <2>2, <2>3, MigRests
<1>8. ReapOK'
  BY <1>1, <1>3, ReapRests
<1> QED
  BY <1>4, <1>5, <1>6, <1>7, <1>8 DEF IInv

LEMMA DeleteHolds ==
  ASSUME IInv, NEW i \in Rows, Delete(i)
  PROVE  IInv'
<1>1. row \in [Rows -> RowRecord \cup {None, Gone}] /\ reap \in ReapRecord
  BY DEF IInv, Types
<1>2. row' = [row EXCEPT ![i] = Gone] /\ UNCHANGED <<now, file, object, backend, up, mig, raced, reap>>
  BY DEF Delete
<1> QED
  BY <1>1, <1>2, RowsGo

LEMMA RetainHolds ==
  ASSUME IInv, Retain
  PROVE  IInv'
<1> DEFINE q == [reap EXCEPT !.pc = "album refs"]
<1>1. row \in [Rows -> RowRecord \cup {None, Gone}] /\ reap \in ReapRecord /\ Before(reap.at, now)
  BY DEF IInv, Types, ReapOK
<1>2. q \in ReapRecord /\ q.pc = "album refs" /\ q.at = reap.at
  BY ONLY <1>1 DEF ReapRecord, ReapPCs
<1>3. /\ reap' = q /\ UNCHANGED <<now, file, object, backend, up, mig, raced>>
      /\ row' = [i \in Rows |-> IF i \in Doomed(reap.at) THEN Gone ELSE row[i]]
  BY DEF Retain
<1> HIDE DEF q
<1>4. ReapOK' /\ ~Sweeping'
  BY <1>1, <1>2, <1>3 DEF ReapOK, Sweeping
<1>5. /\ row' \in [Rows -> RowRecord \cup {None, Gone}]
      /\ \A i \in Rows : row'[i] = row[i] \/ row'[i] = Gone
  BY <1>1, <1>3
<1> QED
  BY <1>2, <1>3, <1>4, <1>5, RowsGo

\* A server that is restarted drops its uploads, and the local store with them.
LEMMA FlipServerHolds ==
  ASSUME IInv, FlipServer
  PROVE  IInv'
<1>1. Types /\ MigOK /\ ReapOK /\ RowsKeepTheirBytes
  BY DEF IInv
<1>2. /\ UNCHANGED <<now, row, file, object, mig, reap, raced>> /\ backend' = "s3"
      /\ up' = [u \in Uploaders |-> IdleUpload]
  BY DEF FlipServer
<1>3. Types'
  BY <1>1, <1>2, IdleRecords DEF Types
<1>4. \A u \in Uploaders : FlightOK(up[u])'
  BY <1>2, IdleRecords DEF FlightOK
<1>5. RowsKeepTheirBytes' /\ ReapOK' /\ MigOK'
  BY <1>1, <1>2 DEF RowsKeepTheirBytes, ReapOK, MigOK, Live, Refs, On, Backed, Unreferenced
<1> QED
  BY <1>3, <1>4, <1>5 DEF IInv

LEMMA AdvanceHolds ==
  ASSUME IInv, Advance
  PROVE  IInv'
<1>1. Types /\ MigOK /\ ReapOK /\ RowsKeepTheirBytes
  BY DEF IInv
<1>2. /\ UNCHANGED <<row, file, object, backend, up, mig, reap, raced>> /\ now' = now + 1
      /\ \A u \in Uploaders : up[u].pc # "idle" => InTime(now', up[u].at)
  BY DEF Advance, InTime
<1>3. now' \in Nat /\ Before(now, now')
  <2>1. now \in Nat
    BY <1>1 DEF Types
  <2> QED
    BY ONLY <1>2, <2>1 DEF Before
<1>4. Types'
  BY <1>1, <1>2, <1>3 DEF Types
<1>5. Before(reap.at, now')
  <2>1. now \in Nat /\ reap.at \in Nat /\ Before(reap.at, now)
    BY <1>1 DEF Types, ReapRecord, ReapOK
  <2> QED
    BY ONLY <1>3, <2>1, Times
<1>6. \A u \in Uploaders : up[u].pc # "idle" => Before(up[u].at, now')
  BY <1>3, TimeRests, Times
<1>7. \A u \in Uploaders : FlightOK(up[u])'
  BY <1>2, <1>6 DEF IInv, FlightOK, Stored, Sweeping
<1>8. RowsKeepTheirBytes' /\ MigOK'
  BY <1>1, <1>2 DEF RowsKeepTheirBytes, MigOK, Live, Refs, On, Backed, Unreferenced
<1>9. ReapOK'
  BY <1>1, <1>2, <1>5 DEF ReapOK, Refs, On, Live
<1> QED
  BY <1>4, <1>7, <1>8, <1>9 DEF IInv
-----------------------------------------------------------------------------
(* What the two commands write and delete. *)

LEMMA PutAtHolds ==
  ASSUME IInv, PutAt
  PROVE  IInv'
<1>1. Types /\ MigOK /\ ReapOK /\ RowsKeepTheirBytes
  BY DEF IInv
<1>2. /\ UNCHANGED <<now, row, file, backend, up, raced>> /\ Written(mig.key) /\ mig' = AtPc("verify")
      /\ mig.pc = "put"
  BY DEF PutAt, Mig, AtPc
<1>3. mig.key \in Keys
  BY <1>1, <1>2 DEF MigOK
<1>4. /\ object' \in [Keys -> [bytes : Bytes, at : Nat]] /\ reap' \in ReapRecord
      /\ \A j \in Keys : Backed(j) => Backed(j)'
      /\ \A j \in Keys, t \in Nat : Stored(j, t) /\ Before(t, now) => Stored(j, t)'
      /\ reap'.pc = reap.pc /\ reap'.at = reap.at /\ reap'.todo = reap.todo
      /\ reap'.key = reap.key /\ reap'.adopted = reap.adopted /\ reap.fresh \subseteq reap'.fresh
  BY <1>2, <1>3, WrittenDoes
<1>5. /\ mig' \in MigRecord /\ mig'.pc = "verify" /\ mig'.delete = mig.delete
      /\ mig'.row = mig.row /\ mig'.key = mig.key
  BY <1>1, <1>2, MigRecords DEF MigPCs, Types
<1>6. Types'
  BY <1>1, <1>2, <1>4, <1>5 DEF Types
<1>7. Refs("s3")' = Refs("s3") /\ Refs("local")' = Refs("local") /\ \A i : Live(i)' <=> Live(i)
  BY <1>2 DEF Refs, On, Live
<1>8. RowsKeepTheirBytes'
  BY <1>1, <1>2, <1>4, <1>7, RowsRest
<1>9. ASSUME NEW v \in Uploaders PROVE FlightOK(up[v])'
  <2>1. /\ up[v] \in UpRecord /\ FlightOK(up[v]) /\ up[v].at \in Nat /\ up'[v] = up[v]
        /\ up[v].pc # "idle" => Before(up[v].at, now)
    BY <1>2, TimeRests
  <2>2. up[v].pc # "idle" /\ up[v].backend = "s3" => Stored(up[v].key, up[v].at)'
    <3> DEFINE t == up[v].at
               k == up[v].key
    <3>1. up[v].pc # "idle" /\ up[v].backend = "s3" => k \in Keys /\ Stored(k, t) /\ Before(t, now)
      BY <2>1 DEF FlightOK
    <3>2. t' = t /\ k' = k
      BY <2>1
    <3> QED
      BY <2>1, <3>1, <3>2, <1>4 DEF Stored
  <2> QED
    BY <2>1, <2>2, <1>2, <1>4 DEF FlightOK, Sweeping
<1>10. MigOK'
  BY <1>1, <1>2, <1>5, <1>7 DEF MigOK
<1>11. ReapOK'
  BY <1>1, <1>2, <1>4, <1>7, ReapRests
<1> QED
  BY <1>6, <1>8, <1>9, <1>10, <1>11 DEF IInv

\* A row that is switched has its object, or the pass will know it took it.
LEMMA FlipHolds ==
  ASSUME IInv, Flip
  PROVE  IInv'
<1>1. Types /\ MigOK /\ ReapOK /\ RowsKeepTheirBytes
  BY DEF IInv
<1>2. /\ UNCHANGED <<now, file, object, backend, up, raced>> /\ mig.pc = "flip"
      /\ mig.key \in Keys /\ mig.row \in Rows /\ Backed(mig.key)
      /\ Live(mig.row) => row[mig.row].key = mig.key
  BY <1>1 DEF Flip, MigOK
<1> DEFINE i == mig.row
           k == mig.key
<1>3. \/ UNCHANGED <<row, reap>> /\ mig' = NextRow
      \/ /\ i \in On("local") /\ row' = [row EXCEPT ![i].backend = "s3"] /\ Adopted(k)
         /\ mig' = IF mig.delete THEN AtPc("refs") ELSE NextRow
  BY DEF Flip, Mig, AtPc
<1>4. CASE UNCHANGED <<row, reap>> /\ mig' = NextRow
  BY <1>1, <1>2, <1>4, MigRecords, MigRestarts DEF Types, MigOK
<1>5. CASE /\ i \in On("local") /\ row' = [row EXCEPT ![i].backend = "s3"] /\ Adopted(k)
           /\ mig' = IF mig.delete THEN AtPc("refs") ELSE NextRow
  <2> DEFINE new == [row[i] EXCEPT !.backend = "s3"]
  <2>1. row[i] \in RowRecord /\ Live(i) /\ row[i].key = k
    BY <1>1, <1>2, <1>5 DEF On, Live, Types
  <2>2. new \in RowRecord /\ new.key = k /\ new.backend = "s3"
    BY ONLY <2>1 DEF RowRecord
  <2>3. row' = [row EXCEPT ![i] = new]
    BY <1>5
  <2> HIDE DEF new
  <2>4. /\ row' \in [Rows -> RowRecord \cup {None, Gone}] /\ row'[i] = new
        /\ \A j \in Rows : j # i => row'[j] = row[j]
    BY <1>1, <1>2, <2>2, <2>3 DEF Types
  <2>5. /\ reap' \in ReapRecord
        /\ reap'.pc = reap.pc /\ reap'.at = reap.at /\ reap'.todo = reap.todo
        /\ reap'.key = reap.key /\ reap'.fresh = reap.fresh
        /\ reap.adopted => reap'.adopted
        /\ reap.pc = "delete" /\ reap.key = k => reap'.adopted
    BY <1>5, AdoptedDoes
  <2>6. /\ mig' \in MigRecord /\ mig'.pc \in {"refs", "list"} /\ mig'.delete = mig.delete
        /\ mig'.pc = "refs" => mig.delete /\ mig'.key \in Keys
    <3>1. mig \in MigRecord /\ "refs" \in MigPCs
      BY <1>1 DEF Types, MigPCs
    <3> QED
      BY ONLY <3>1, <1>2, <1>5, MigRecords
  <2>7. Types'
    BY <1>1, <1>2, <2>4, <2>5, <2>6 DEF Types
  <2>8. \A x : x \in Refs("s3")' => x \in Refs("s3") \/ x = k
    <3> SUFFICES ASSUME NEW x \in Refs("s3")' PROVE x \in Refs("s3") \/ x = k
      OBVIOUS
    <3>1. PICK j \in Rows : Live(j)' /\ row'[j].backend = "s3" /\ x = row'[j].key
      BY DEF Refs, On
    <3> QED
      BY <3>1, <2>2, <2>4 DEF Refs, On, Live
  <2>9. RowsKeepTheirBytes'
    <3>1. object'[k].bytes = "intact" \/ k \in raced'
      BY <1>2 DEF Backed
    <3> QED
      BY <1>1, <1>2, <2>2, <2>4, <3>1 DEF RowsKeepTheirBytes, Live
  <2>10. \A v \in Uploaders : FlightOK(up[v])'
    BY <1>2, <2>5 DEF IInv, FlightOK, Stored, Sweeping
  <2>11. MigOK'
    BY <1>1, <1>2, <2>6 DEF MigOK
  <2>12. ReapOK'
    <3>1. reap.key \in Refs("s3")' => reap.key \in Refs("s3") \/ reap.key = k
      BY <2>8
    <3> QED
      BY <1>1, <1>2, <2>5, <3>1, ReapRests
  <2> QED
    BY <2>7, <2>9, <2>10, <2>11, <2>12 DEF IInv
<1> QED
  BY <1>3, <1>4, <1>5

\* The file goes when no local row shares it, and no upload can need it.
LEMMA UnlinkHolds ==
  ASSUME IInv, Unlink
  PROVE  IInv'
<1> DEFINE k == mig.key
<1>1. Types /\ MigOK /\ ReapOK /\ RowsKeepTheirBytes
  BY DEF IInv
<1>2. /\ UNCHANGED <<now, row, object, backend, up, reap, raced>> /\ mig' = Back
      /\ file' = [file EXCEPT ![k] = "absent"]
  BY DEF Unlink, Mig
<1>3. k \notin Refs("local") /\ backend = "s3" /\ mig.delete
  BY <1>1 DEF MigOK, Unlink, Unreferenced
<1>4. /\ file' \in [Keys -> Bytes] /\ \A j \in Keys : j # k => file'[j] = file[j]
  BY <1>1, <1>2 DEF Types, Bytes
<1>5. mig' \in MigRecord /\ mig'.pc \in {"list", "leftovers"} /\ mig'.delete = mig.delete
  BY <1>1, <1>2, MigRecords DEF Types
<1>6. Types'
  BY <1>1, <1>2, <1>4, <1>5 DEF Types
<1>7. RowsKeepTheirBytes'
  BY <1>1, <1>2, <1>3, <1>4, RowsRest DEF Live, Backed
<1>8. \A v \in Uploaders : FlightOK(up[v])'
  BY <1>2, <1>3 DEF IInv, FlightOK, Stored, Sweeping
<1>9. MigOK'
  BY <1>2, <1>3, <1>5 DEF MigOK
<1>10. ReapOK'
  BY <1>1, <1>2 DEF ReapOK, Refs, On, Live
<1> QED
  BY <1>6, <1>7, <1>8, <1>9, <1>10 DEF IInv

\* The object goes; whoever has come to need it since the listing is recorded.
LEMMA DeleteObjectHolds ==
  ASSUME IInv, DeleteObject
  PROVE  IInv'
<1> DEFINE k == reap.key
           q == [reap EXCEPT !.pc = "sweep", !.todo = @ \ {k}, !.key = None, !.adopted = FALSE]
<1>1. Types /\ MigOK /\ ReapOK /\ RowsKeepTheirBytes
  BY DEF IInv
<1>2. /\ UNCHANGED <<now, row, file, backend, up, mig>> /\ reap.pc = "delete" /\ reap' = q
      /\ object' = [object EXCEPT ![k] = NoObject]
      /\ raced' = IF Raced(k) THEN raced \cup {k} ELSE raced
  BY DEF DeleteObject
<1>3. reap \in ReapRecord /\ k \in reap.todo /\ k \in Keys
  BY <1>1, <1>2 DEF ReapOK, Types, ReapRecord
<1>4. q \in ReapRecord /\ q.pc = "sweep" /\ q.at = reap.at /\ q.fresh = reap.fresh /\ q.todo = reap.todo \ {k}
  BY ONLY <1>3 DEF ReapRecord, ReapPCs
<1> HIDE DEF q
<1>5. NoObject \in [bytes : Bytes, at : Nat]
  BY DEF NoObject, Bytes
<1>6. /\ object' \in [Keys -> [bytes : Bytes, at : Nat]] /\ \A j \in Keys : j # k => object'[j] = object[j]
  BY <1>1, <1>2, <1>5 DEF Types
<1>7. raced \subseteq raced' /\ raced' \subseteq Keys /\ (Raced(k) => k \in raced')
  BY <1>1, <1>2, <1>3 DEF Types
<1>8. Types'
  BY <1>1, <1>2, <1>4, <1>6, <1>7 DEF Types
<1>9. k \in Refs("s3") => k \in raced'
  BY <1>1, <1>2, <1>7 DEF ReapOK, Raced
<1>10. RowsKeepTheirBytes'
  <2>1. \A j \in Keys : Backed(j) /\ j \in Refs("s3") => Backed(j)'
    BY <1>6, <1>7, <1>9 DEF Backed
  <2> QED
    BY <1>1, <1>2, <2>1, RowsRest DEF Live
<1>11. ASSUME NEW v \in Uploaders PROVE FlightOK(up[v])'
  <2>1. FlightOK(up[v]) /\ up'[v] = up[v]
    BY <1>2 DEF IInv
  <2>2. up[v].pc # "idle" /\ up[v].backend = "s3" /\ up[v].key = k => k \in raced'
    BY <2>1, <1>2, <1>3, <1>7 DEF FlightOK, Sweeping, Raced
  <2>3. up[v].pc # "idle" /\ up[v].backend = "s3" => Stored(up[v].key, up[v].at)'
    BY <2>1, <2>2, <1>6, <1>7 DEF FlightOK, Stored
  <2> QED
    BY <2>1, <2>3, <1>2, <1>4, <1>7 DEF FlightOK, Sweeping
<1>12. MigOK'
  <2>1. mig.pc = "flip" /\ Backed(mig.key) => Backed(mig.key)'
    <3>1. mig' = mig /\ (mig.pc = "flip" => mig.key \in Keys)
      BY <1>1, <1>2 DEF MigOK
    <3>2. mig.pc = "flip" /\ mig.key = k => mig.key \in raced'
      BY <1>7 DEF Raced
    <3> QED
      BY <3>1, <3>2, <1>6, <1>7 DEF Backed
  <2>2. Refs("local")' = Refs("local") /\ \A i : Live(i)' <=> Live(i)
    BY <1>2 DEF Refs, On, Live
  <2> QED
    BY <1>1, <1>2, <2>1, <2>2, MigRests DEF Unreferenced
<1>13. ReapOK'
  BY <1>1, <1>2, <1>4 DEF ReapOK
<1> QED
  BY <1>8, <1>10, <1>11, <1>12, <1>13 DEF IInv
-----------------------------------------------------------------------------
(* Every step keeps the invariant, and it holds at the start. *)

LEMMA InitHolds ==
  ASSUME Init
  PROVE  IInv
<1>1. /\ now = 0 /\ backend = "local" /\ raced = {}
      /\ up = [u \in Uploaders |-> IdleUpload] /\ mig = IdleMig /\ reap = IdleReap
      /\ file \in [Keys -> Bytes] /\ \A k \in Keys : file[k] = "absent" <=> k \notin Refs("local")
  BY DEF Init
<1>2. row \in [Rows -> {None} \cup {Row(k, "local") : k \in Keys}]
  BY DEF Init
<1>3. ASSUME NEW k \in Keys PROVE Row(k, "local") \in RowRecord /\ Row(k, "local").backend = "local"
  BY <1>1 DEF Row, RowRecord
<1>4. ASSUME NEW i \in Rows, Live(i) PROVE row[i] \in RowRecord /\ row[i].backend = "local"
  BY <1>2, <1>3, <1>4 DEF Live
<1>5. row \in [Rows -> RowRecord \cup {None, Gone}]
  BY <1>2, <1>3
<1>6. object \in [Keys -> [bytes : Bytes, at : Nat]]
  <2>1. object \in [Keys -> {[bytes |-> b, at |-> 0] : b \in Bytes}]
    BY DEF Init
  <2>2. {[bytes |-> b, at |-> 0] : b \in Bytes} \subseteq [bytes : Bytes, at : Nat]
    OBVIOUS
  <2> QED
    BY <2>1, <2>2
<1>7. Types
  BY <1>1, <1>5, <1>6, IdleRecords DEF Types
<1>8. RowsKeepTheirBytes
  <2> SUFFICES ASSUME NEW i \in Rows, Live(i) PROVE row[i].backend = "local" /\ file[row[i].key] # "absent"
    BY DEF RowsKeepTheirBytes
  <2>1. i \in On("local") /\ row[i].key \in Keys
    BY <1>4 DEF On, RowRecord
  <2>2. row[i].key \in Refs("local")
    BY <2>1 DEF Refs
  <2> QED
    BY <1>1, <1>4, <2>1, <2>2
<1>9. \A u \in Uploaders : FlightOK(up[u])
  BY <1>1, IdleRecords DEF FlightOK
<1>10. MigOK
  BY <1>1, IdleRecords DEF MigOK
<1>11. ReapOK
  BY <1>1, IdleRecords, Times DEF ReapOK
<1> QED
  BY <1>7, <1>8, <1>9, <1>10, <1>11 DEF IInv

LEMMA StepHolds ==
  ASSUME IInv, [Next]_vars
  PROVE  IInv'
<1>1. CASE UNCHANGED vars
  <2>1. UNCHANGED <<now, row, file, object, backend, up, mig, reap, raced>>
    BY <1>1 DEF vars
  <2>2. Types' /\ \A u \in Uploaders : FlightOK(up[u])'
    BY <2>1, StorageRests DEF IInv, Types, FlightOK, Sweeping
  <2>3. MigOK' /\ ReapOK'
    BY <2>1, StorageRests DEF IInv, MigOK, ReapOK, Unreferenced
  <2> QED
    BY <2>1, <2>2, <2>3, StorageRests DEF IInv
<1>2. ASSUME NEW u \in Uploaders, UploadStep(u) PROVE IInv'
  BY <1>2, UploadsHold, CreateHolds, PutHolds DEF UploadStep
<1>3. ASSUME NEW i \in Rows, Delete(i) PROVE IInv'
  BY <1>3, DeleteHolds
<1>4. CASE Migrate
  BY <1>4, MigStepsHold, PutAtHolds, FlipHolds, UnlinkHolds DEF Migrate
<1>5. CASE Reap
  BY <1>5, ReapStepsHold, RetainHolds, DeleteObjectHolds DEF Reap
<1>6. CASE FlipServer
  BY <1>6, FlipServerHolds
<1>7. CASE Advance
  BY <1>7, AdvanceHolds
<1> QED
  BY <1>1, <1>2, <1>3, <1>4, <1>5, <1>6, <1>7 DEF Next

\* Bytes that a row, an upload in flight, the migrator or the reaper count on
\* are where they look for them, however uploads, deletes, the two commands
\* and the server's move to the bucket interleave.
THEOREM BytesInvariant == Spec => []IInv
<1>1. Init => IInv
  BY InitHolds
<1>2. IInv /\ [Next]_vars => IInv'
  BY StepHolds
<1> QED
  BY <1>1, <1>2, PTL DEF Spec

\* Every row's bytes are where the row says: whatever uploads, deletes, the
\* migration and the reaper do, a local row's file is there, and what a row in
\* the bucket refers to is there and intact, but for what a pass deleted
\* while a row it could not have seen was on its way.
THEOREM RowsAreSafe == Spec => []RowsKeepTheirBytes
<1>1. IInv => RowsKeepTheirBytes
  BY DEF IInv
<1> QED
  BY <1>1, BytesInvariant, PTL

-----------------------------------------------------------------------------
(* The dry run. *)

\* Counting the rows of a key tells whether one of them is kept.
LEMMA MoreThanDoomed ==
  ASSUME NEW S, NEW D, IsFiniteSet(S)
  PROVE  Cardinality(S) > Cardinality(S \cap D) <=> \E i \in S : i \notin D
<1>1. IsFiniteSet(S \cap D) /\ Cardinality(S \cap D) <= Cardinality(S)
      /\ (Cardinality(S) = Cardinality(S \cap D) => S = S \cap D)
  BY FS_Subset
<1>2. Cardinality(S) \in Nat /\ Cardinality(S \cap D) \in Nat
  BY <1>1, FS_CardinalityType
<1>3. Cardinality(S) > Cardinality(S \cap D) <=> S # S \cap D
  BY <1>1, <1>2
<1> QED
  BY <1>3

LEMMA PreviewMatches ==
  ASSUME Types
  PROVE  PreviewIsFaithful
<1> DEFINE kept == {row[i].key : i \in On("s3") \ Doomed(now)}
           of(k) == {i \in On("s3") : row[i].key = k}
<1>1. ASSUME NEW k \in Keys PROVE k \in PreviewRefs(now) <=> k \in kept
  <2>1. IsFiniteSet(of(k))
    BY FiniteAssumption, FS_Subset DEF On
  <2>2. Cardinality(of(k)) > Cardinality(of(k) \cap Doomed(now)) <=> \E i \in of(k) : i \notin Doomed(now)
    BY <2>1, MoreThanDoomed
  <2>3. k \in PreviewRefs(now) <=> \E i \in of(k) : i \notin Doomed(now)
    BY <2>2 DEF PreviewRefs
  <2> QED
    BY <2>3
<1>2. Orphans(now, PreviewRefs(now)) = Orphans(now, kept)
  BY <1>1 DEF Orphans
<1> QED
  BY <1>2 DEF PreviewIsFaithful

\* A dry run previews exactly what a run would then delete: counting each
\* key's rows against those that retention removes agrees with what retention
\* leaves referenced.
THEOREM DryRunTellsTheTruth == Spec => []PreviewIsFaithful
<1>1. IInv => PreviewIsFaithful
  BY PreviewMatches DEF IInv
<1> QED
  BY <1>1, BytesInvariant, PTL
=============================================================================
