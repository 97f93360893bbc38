---------------------------- MODULE ServicesProofs ----------------------------
(***************************************************************************)
(* Proofs, for any number of requests, browsers, schedulers, uploads and   *)
(* rows, of the invariants of the services put side by side in Services.   *)
(* Each service has an inductive invariant of its own, in terms of what    *)
(* its requests have read and hold while they are under way.               *)
(***************************************************************************)
EXTENDS Services, NaturalSets, FiniteSetTheorems, TLAPS

-----------------------------------------------------------------------------
(* Supplies. *)

\* The item is locked by one request at most, which will store what it read
\* plus what it was asked for.
PantryInv ==
  /\ stock \in 0 .. MaxStock /\ moved \in Int /\ stock = Stock + moved
  /\ cook \in [Cooks -> [pc : {"idle", "update"}, delta : Int, read : Int]]
  /\ \A u \in Cooks : cook[u].pc = "update" =>
       cook[u].read = stock /\ cook[u].read + cook[u].delta \in 0 .. MaxStock
  /\ \A u, w \in Cooks : cook[u].pc = "update" /\ cook[w].pc = "update" => u = w

ListTypes ==
  /\ entry \in [Entries -> {SU!NoEntry} \cup [line : SU!Lines, status : SU!Statuses]]
  /\ notices \in [Entries -> Nat]
  /\ run \in [Runs -> [pc : {"idle", "add", "notify"}, todo : SUBSET SU!Lines,
                       added : Entries \cup {None}]]

\* A notice in hand is of an entry nobody was told of, and nobody else has it.
ListInv ==
  /\ ListTypes
  /\ \A i, j \in Entries : entry[i].line = entry[j].line
       /\ SU!IsOpen(entry[i]) /\ SU!IsOpen(entry[j]) => i = j
  /\ \A i \in Entries : notices[i] <= 1 /\ (entry[i] = SU!NoEntry => notices[i] = 0)
  /\ \A s \in Runs : run[s].pc = "notify" =>
       /\ run[s].added \in Entries
       /\ entry[run[s].added] # SU!NoEntry /\ notices[run[s].added] = 0
  /\ \A s, z \in Runs : run[s].pc = "notify" /\ run[z].pc = "notify"
       /\ run[s].added = run[z].added => s = z

-----------------------------------------------------------------------------
(* KioskActivation. *)

KioskTypes ==
  /\ code \in [KioskCodes -> [expires : (0 .. KioskTime + TTL) \cup {None}, used : BOOLEAN]]
  /\ device \in [KA!Devices -> {"absent", "active", "revoked"}]
  /\ tab \in [Tabs -> [pc : {"idle", "lookup", "lock", "revoke", "insert", "commit"},
                       code : KioskCodes \cup {None}, at : Nat, drop : SUBSET KA!Devices]]
  /\ scene = "kiosk" => now \in 0 .. KioskTime

\* A redemption past the lookup has the row of its code to itself; one past
\* the household's lock has the active devices to itself.
RedeemersInv ==
  /\ \A t \in Tabs : tab[t].pc # "idle" => tab[t].code \in KioskCodes
  /\ \A t \in Tabs : KA!HoldsCode(t, tab[t].code) => ~code[tab[t].code].used
  /\ \A t, u \in Tabs : KA!HoldsCode(t, tab[t].code) /\ KA!HoldsCode(u, tab[t].code) => t = u
  /\ \A t, u \in Tabs : KA!HoldsHousehold(t) /\ KA!HoldsHousehold(u) => t = u
  /\ \A t \in Tabs : tab[t].drop = IF tab[t].pc \in {"insert", "commit"} THEN KA!Active ELSE {}

ProvisionedInv ==
  /\ latest = None \/ latest \in KA!Devices
  /\ revoked \subseteq {d \in KA!Devices : device[d] = "revoked"}
  /\ KA!Active = IF latest = None \/ latest \in revoked THEN {} ELSE {latest}
  /\ \A c \in KioskCodes :
       IF code[c].used
       THEN \E t \in Tabs : {u \in Tabs : device[<<c, u>>] # "absent"} = {t}
       ELSE {u \in Tabs : device[<<c, u>>] # "absent"} = {}
  /\ collisions = 0

KioskInv == KioskTypes /\ RedeemersInv /\ ProvisionedInv

-----------------------------------------------------------------------------
(* ProofPhotos. *)

Stamps == 0 .. ProofTime + FreshFor

\* One upload at a time is between its check and its commit, and the check
\* still holds.
ProofInv ==
  /\ proofs \subseteq [kind : PP!Kinds, taken : Stamps, at : 0 .. ProofTime]
  /\ shot \in [Cameras -> [pc : {"idle", "put", "check", "commit"},
                           kind : PP!Kinds \cup {None}, taken : Stamps]]
  /\ closing \in {"idle", "award"} /\ chore \in {"pending", "done"}
  /\ scene = "proofs" => now \in 0 .. ProofTime
  /\ \A u \in Cameras : shot[u].pc # "idle" => shot[u].kind \in PP!Kinds
  /\ \A u, v \in Cameras :
       shot[u].pc \in {"check", "commit"} /\ shot[v].pc \in {"check", "commit"} => u = v
  /\ \A u \in Cameras : shot[u].pc = "commit" => ~PP!OutOfOrder(shot[u].kind, shot[u].taken)
  /\ PP!ProofsInOrder

-----------------------------------------------------------------------------
(* CalendarSync. *)

\* Event e is cached as it is, or gone from the cache as it should be.
Cached(e) == /\ remote[e].state = "live" => cache[e] = remote[e].last
             /\ remote[e].state = "cancelled" => cache[e] = None

\* What cursor c promises of the cache.
CoveredBy(c) ==
  c # None => /\ c \in 0 .. changes
              /\ \A e \in Events \ hidden : remote[e].last <= c => Cached(e)

ListedEvent == [event : Events, last : CS!Changes, state : {"live", "cancelled", "malformed"}]
Pass == [pc : {"idle", "token", "persist", "list", "apply"}, cursor : CS!Cursors \cup {None},
         read : CS!Cursors \cup {None}, todo : SUBSET ListedEvent, next : CS!Cursors \cup {None}]

SyncTypes ==
  /\ changes \in CS!Cursors /\ oldest \in CS!Cursors /\ hidden \subseteq Events
  /\ remote \in [Events -> [last : CS!Cursors, state : {"absent", "live", "cancelled", "malformed"}]]
  /\ \A e \in Events : /\ remote[e].last <= changes
                       /\ remote[e].state # "absent" => remote[e].last # 0
  /\ cursor \in CS!Cursors \cup {None} /\ cache \in [Events -> CS!Changes \cup {None}]
  /\ pass \in [Syncers -> Pass]

\* Once what is left to apply has been applied, the next cursor covers the
\* cache; meanwhile applying it costs the present one nothing.
Applying(p) ==
  /\ p.next \in 0 .. changes
  /\ cursor # None => cursor <= p.next
  /\ \A v \in p.todo : remote[v.event].last <= p.next =>
       v.last = remote[v.event].last /\ v.state = remote[v.event].state
  /\ \A e \in Events \ hidden : remote[e].last <= p.next =>
       Cached(e) \/ \E v \in p.todo : v.event = e

SyncInv ==
  /\ SyncTypes
  /\ CoveredBy(cursor)
  /\ \A y \in Syncers :
       /\ pass[y].pc \in {"token", "persist", "list"} =>
            CoveredBy(pass[y].cursor) /\ CoveredBy(pass[y].read)
       /\ pass[y].pc = "apply" => Applying(pass[y])

-----------------------------------------------------------------------------
(* SecondFactor. *)

SignIn(q) == q.pc \in {"record", "remember"} \/ (q.pc \in {"list", "mark"} /\ q.for = "login")

Request == [pc : {"idle", "confirm", "replace", "insert", "revoke", "delete", "list", "mark",
                  "record", "remember"},
            for : {None, "login", "disenrol"}, secret : Secrets \cup {None},
            step : Steps \cup {None}, code : SF!Codes \cup {None},
            drop : SUBSET SF!Codes, since : SUBSET Secrets]

\* Secrets are numbered as they are generated: a sign-in that is told of an
\* enrolment confirmed by the time it began is told of the one it read.
Sound(q) ==
  /\ q.pc = "record" => q.step \in Steps
  /\ q.pc = "mark" => q.code \in SF!Codes
  /\ SignIn(q) => /\ q.secret \in Secrets /\ q.secret <= secrets
                  /\ \A k \in q.since : k <= q.secret

RequestsInv == req \in [Requests -> Request] /\ \A r \in Requests : Sound(req[r])

FactorTypes ==
  /\ enrol \in [secret : Secrets \cup {None}, confirmed : BOOLEAN, step : {0} \cup Steps]
  /\ codes \in [SF!Codes -> {"absent", "unused", "used"}]
  /\ devices \subseteq Secrets /\ shown \subseteq SF!Codes /\ confirmed \subseteq Secrets
  /\ secrets \in Nat /\ batches \in Nat
  /\ accepted \in [SF!Codes \cup SF!TotpCodes -> Nat]

EnrolmentInv ==
  /\ enrol.secret = None => enrol = SF!NoRow /\ SF!Stored = {} /\ devices = {}
  /\ enrol.secret # None => enrol.secret = secrets
  /\ ~enrol.confirmed => devices = {} /\ shown = {}
  /\ \A k \in devices : enrol.secret = k
  /\ \A k \in confirmed : k <= secrets

\* A code that can still be accepted has not been.
CodesInv ==
  /\ \A c \in SF!Codes : /\ c[1] > batches => codes[c] = "absent" /\ accepted[c] = 0
                         /\ codes[c] = "unused" => accepted[c] = 0
                         /\ accepted[c] <= 1
  /\ shown \subseteq SF!Stored

\* So has a step after the last one recorded, of the enrolment in force.
TotpInv ==
  /\ \A k \in Secrets, n \in Steps : k > secrets => accepted[<<"totp", k, n>>] = 0
  /\ enrol.secret # None => \A n \in Steps :
       /\ accepted[<<"totp", enrol.secret, n>>] <= 1
       /\ n > enrol.step => accepted[<<"totp", enrol.secret, n>>] = 0

TablesInv == FactorTypes /\ EnrolmentInv /\ CodesInv /\ TotpInv
FactorInv == TablesInv /\ RequestsInv

-----------------------------------------------------------------------------
(* StandingChore. *)

WarnPCs == {"warnings", "clear"}

\* The windows some scheduler is to warn of, or to clear the stamp of.
HandledBy(c) == IF c.pc \in WarnPCs THEN c.hand ELSE {}
Handled(s)   == HandledBy(sweep[s])

ClockInv == now \in Nat /\ (scene = "standing" => now <= ChoreTime) /\ faults \in 0 .. MaxFaults

RowsInv ==
  /\ standing \in [Instances -> SC!Rows]
  /\ \A i \in Instances : /\ standing[i].warned => standing[i].expires # None
                          /\ standing[i].by = None => standing[i].expires = None

SoundCycle(c) == c.asOf <= now /\ (c.pc = "clear" => c.failed \in c.hand)

CyclesInv == sweep \in [Schedulers -> SC!Cycles] /\ \A s \in Schedulers : SoundCycle(sweep[s])

CountsInv ==
  warnings \in [SC!Windows -> Nat] /\ lostWarnings \subseteq SC!Windows /\ unsure \subseteq SC!Windows

\* Windows of an instance are opened one after the other: any that was warned
\* of is its present one or expired before.
WindowsPass ==
  \A w \in SC!Windows : warnings[w] > 0 \/ (\E s \in Schedulers : w \in Handled(s)) =>
    /\ standing[w[1]].status # "absent"
    /\ standing[w[1]].status = "pending" =>
         w[2] <= IF standing[w[1]].expires = None THEN now ELSE standing[w[1]].expires

\* A window is in one scheduler's hand at most, with its instance stamped, and
\* has not been warned of unless an answer was lost.
HandsApart == \A s, z \in Schedulers : s # z => Handled(s) \cap Handled(z) = {}

HandsFresh ==
  \A s \in Schedulers : \A w \in Handled(s) :
    /\ warnings[w] > 0 => w \in unsure
    /\ w[1] \in SC!Open /\ SC!Window(w[1]) = w => standing[w[1]].warned

UnstampedFresh ==
  \A i \in SC!Open : standing[i].expires # None /\ ~standing[i].warned =>
    (warnings[SC!Window(i)] > 0 => SC!Window(i) \in unsure)

\* WarnedOncePerWindow, in terms of Handled.
WarnedOnce == \A w \in SC!Windows : warnings[w] > 1 => w \in unsure

WarnedAtLeastOnce ==
  \A i \in SC!Open :
    standing[i].warned /\ SC!Window(i) \notin lostWarnings
      /\ (\A s \in Schedulers : SC!Window(i) \notin Handled(s))
    => warnings[SC!Window(i)] > 0

StandingTypes == ClockInv /\ RowsInv /\ CyclesInv /\ CountsInv
WarningsInv == /\ WindowsPass /\ HandsApart /\ HandsFresh /\ UnstampedFresh
               /\ WarnedOnce /\ WarnedAtLeastOnce
StandingInv == StandingTypes /\ (\E i \in Instances : SC!Open = {i}) /\ WarningsInv

-----------------------------------------------------------------------------
(* A step is one service's, and the clock never goes back. *)

LEMMA ClockForward ==
  ASSUME now \in Nat, [Next]_vars
  PROVE  now' \in Nat /\ now <= now'
<1>1. KA!Next => now' = now \/ now' = now + 1
  BY ZenonT(60) DEF KA!Next, KA!CreateActivationCode, KA!Redeem, KA!Lookup, KA!LockHousehold,
     KA!MarkUsedAndRevoke, KA!InsertDevice, KA!Commit, KA!Rollback, KA!Revoke, KA!Advance
<1>2. SC!Next => now' = now \/ now' = now + 1
  BY ZenonT(60) DEF SC!Next, SC!Claim, SC!Close, SC!RunOnce, SC!Tick, SC!ClaimWarnings, SC!ClearClaimWarning,
     SC!SweepExpiredClaims, SC!EmitClaimWarning, SC!EmitClaimExpiry, SC!Crash, SC!Advance
<1>3. PP!Next => now' = now \/ now' = now + 1
  BY DEF PP!Next, PP!Lock, PP!Check, PP!Commit, PP!Fail, PP!Upload, PP!CheckPolicy,
     PP!CompleteAndAward, PP!GiveUp, PP!Retain, PP!Advance
<1>4. now' = now \/ now' = now + 1
  BY <1>1, <1>2, <1>3 DEF Next, vars
<1> QED BY <1>4

LEMMA Turns ==
  ASSUME [Next]_vars
  PROVE  /\ scene' = scene
         /\ SF!Next \/ UNCHANGED sf
         /\ \/ KA!Next /\ scene = "kiosk"
            \/ UNCHANGED ka /\ (scene = "kiosk" => UNCHANGED now)
         /\ \/ SC!Next /\ scene = "standing"
            \/ UNCHANGED sc /\ (scene = "standing" => UNCHANGED now)
         /\ \/ PP!Next /\ scene = "proofs"
            \/ UNCHANGED pp /\ (scene = "proofs" => UNCHANGED now)
         /\ CS!Next \/ UNCHANGED cs
         /\ SU!Next \/ UNCHANGED su
<1>1. CASE UNCHANGED vars
  BY <1>1 DEF vars
<1>2. CASE Next
  <2>1. scene' = scene
    BY <1>2 DEF Next
  <2>2. CASE scene = "factor" /\ SF!Next /\ UNCHANGED <<now, ka, sc, pp, cd, cs, su>>
    BY <2>1, <2>2
  <2>3. CASE scene = "kiosk" /\ KA!Next /\ UNCHANGED <<sf, sc, pp, cd, cs, su>>
    BY <2>1, <2>3
  <2>4. CASE scene = "standing" /\ SC!Next /\ UNCHANGED <<sf, ka, pp, cd, cs, su>>
    BY <2>1, <2>4
  <2>5. CASE scene = "proofs" /\ PP!Next /\ UNCHANGED <<sf, ka, sc, cd, cs, su>>
    BY <2>1, <2>5
  <2>6. CASE scene = "cadence" /\ CD!Next /\ UNCHANGED <<sf, now, ka, sc, pp, cs, su>>
    BY <2>1, <2>6
  <2>7. CASE scene = "sync" /\ CS!Next /\ UNCHANGED <<sf, now, ka, sc, pp, cd, su>>
    BY <2>1, <2>7
  <2>8. CASE scene = "supplies" /\ SU!Next /\ UNCHANGED <<sf, now, ka, sc, pp, cd, cs>>
    BY <2>1, <2>8
  <2> QED BY <1>2, <2>2, <2>3, <2>4, <2>5, <2>6, <2>7, <2>8 DEF Next
<1> QED BY <1>1, <1>2

-----------------------------------------------------------------------------
(* The pantry. *)

LEMMA PantryInit == Init => PantryInv
<1> SUFFICES ASSUME Init PROVE PantryInv
  OBVIOUS
<1>1. stock = Stock /\ moved = 0 /\ cook = [u \in Cooks |-> SU!AtRest]
  BY DEF Init, SU!Init
<1>2. Stock = Stock + 0
  BY SuppliesAssumption DEF SuppliesAssumption
<1>3. SU!AtRest \in [pc : {"idle", "update"}, delta : Int, read : Int] /\ SU!AtRest.pc = "idle"
  BY DEF SU!AtRest
<1> QED BY <1>1, <1>2, <1>3, SuppliesAssumption DEF PantryInv, SuppliesAssumption

LEMMA PantryNext == PantryInv /\ [Next]_vars => PantryInv'
<1> SUFFICES ASSUME PantryInv, [Next]_vars PROVE PantryInv'
  OBVIOUS
<1>1. ASSUME UNCHANGED <<stock, cook, moved>> PROVE PantryInv'
  BY <1>1 DEF PantryInv
<1>2. ASSUME NEW u \in Cooks, NEW delta \in SU!Deltas, SU!LoadQuantity(u, delta) PROVE PantryInv'
  <2>1. delta \in Int
    BY DEF SU!Deltas
  <2> QED BY <1>2, <2>1 DEF PantryInv, SU!LoadQuantity, SU!HoldsItem, SU!Permitted
<1>3. ASSUME NEW u \in Cooks, SU!StoreQuantity(u) PROVE PantryInv'
  BY <1>3, SuppliesAssumption DEF PantryInv, SU!StoreQuantity, SU!AtRest, SuppliesAssumption
<1>4. ASSUME NEW u \in Cooks, SU!FailQuantity(u) PROVE PantryInv'
  BY <1>4 DEF PantryInv, SU!FailQuantity, SU!AtRest
<1>5. UNCHANGED su => UNCHANGED <<stock, cook, moved>>
  BY DEF su
<1>6. ASSUME NEW s \in Runs, \/ SU!Begin(s) \/ SU!Notify(s) \/ SU!Fail(s)
                             \/ \E line \in SU!Lines : SU!AddIfAbsent(s, line)
      PROVE  UNCHANGED <<stock, cook, moved>>
  BY <1>6 DEF SU!Begin, SU!Notify, SU!Fail, SU!AddIfAbsent
<1>7. ASSUME NEW i \in Entries, \/ SU!MarkInCart(i)
                                \/ \E status \in SU!Statuses : SU!TransitionStatus(i, status)
      PROVE  UNCHANGED <<stock, cook, moved>>
  BY <1>7 DEF SU!MarkInCart, SU!TransitionStatus
<1> QED BY <1>1, <1>2, <1>3, <1>4, <1>5, <1>6, <1>7, Turns DEF SU!Next

\* What the pantry holds is what it held at first and what the answered requests
\* moved, however many run at once.
THEOREM NoLostUpdate == Spec => []PantryAddsUp
<1>1. PantryInv => PantryAddsUp
  BY DEF PantryInv, PantryAddsUp, SU!PantryAddsUp
<1> QED BY <1>1, PantryInit, PantryNext, PTL DEF Spec

-----------------------------------------------------------------------------
(* The shopping list. *)

LEMMA ListInit == Init => ListInv
<1> SUFFICES ASSUME Init PROVE ListInv
  OBVIOUS
<1>1. /\ entry = [i \in Entries |-> SU!NoEntry] /\ notices = [i \in Entries |-> 0]
      /\ run = [s \in Runs |-> SU!Idle]
  BY DEF Init, SU!Init
<1>2. ~SU!IsOpen(SU!NoEntry)
  BY DEF SU!IsOpen, SU!NoEntry
<1>3. SU!Idle.pc = "idle" /\ SU!Idle \in [pc : {"idle", "add", "notify"}, todo : SUBSET SU!Lines,
                                          added : Entries \cup {None}]
  BY DEF SU!Idle
<1> QED BY <1>1, <1>2, <1>3 DEF ListInv, ListTypes

\* The record a pass goes on with once a line has been dealt with.
LEMMA DoneTyped ==
  ASSUME ListInv, NEW s \in Runs, NEW line
  PROVE  /\ SU!Done(s, line) \in [pc : {"idle", "add", "notify"}, todo : SUBSET SU!Lines,
                                  added : Entries \cup {None}]
         /\ SU!Done(s, line).pc # "notify"
<1>1. run[s].todo \in SUBSET SU!Lines
  BY DEF ListInv, ListTypes
<1>2. SU!Idle = [pc |-> "idle", todo |-> {}, added |-> None]
  BY DEF SU!Idle
<1> QED BY <1>1, <1>2 DEF SU!Done

\* A step that adds no entry and gives no run a notice.
LEMMA RunsOn ==
  ASSUME ListInv, NEW s \in Runs, UNCHANGED <<entry, notices>>,
         NEW r \in [pc : {"idle", "add", "notify"}, todo : SUBSET SU!Lines,
                    added : Entries \cup {None}],
         r.pc # "notify", run' = [run EXCEPT ![s] = r]
  PROVE  ListInv'
<1>1. ListTypes'
  BY DEF ListInv, ListTypes
<1>2. \A z \in Runs : run'[z] = IF z = s THEN r ELSE run[z]
  BY DEF ListInv, ListTypes
<1> QED BY <1>1, <1>2 DEF ListInv, SU!IsOpen

LEMMA AddStep ==
  ASSUME ListInv, NEW s \in Runs, NEW line \in SU!Lines, SU!AddIfAbsent(s, line)
  PROVE  ListInv'
<1>1. SU!Idle \in [pc : {"idle", "add", "notify"}, todo : SUBSET SU!Lines,
                   added : Entries \cup {None}]
        /\ SU!Idle.pc # "notify"
  BY DEF SU!Idle
<1>2. CASE UNCHANGED entry /\ SU!Goto(s, SU!Done(s, line))
  BY <1>2, DoneTyped, RunsOn DEF SU!AddIfAbsent, SU!Goto
<1>3. ASSUME NEW i \in Entries, SU!OpenFor(line) = {}, entry[i] = SU!NoEntry,
             entry' = [entry EXCEPT ![i] = [line |-> line, status |-> "needed"]],
             NEW r, run' = [run EXCEPT ![s] = r],
             \/ r = SU!Idle \/ r = SU!Done(s, line)
             \/ r = [run[s] EXCEPT !.pc = "notify", !.added = i]
      PROVE  ListInv'
  <2>1. r \in [pc : {"idle", "add", "notify"}, todo : SUBSET SU!Lines,
               added : Entries \cup {None}]
    <3>1. run[s] \in [pc : {"idle", "add", "notify"}, todo : SUBSET SU!Lines,
                      added : Entries \cup {None}]
      BY DEF ListInv, ListTypes
    <3> QED BY <1>1, <1>3, <3>1, DoneTyped, ZenonT(60)
  <2>2. r.pc = "notify" => r.added = i
    <3>1. run[s] \in [pc : {"idle", "add", "notify"}, todo : SUBSET SU!Lines,
                      added : Entries \cup {None}]
      BY DEF ListInv, ListTypes
    <3> QED BY <1>1, <1>3, <3>1, DoneTyped
  <2>3. notices' = notices
    BY DEF SU!AddIfAbsent
  <2>4. \A z \in Runs : run'[z] = IF z = s THEN r ELSE run[z]
    BY <1>3 DEF ListInv, ListTypes
  <2>5. \A j \in Entries : entry'[j] = IF j = i THEN [line |-> line, status |-> "needed"]
                                       ELSE entry[j]
    BY <1>3 DEF ListInv, ListTypes
  <2>6. [line |-> line, status |-> "needed"] \in [line : SU!Lines, status : SU!Statuses]
    BY DEF SU!Statuses
  <2>7. [line |-> line, status |-> "needed"] # SU!NoEntry
    BY DEF SU!NoEntry
  <2>8. ListTypes'
    BY <1>3, <2>1, <2>3, <2>6 DEF ListInv, ListTypes
  <2>9. \A j \in Entries : SU!IsOpen(entry[j]) => entry[j].line # line
    BY <1>3 DEF SU!OpenFor
  <2>10. (\A j, k \in Entries : entry[j].line = entry[k].line
            /\ SU!IsOpen(entry[j]) /\ SU!IsOpen(entry[k]) => j = k)'
    BY <2>5, <2>9 DEF ListInv, SU!IsOpen
  <2>11. \A j \in Entries : notices'[j] <= 1 /\ (entry'[j] = SU!NoEntry => notices'[j] = 0)
    BY <2>3, <2>5, <2>7 DEF ListInv
  <2>12. notices[i] = 0 /\ \A z \in Runs : run[z].pc = "notify" => run[z].added # i
    BY <1>3 DEF ListInv
  <2>13. \A z \in Runs : run'[z].pc = "notify" =>
           /\ run'[z].added \in Entries
           /\ entry'[run'[z].added] # SU!NoEntry /\ notices'[run'[z].added] = 0
    BY <2>2, <2>3, <2>4, <2>5, <2>7, <2>12 DEF ListInv
  <2>14. \A y, z \in Runs : run'[y].pc = "notify" /\ run'[z].pc = "notify"
           /\ run'[y].added = run'[z].added => y = z
    BY <2>2, <2>4, <2>12 DEF ListInv
  <2> QED BY <2>8, <2>10, <2>11, <2>13, <2>14 DEF ListInv
<1> QED BY <1>2, <1>3 DEF SU!AddIfAbsent, SU!Goto

LEMMA NotifyEntryStep ==
  ASSUME ListInv, NEW s \in Runs, SU!Notify(s)
  PROVE  ListInv'
<1> DEFINE i == run[s].added
<1>1. /\ run[s].pc = "notify" /\ entry' = entry
      /\ notices' \in {notices, [notices EXCEPT ![i] = @ + 1]}
      /\ run' = [run EXCEPT ![s] = SU!Done(s, entry[i].line)]
  BY DEF SU!Notify, SU!Goto
<1> DEFINE r == SU!Done(s, entry[i].line)
<1>2. r \in [pc : {"idle", "add", "notify"}, todo : SUBSET SU!Lines, added : Entries \cup {None}]
        /\ r.pc # "notify"
  BY DoneTyped
<1> HIDE DEF r
<1>3. \A z \in Runs : run'[z] = IF z = s THEN r ELSE run[z]
  BY <1>1 DEF ListInv, ListTypes, r
<1>4. i \in Entries /\ entry[i] # SU!NoEntry /\ notices[i] = 0
  BY <1>1 DEF ListInv
<1>5. \A j \in Entries : notices'[j] = notices[j] \/ (j = i /\ notices'[j] = 1)
  <2>1. [notices EXCEPT ![i] = @ + 1] = [notices EXCEPT ![i] = 1]
    BY <1>4
  <2>2. notices \in [Entries -> Nat]
    BY DEF ListInv, ListTypes
  <2> QED BY <1>1, <1>4, <2>1, <2>2
<1>6. ListTypes'
  BY <1>1, <1>2, <1>4 DEF ListInv, ListTypes, r
<1>7. \A z \in Runs : z # s /\ run[z].pc = "notify" => run[z].added # i
  BY <1>1 DEF ListInv
<1> HIDE DEF i
<1>8. \A j \in Entries : notices'[j] <= 1 /\ (entry'[j] = SU!NoEntry => notices'[j] = 0)
  BY <1>1, <1>4, <1>5 DEF ListInv
<1>9. \A z \in Runs : run'[z].pc = "notify" =>
        /\ run'[z].added \in Entries
        /\ entry'[run'[z].added] # SU!NoEntry /\ notices'[run'[z].added] = 0
  BY <1>1, <1>2, <1>3, <1>5, <1>7 DEF ListInv
<1>10. \A y, z \in Runs : run'[y].pc = "notify" /\ run'[z].pc = "notify"
         /\ run'[y].added = run'[z].added => y = z
  BY <1>2, <1>3 DEF ListInv
<1>11. (\A j, k \in Entries : entry[j].line = entry[k].line
          /\ SU!IsOpen(entry[j]) /\ SU!IsOpen(entry[k]) => j = k)'
  BY <1>1 DEF ListInv, SU!IsOpen
<1> QED BY <1>6, <1>8, <1>9, <1>10, <1>11 DEF ListInv

\* A member's change of an entry's status.
LEMMA StatusStep ==
  ASSUME ListInv, NEW i \in Entries, entry[i] # SU!NoEntry, NEW status \in SU!Statuses,
         entry' = [entry EXCEPT ![i].status = status], UNCHANGED <<run, notices>>,
         SU!IsOpen(entry'[i]) => SU!OpenFor(entry[i].line) \subseteq {i}
  PROVE  ListInv'
<1>1. entry[i] \in [line : SU!Lines, status : SU!Statuses]
  BY DEF ListInv, ListTypes
<1> DEFINE e == [entry[i] EXCEPT !.status = status]
<1>2. e \in [line : SU!Lines, status : SU!Statuses] /\ e.line = entry[i].line
  BY <1>1
<1>3. e # SU!NoEntry
  BY <1>2 DEF SU!NoEntry, SU!Statuses
<1>4. entry' = [entry EXCEPT ![i] = e]
  OBVIOUS
<1> HIDE DEF e
<1>5. \A j \in Entries : entry'[j] = IF j = i THEN e ELSE entry[j]
  BY <1>4 DEF ListInv, ListTypes
<1>6. ListTypes'
  BY <1>2, <1>4 DEF ListInv, ListTypes
<1>7. \A j \in Entries : SU!IsOpen(e) /\ SU!IsOpen(entry[j]) /\ entry[j].line = e.line => j = i
  BY <1>2, <1>5 DEF SU!OpenFor
<1>8. (\A j, k \in Entries : entry[j].line = entry[k].line
         /\ SU!IsOpen(entry[j]) /\ SU!IsOpen(entry[k]) => j = k)'
  <2>1. \A j, k \in Entries : entry[j].line = entry[k].line
          /\ SU!IsOpen(entry[j]) /\ SU!IsOpen(entry[k]) => j = k
    BY DEF ListInv
  <2> QED BY ONLY <1>5, <1>7, <2>1 DEF SU!IsOpen
<1>9. \A j \in Entries : notices'[j] <= 1 /\ (entry'[j] = SU!NoEntry => notices'[j] = 0)
  BY <1>3, <1>5 DEF ListInv
<1>10. \A z \in Runs : run'[z].pc = "notify" =>
         /\ run'[z].added \in Entries
         /\ entry'[run'[z].added] # SU!NoEntry /\ notices'[run'[z].added] = 0
  BY <1>3, <1>5 DEF ListInv
<1>11. \A y, z \in Runs : run'[y].pc = "notify" /\ run'[z].pc = "notify"
         /\ run'[y].added = run'[z].added => y = z
  BY DEF ListInv
<1> QED BY <1>6, <1>8, <1>9, <1>10, <1>11 DEF ListInv

LEMMA ListNext == ListInv /\ [Next]_vars => ListInv'
<1> SUFFICES ASSUME ListInv, [Next]_vars PROVE ListInv'
  OBVIOUS
<1>1. ASSUME UNCHANGED <<entry, notices, run>> PROVE ListInv'
  BY <1>1 DEF ListInv, ListTypes, SU!IsOpen
<1>2. ASSUME NEW s \in Runs, SU!Begin(s) PROVE ListInv'
  <2>1. PICK todo \in (SUBSET Restocks) \cup (SUBSET Meals) :
          run' = [run EXCEPT ![s] = [SU!Idle EXCEPT !.pc = "add", !.todo = todo]]
    BY <1>2 DEF SU!Begin, SU!Goto
  <2>2. todo \in SUBSET SU!Lines
    BY DEF SU!Lines
  <2>3. UNCHANGED <<entry, notices>>
    BY <1>2 DEF SU!Begin
  <2> DEFINE r == [SU!Idle EXCEPT !.pc = "add", !.todo = todo]
  <2>4. r \in [pc : {"idle", "add", "notify"}, todo : SUBSET SU!Lines,
               added : Entries \cup {None}]
          /\ r.pc # "notify"
    BY <2>2 DEF SU!Idle
  <2>5. run' = [run EXCEPT ![s] = r]
    BY <2>1
  <2> HIDE DEF r
  <2> QED BY <2>3, <2>4, <2>5, RunsOn
<1>3. ASSUME NEW s \in Runs, SU!Fail(s) PROVE ListInv'
  <2>1. SU!Idle \in [pc : {"idle", "add", "notify"}, todo : SUBSET SU!Lines,
                     added : Entries \cup {None}]
          /\ SU!Idle.pc # "notify"
    BY DEF SU!Idle
  <2> QED BY <1>3, <2>1, DoneTyped, RunsOn DEF SU!Fail, SU!Goto
<1>4. ASSUME NEW i \in Entries, NEW status \in SU!Statuses, SU!TransitionStatus(i, status)
      PROVE  ListInv'
  <2>1. /\ entry[i] # SU!NoEntry /\ UNCHANGED <<run, notices>>
        /\ entry' = [entry EXCEPT ![i].status = status]
        /\ LET e == [entry[i] EXCEPT !.status = status]
           IN  SU!IsOpen(e) => SU!OpenFor(e.line) \subseteq {i}
    BY <1>4 DEF SU!TransitionStatus
  <2>2. entry[i] \in [line : SU!Lines, status : SU!Statuses]
    BY <2>1 DEF ListInv, ListTypes
  <2>3. entry'[i] = [entry[i] EXCEPT !.status = status] /\ entry'[i].line = entry[i].line
    BY <2>1, <2>2 DEF ListInv, ListTypes
  <2> QED BY <2>1, <2>3, StatusStep
<1>5. ASSUME NEW i \in Entries, SU!MarkInCart(i) PROVE ListInv'
  <2>1. /\ entry[i].status \in {"needed", "in_cart"} /\ UNCHANGED <<run, notices>>
        /\ entry' = [entry EXCEPT ![i].status = "in_cart"]
    BY <1>5 DEF SU!MarkInCart
  <2>2. entry[i] # SU!NoEntry /\ SU!IsOpen(entry[i]) /\ "in_cart" \in SU!Statuses
    BY <2>1 DEF SU!NoEntry, SU!IsOpen, SU!Statuses
  <2>3. SU!OpenFor(entry[i].line) \subseteq {i}
    BY <2>2 DEF SU!OpenFor, ListInv
  <2> QED BY <2>1, <2>2, <2>3, StatusStep
<1>6. ASSUME NEW u \in Cooks, \/ SU!StoreQuantity(u) \/ SU!FailQuantity(u)
                              \/ \E delta \in SU!Deltas : SU!LoadQuantity(u, delta)
      PROVE  UNCHANGED <<entry, notices, run>>
  BY <1>6 DEF SU!StoreQuantity, SU!FailQuantity, SU!LoadQuantity
<1>7. UNCHANGED su => UNCHANGED <<entry, notices, run>>
  BY DEF su
<1> QED BY <1>1, <1>2, <1>3, <1>4, <1>5, <1>6, <1>7, AddStep, NotifyEntryStep, Turns DEF SU!Next

\* However passes, planners and members interleave, and whatever is taken back
\* from the cart or from purchased, a line is open once and told once.
THEOREM OneOpenLine == Spec => []OneOpenEntry
<1>1. ListInv => OneOpenEntry
  <2> SUFFICES ASSUME ListInv PROVE OneOpenEntry
    OBVIOUS
  <2>1. ASSUME NEW i \in Entries, entry[i].line # None, entry[i].status # "purchased"
        PROVE  SU!IsOpen(entry[i])
    BY <2>1 DEF ListInv, ListTypes, SU!NoEntry, SU!Statuses, SU!IsOpen
  <2> QED BY <2>1 DEF ListInv, OneOpenEntry, SU!OneOpenEntry
<1> QED BY <1>1, ListInit, ListNext, PTL DEF Spec

-----------------------------------------------------------------------------
(* The kiosk's device. *)

KioskTab == [pc : {"idle", "lookup", "lock", "revoke", "insert", "commit"},
             code : KioskCodes \cup {None}, at : Nat, drop : SUBSET KA!Devices]

LEMMA KioskIdle == KA!Idle \in KioskTab /\ KA!Idle.pc = "idle" /\ KA!Idle.drop = {}
BY DEF KA!Idle, KioskTab

LEMMA KioskInit == Init => KioskInv
<1> SUFFICES ASSUME Init PROVE KioskInv
  OBVIOUS
<1>1. /\ now = 0 /\ code = [c \in KioskCodes |-> KA!NoCode]
      /\ device = [d \in KA!Devices |-> "absent"]
      /\ tab = [t \in Tabs |-> KA!Idle] /\ collisions = 0 /\ latest = None /\ revoked = {}
  BY DEF Init, KA!Init
<1>2. KA!NoCode.used = FALSE
        /\ KA!NoCode \in [expires : (0 .. KioskTime + TTL) \cup {None}, used : BOOLEAN]
  BY DEF KA!NoCode
<1>3. \A t \in Tabs : tab[t] = KA!Idle
  BY <1>1
<1>4. KioskTypes
  BY <1>1, <1>2, KioskIdle, KioskAssumption DEF KioskTypes, KioskTab, KioskAssumption
<1>5. RedeemersInv
  BY <1>3, KioskIdle DEF RedeemersInv, KA!HoldsCode, KA!HoldsHousehold
<1>6. ProvisionedInv
  BY <1>1, <1>2 DEF ProvisionedInv, KA!Active, KA!Devices
<1> QED BY <1>4, <1>5, <1>6 DEF KioskInv

\* A step of one redemption that leaves the codes and the devices alone: what it
\* moves on to may hold more only if no other redemption does.
LEMMA RedeemerMoves ==
  ASSUME KioskInv, NEW t \in Tabs, NEW r \in KioskTab, tab' = [tab EXCEPT ![t] = r],
         UNCHANGED <<scene, now, code, device, collisions, latest, revoked>>,
         r.pc # "idle" => r.code \in KioskCodes,
         r.pc \in {"lock", "revoke", "insert", "commit"} =>
           ~code[r.code].used /\ \A u \in Tabs \ {t} : ~KA!HoldsCode(u, r.code),
         r.pc \in {"revoke", "insert", "commit"} => \A u \in Tabs \ {t} : ~KA!HoldsHousehold(u),
         r.drop = IF r.pc \in {"insert", "commit"} THEN KA!Active ELSE {}
  PROVE  KioskInv'
<1>1. \A u \in Tabs : tab'[u] = IF u = t THEN r ELSE tab[u]
  BY DEF KioskInv, KioskTypes
<1>2. KA!Active' = KA!Active
  BY DEF KA!Active
<1>3. KioskTypes'
  BY DEF KioskInv, KioskTypes, KioskTab
<1>4. ProvisionedInv'
  BY <1>2 DEF KioskInv, ProvisionedInv
<1>5. RedeemersInv'
  <2>1. \A u \in Tabs : tab'[u].pc # "idle" => tab'[u].code \in KioskCodes
    BY <1>1 DEF KioskInv, RedeemersInv
  <2>2. (\A u \in Tabs : KA!HoldsCode(u, tab[u].code) => ~code[tab[u].code].used)'
    BY <1>1 DEF KioskInv, RedeemersInv, KA!HoldsCode
  <2>3. (\A u, v \in Tabs : KA!HoldsCode(u, tab[u].code) /\ KA!HoldsCode(v, tab[u].code) => u = v)'
    BY <1>1 DEF KioskInv, RedeemersInv, KA!HoldsCode
  <2>4. (\A u, v \in Tabs : KA!HoldsHousehold(u) /\ KA!HoldsHousehold(v) => u = v)'
    BY <1>1 DEF KioskInv, RedeemersInv, KA!HoldsHousehold
  <2>5. (\A u \in Tabs : tab[u].drop = IF tab[u].pc \in {"insert", "commit"} THEN KA!Active ELSE {})'
    BY <1>1, <1>2 DEF KioskInv, RedeemersInv
  <2> QED BY <2>1, <2>2, <2>3, <2>4, <2>5 DEF RedeemersInv
<1> QED BY <1>3, <1>4, <1>5 DEF KioskInv

\* A step of the tables that no redemption under way depends on.
LEMMA KioskRowsMove ==
  ASSUME KioskInv, KioskTypes', ProvisionedInv', UNCHANGED tab,
         \A c \in KioskCodes : code'[c].used = code[c].used,
         \A t \in Tabs : tab[t].pc \in {"insert", "commit"} => KA!Active' = KA!Active
  PROVE  KioskInv'
BY DEF KioskInv, RedeemersInv, KA!HoldsCode, KA!HoldsHousehold

LEMMA KioskCommitStep ==
  ASSUME KioskInv, UNCHANGED scene, NEW t \in Tabs, KA!Commit(t)
  PROVE  KioskInv'
<1> DEFINE c == tab[t].code
           d == <<c, t>>
<1>1. /\ tab[t].pc = "commit" /\ tab' = [tab EXCEPT ![t] = KA!Idle]
      /\ code' = [code EXCEPT ![c].used = TRUE]
      /\ device' = [x \in KA!Devices |-> IF x = d THEN "active"
                                         ELSE IF x \in tab[t].drop THEN "revoked" ELSE device[x]]
      /\ latest' = d
      /\ UNCHANGED <<now, collisions, revoked>>
  BY DEF KA!Commit, KA!Goto
<1>2. /\ c \in KioskCodes /\ ~code[c].used /\ d \in KA!Devices
      /\ tab[t].drop = KA!Active
  BY <1>1 DEF KioskInv, RedeemersInv, KA!HoldsCode, KA!Devices
<1>3. \A u \in Tabs : tab'[u] = IF u = t THEN KA!Idle ELSE tab[u]
  BY <1>1 DEF KioskInv, KioskTypes
<1>4. \A u \in Tabs : u # t => tab[u].pc \notin {"revoke", "insert", "commit"} /\ tab[u].drop = {}
  BY <1>1 DEF KioskInv, RedeemersInv, KA!HoldsHousehold
<1>5. \A b \in KioskCodes : code'[b].used = IF b = c THEN TRUE ELSE code[b].used
  BY <1>1, <1>2 DEF KioskInv, KioskTypes
<1>6. \A u \in Tabs : device[<<c, u>>] = "absent"
  <2>1. {u \in Tabs : device[<<c, u>>] # "absent"} = {}
    BY <1>2 DEF KioskInv, ProvisionedInv
  <2> QED BY <2>1
<1>7. \A x \in KA!Devices :
        device'[x] = IF x = d THEN "active"
                     ELSE IF device[x] = "active" THEN "revoked" ELSE device[x]
  BY <1>1, <1>2 DEF KA!Active
<1>8. KA!Active' = {d}
  BY <1>2, <1>7 DEF KA!Active
<1>9. \A b \in KioskCodes, u \in Tabs : <<b, u>> \in KA!Devices /\ (<<b, u>> = d <=> b = c /\ u = t)
  BY DEF KA!Devices
<1>10. KioskTypes'
  <2>1. code' \in [KioskCodes -> [expires : (0 .. KioskTime + TTL) \cup {None}, used : BOOLEAN]]
    BY <1>1, <1>2, ZenonT(60) DEF KioskInv, KioskTypes
  <2>2. device' \in [KA!Devices -> {"absent", "active", "revoked"}]
    BY <1>1 DEF KioskInv, KioskTypes
  <2>3. tab' \in [Tabs -> KioskTab]
    BY <1>1, KioskIdle DEF KioskInv, KioskTypes, KioskTab
  <2> QED BY <1>1, <2>1, <2>2, <2>3 DEF KioskInv, KioskTypes, KioskTab
<1>11. RedeemersInv'
  <2>1. \A u \in Tabs : tab'[u].pc # "idle" => tab'[u].code \in KioskCodes
    BY <1>3, KioskIdle DEF KioskInv, RedeemersInv
  <2>2. \A u \in Tabs : u # t => ~KA!HoldsCode(u, c)
    BY <1>1 DEF KioskInv, RedeemersInv, KA!HoldsCode
  <2>3. (\A u \in Tabs : KA!HoldsCode(u, tab[u].code) => ~code[tab[u].code].used)'
    <3> SUFFICES ASSUME NEW u \in Tabs,
                        tab'[u].pc \in {"lock", "revoke", "insert", "commit"}
                 PROVE  ~code'[tab'[u].code].used
      BY DEF KA!HoldsCode
    <3>1. u # t /\ tab'[u] = tab[u]
      BY <1>3, KioskIdle
    <3>2. KA!HoldsCode(u, tab[u].code) /\ tab[u].code # c
      BY <2>2, <3>1 DEF KA!HoldsCode
    <3>3. ~code[tab[u].code].used /\ tab[u].code \in KioskCodes
      BY <2>1, <3>1, <3>2 DEF KioskInv, RedeemersInv
    <3> QED BY <1>5, <3>1, <3>2, <3>3
  <2>4. (\A u, v \in Tabs : KA!HoldsCode(u, tab[u].code) /\ KA!HoldsCode(v, tab[u].code) => u = v)'
    BY <1>3, KioskIdle DEF KioskInv, RedeemersInv, KA!HoldsCode
  <2>5. (\A u, v \in Tabs : KA!HoldsHousehold(u) /\ KA!HoldsHousehold(v) => u = v)'
    BY <1>3, KioskIdle DEF KioskInv, RedeemersInv, KA!HoldsHousehold
  <2>6. (\A u \in Tabs : tab[u].drop = IF tab[u].pc \in {"insert", "commit"} THEN KA!Active ELSE {})'
    BY <1>3, <1>4, KioskIdle
  <2> QED BY <2>1, <2>3, <2>4, <2>5, <2>6 DEF RedeemersInv
<1>12. ProvisionedInv'
  <2>1. d \notin revoked /\ d # None
    <3>1. device[d] # "revoked"
      BY <1>6
    <3>2. d \in KioskCodes \X Tabs
      BY <1>2
    <3> QED BY <3>1, <3>2, NullAssumption DEF KioskInv, ProvisionedInv, NullAssumption
  <2>2. revoked' \subseteq {x \in KA!Devices : device'[x] = "revoked"}
    BY <1>1, <1>7, <2>1 DEF KioskInv, ProvisionedInv
  <2>3. ASSUME NEW b \in KioskCodes
        PROVE  IF code'[b].used
               THEN \E s \in Tabs : {u \in Tabs : device'[<<b, u>>] # "absent"} = {s}
               ELSE {u \in Tabs : device'[<<b, u>>] # "absent"} = {}
    <3>1. CASE b = c
      <4>1. {u \in Tabs : device'[<<b, u>>] # "absent"} = {t}
        <5>1. ASSUME NEW u \in Tabs PROVE device'[<<b, u>>] # "absent" <=> u = t
          BY <1>6, <1>7, <1>9, <3>1
        <5> QED BY <5>1
      <4> QED BY <1>5, <3>1, <4>1
    <3>2. CASE b # c
      <4>1. \A u \in Tabs : device'[<<b, u>>] # "absent" <=> device[<<b, u>>] # "absent"
        BY <1>7, <1>9, <3>2
      <4>2. {u \in Tabs : device'[<<b, u>>] # "absent"} = {u \in Tabs : device[<<b, u>>] # "absent"}
        BY <4>1
      <4>3. code'[b].used = code[b].used
        BY <1>5, <3>2
      <4>4. IF code[b].used
            THEN \E s \in Tabs : {u \in Tabs : device[<<b, u>>] # "absent"} = {s}
            ELSE {u \in Tabs : device[<<b, u>>] # "absent"} = {}
        BY DEF KioskInv, ProvisionedInv
      <4> QED BY ONLY <4>2, <4>3, <4>4
    <3> QED BY <3>1, <3>2
  <2>4. (\A b \in KioskCodes :
           IF code[b].used
           THEN \E s \in Tabs : {u \in Tabs : device[<<b, u>>] # "absent"} = {s}
           ELSE {u \in Tabs : device[<<b, u>>] # "absent"} = {})'
    BY <2>3
  <2>5. latest' \in KA!Devices /\ collisions' = 0
    BY <1>1, <1>2 DEF KioskInv, ProvisionedInv
  <2>6. KA!Active' = IF latest' = None \/ latest' \in revoked' THEN {} ELSE {latest'}
    BY <1>1, <1>8, <2>1
  <2> QED BY <2>2, <2>4, <2>5, <2>6 DEF ProvisionedInv, KA!Devices
<1> QED BY <1>10, <1>11, <1>12 DEF KioskInv

LEMMA KioskNext == KioskInv /\ [Next]_vars => KioskInv'
<1> SUFFICES ASSUME KioskInv, [Next]_vars PROVE KioskInv'
  OBVIOUS
<1>1. scene' = scene
  BY Turns
<1>2. CASE UNCHANGED ka /\ (scene = "kiosk" => UNCHANGED now)
  <2>1. UNCHANGED <<code, device, tab, collisions, latest, revoked>>
    BY <1>2 DEF ka
  <2>2. KA!Active' = KA!Active
    BY <2>1 DEF KA!Active
  <2>3. KioskTypes' /\ ProvisionedInv'
    BY <1>1, <1>2, <2>1, <2>2 DEF KioskInv, KioskTypes, ProvisionedInv
  <2> QED BY <2>1, <2>2, <2>3, KioskRowsMove
<1>3. ASSUME NEW c \in KioskCodes, scene = "kiosk", KA!CreateActivationCode(c) PROVE KioskInv'
  <2>1. /\ code[c] = KA!NoCode /\ code' = [code EXCEPT ![c].expires = now + TTL]
        /\ UNCHANGED <<now, device, tab, collisions, latest, revoked>>
    BY <1>3 DEF KA!CreateActivationCode
  <2>2. now + TTL \in 0 .. KioskTime + TTL
    BY <1>3, KioskAssumption DEF KioskInv, KioskTypes, KioskAssumption
  <2>3. KioskTypes'
    BY <1>1, <2>1, <2>2 DEF KioskInv, KioskTypes
  <2>4. \A b \in KioskCodes : code'[b].used = code[b].used
    BY <2>1 DEF KioskInv, KioskTypes
  <2>5. KA!Active' = KA!Active
    BY <2>1 DEF KA!Active
  <2>6. ProvisionedInv'
    BY <2>1, <2>4, <2>5 DEF KioskInv, ProvisionedInv
  <2> QED BY <2>1, <2>3, <2>4, <2>5, <2>6, KioskRowsMove
<1>4. ASSUME NEW t \in Tabs, NEW c \in KioskCodes, scene = "kiosk", KA!Redeem(t, c)
      PROVE  KioskInv'
  <2> DEFINE r == [KA!Idle EXCEPT !.pc = "lookup", !.code = c, !.at = now]
  <2>1. now \in Nat
    BY <1>4, KioskAssumption DEF KioskInv, KioskTypes, KioskAssumption
  <2>2. r \in KioskTab /\ r.pc = "lookup" /\ r.code = c /\ r.drop = {}
    BY <2>1 DEF KioskTab, KA!Idle
  <2>3. /\ tab' = [tab EXCEPT ![t] = r]
        /\ UNCHANGED <<now, code, device, collisions, latest, revoked>>
    BY <1>4 DEF KA!Redeem, KA!Goto
  <2> HIDE DEF r
  <2> QED BY <1>1, <2>2, <2>3, RedeemerMoves
<1>5. ASSUME NEW t \in Tabs, KA!Rollback(t) PROVE KioskInv'
  BY <1>1, <1>5, KioskIdle, RedeemerMoves DEF KA!Rollback, KA!Goto
<1>6. ASSUME NEW t \in Tabs, KA!Lookup(t) PROVE KioskInv'
  <2>1. /\ tab[t].pc = "lookup" /\ KA!LocksCode(t)
        /\ UNCHANGED <<now, code, device, collisions, latest, revoked>>
    BY <1>6 DEF KA!Lookup
  <2>2. tab[t] \in KioskTab /\ tab[t].code \in KioskCodes /\ tab[t].drop = {}
    BY <2>1 DEF KioskInv, KioskTypes, KioskTab, RedeemersInv
  <2>3. CASE tab' = [tab EXCEPT ![t] = KA!Idle]
    BY <1>1, <2>1, <2>3, KioskIdle, RedeemerMoves
  <2>4. CASE ~code[tab[t].code].used /\ tab' = [tab EXCEPT ![t] = [tab[t] EXCEPT !.pc = "lock"]]
    <3> DEFINE r == [tab[t] EXCEPT !.pc = "lock"]
    <3>1. r \in KioskTab /\ r.pc = "lock" /\ r.code = tab[t].code /\ r.drop = {}
      BY <2>2 DEF KioskTab
    <3> HIDE DEF r
    <3>2. tab' = [tab EXCEPT ![t] = r]
      BY <2>4 DEF r
    <3> QED BY <1>1, <2>1, <2>2, <2>4, <3>1, <3>2, RedeemerMoves DEF KA!LocksCode
  <2> QED BY <1>6, <2>3, <2>4 DEF KA!Lookup, KA!Goto
<1>7. ASSUME NEW t \in Tabs, NEW pc \in {"revoke", "insert", "commit"},
             NEW r, r = [tab[t] EXCEPT !.pc = pc, !.drop = IF pc = "revoke" THEN {} ELSE KA!Active],
             tab[t].pc \in {"lock", "revoke", "insert"},
             tab' = [tab EXCEPT ![t] = r],
             \A u \in Tabs \ {t} : ~KA!HoldsHousehold(u),
             UNCHANGED <<now, code, device, collisions, latest, revoked>>
      PROVE  KioskInv'
  <2>1. tab[t] \in KioskTab /\ tab[t].code \in KioskCodes /\ KA!HoldsCode(t, tab[t].code)
    BY <1>7 DEF KioskInv, KioskTypes, KioskTab, RedeemersInv, KA!HoldsCode
  <2>2. KA!Active \in SUBSET KA!Devices
    BY DEF KA!Active
  <2>3. /\ r \in KioskTab /\ r.pc = pc /\ r.code = tab[t].code
        /\ r.drop = IF pc = "revoke" THEN {} ELSE KA!Active
    BY <1>7, <2>1, <2>2 DEF KioskTab
  <2>4. /\ ~code[tab[t].code].used
        /\ \A u \in Tabs \ {t} : ~KA!HoldsCode(u, tab[t].code)
    BY <2>1 DEF KioskInv, RedeemersInv
  <2> QED BY <1>1, <1>7, <2>1, <2>3, <2>4, RedeemerMoves, ZenonT(60)
<1>8. ASSUME NEW t \in Tabs, KA!LockHousehold(t) PROVE KioskInv'
  <2>1. tab[t].pc = "lock" /\ tab' = [tab EXCEPT ![t] = [tab[t] EXCEPT !.pc = "revoke"]]
    BY <1>8 DEF KA!LockHousehold, KA!Goto
  <2>2. tab[t] \in KioskTab /\ tab[t].drop = {}
    BY <2>1 DEF KioskInv, KioskTypes, KioskTab, RedeemersInv
  <2>3. [tab[t] EXCEPT !.pc = "revoke"] = [tab[t] EXCEPT !.pc = "revoke", !.drop = {}]
    BY <2>2 DEF KioskTab
  <2>4. "revoke" \in {"revoke", "insert", "commit"}
    OBVIOUS
  <2> QED BY <1>7, <1>8, <2>1, <2>3, <2>4 DEF KA!LockHousehold, KA!LocksHousehold
<1>9. ASSUME NEW t \in Tabs, KA!MarkUsedAndRevoke(t) PROVE KioskInv'
  <2>1. \A u \in Tabs \ {t} : ~KA!HoldsHousehold(u)
    BY <1>9 DEF KA!MarkUsedAndRevoke, KioskInv, RedeemersInv, KA!HoldsHousehold
  <2> QED BY <1>7, <1>9, <2>1 DEF KA!MarkUsedAndRevoke, KA!Goto
<1>10. ASSUME NEW t \in Tabs, KA!InsertDevice(t) PROVE KioskInv'
  <2>1. /\ tab[t].pc = "insert" /\ UNCHANGED <<now, code, device, latest, revoked>>
        /\ tab[t] \in KioskTab /\ tab[t].drop = KA!Active
    BY <1>10 DEF KA!InsertDevice, KioskInv, KioskTypes, KioskTab, RedeemersInv
  <2>2. tab' = [tab EXCEPT ![t] = [tab[t] EXCEPT !.pc = "commit"]] /\ UNCHANGED collisions
    BY <1>10, <2>1 DEF KA!InsertDevice, KA!Goto
  <2>3. [tab[t] EXCEPT !.pc = "commit"] = [tab[t] EXCEPT !.pc = "commit", !.drop = KA!Active]
    BY <2>1 DEF KioskTab
  <2>4. \A u \in Tabs \ {t} : ~KA!HoldsHousehold(u)
    BY <2>1 DEF KioskInv, RedeemersInv, KA!HoldsHousehold
  <2> QED BY <1>7, <2>1, <2>2, <2>3, <2>4
<1>11. ASSUME NEW d \in KA!Devices, KA!Revoke(d) PROVE KioskInv'
  <2>1. /\ device[d] = "active" /\ \A t \in Tabs : d \notin tab[t].drop
        /\ device' = [device EXCEPT ![d] = "revoked"] /\ revoked' = revoked \cup {d}
        /\ UNCHANGED <<now, code, tab, collisions, latest>>
    BY <1>11 DEF KA!Revoke, KA!HoldsDevice
  <2>2. KioskTypes'
    BY <1>1, <2>1 DEF KioskInv, KioskTypes
  <2>3. d \in KA!Active /\ \A t \in Tabs : tab[t].pc \notin {"insert", "commit"}
    BY <2>1 DEF KA!Active, KioskInv, RedeemersInv
  <2>4. \A x \in KA!Devices : device'[x] = IF x = d THEN "revoked" ELSE device[x]
    BY <2>1 DEF KioskInv, KioskTypes
  <2>5. KA!Active = {d} /\ latest = d
    BY <2>3 DEF KioskInv, ProvisionedInv
  <2>6. KA!Active' = {}
    BY <2>4, <2>5 DEF KA!Active
  <2>7. \A b \in KioskCodes : {u \in Tabs : device'[<<b, u>>] # "absent"}
                                = {u \in Tabs : device[<<b, u>>] # "absent"}
    BY <2>1, <2>4 DEF KA!Devices
  <2>8. ProvisionedInv'
    BY <2>1, <2>4, <2>5, <2>6, <2>7 DEF KioskInv, ProvisionedInv
  <2> QED BY <2>1, <2>2, <2>3, <2>8, KioskRowsMove
<1>12. ASSUME scene = "kiosk", KA!Advance PROVE KioskInv'
  <2>1. /\ now' = now + 1 /\ now < KioskTime
        /\ UNCHANGED <<code, device, tab, collisions, latest, revoked>>
    BY <1>12 DEF KA!Advance
  <2>2. now' \in 0 .. KioskTime
    BY <1>12, <2>1, KioskAssumption DEF KioskInv, KioskTypes, KioskAssumption
  <2>3. KA!Active' = KA!Active
    BY <2>1 DEF KA!Active
  <2>4. KioskTypes' /\ ProvisionedInv'
    BY <1>1, <2>1, <2>2, <2>3 DEF KioskInv, KioskTypes, ProvisionedInv
  <2> QED BY <2>1, <2>3, <2>4, KioskRowsMove
<1>13. CASE KA!Next /\ scene = "kiosk"
  BY <1>1, <1>3, <1>4, <1>5, <1>6, <1>8, <1>9, <1>10, <1>11, <1>12, <1>13, KioskCommitStep
     DEF KA!Next
<1> QED BY <1>2, <1>13, Turns

\* The instance counts with an operator of its own, of the same definition.
LEMMA KioskCount == \A S : KA!Cardinality(S) = Cardinality(S)
BY DEF KA!Cardinality, Cardinality

\* However redemptions race, fail and are revoked, the last device provisioned
\* is the one active, and a code provisions one device.
THEOREM OneKioskDevice == Spec => []OneDeviceStands
<1>1. KioskInv => OneDeviceStands
  <2> SUFFICES ASSUME KioskInv PROVE OneDeviceStands
    OBVIOUS
  <2>1. ASSUME NEW c \in KioskCodes
        PROVE  KA!Cardinality({t \in Tabs : device[<<c, t>>] # "absent"})
                 = IF code[c].used THEN 1 ELSE 0
    <3> DEFINE P == {t \in Tabs : device[<<c, t>>] # "absent"}
    <3>1. IF code[c].used THEN \E t \in Tabs : P = {t} ELSE P = {}
      BY DEF KioskInv, ProvisionedInv
    <3> HIDE DEF P
    <3>2. code[c].used => Cardinality(P) = 1
      BY <3>1, FS_Singleton
    <3>3. ~code[c].used => Cardinality(P) = 0
      BY <3>1, FS_EmptySet
    <3>4. KA!Cardinality(P) = IF code[c].used THEN 1 ELSE 0
      BY <3>2, <3>3, KioskCount
    <3> QED BY <3>4 DEF P
  <2> QED BY <2>1 DEF KioskInv, ProvisionedInv, OneDeviceStands, KA!OneDeviceStands
<1> QED BY <1>1, KioskInit, KioskNext, PTL DEF Spec

-----------------------------------------------------------------------------
(* Proof photos. *)

Shot == [pc : {"idle", "put", "check", "commit"}, kind : PP!Kinds \cup {None}, taken : Stamps]

LEMMA ShotIdle == PP!Idle \in Shot /\ PP!Idle.pc = "idle"
BY ProofAssumption DEF PP!Idle, Shot, Stamps, ProofAssumption

LEMMA ProofInit == Init => ProofInv
<1> SUFFICES ASSUME Init PROVE ProofInv
  OBVIOUS
<1>1. /\ now = 0 /\ proofs = {} /\ shot = [u \in Cameras |-> PP!Idle]
      /\ closing = "idle" /\ chore = "pending"
  BY DEF Init, PP!Init
<1>2. PP!ProofsInOrder
  BY <1>1 DEF PP!ProofsInOrder, PP!Times
<1> QED BY <1>1, <1>2, ShotIdle, ProofAssumption DEF ProofInv, Shot, ProofAssumption

\* An upload moves on, with the stored proofs as they are.
LEMMA UploadMoves ==
  ASSUME ProofInv, NEW u \in Cameras, NEW r \in Shot, shot' = [shot EXCEPT ![u] = r],
         UNCHANGED <<scene, now, proofs, closing, chore>>,
         r.pc # "idle" => r.kind \in PP!Kinds,
         r.pc \in {"check", "commit"} =>
           \A v \in Cameras \ {u} : shot[v].pc \notin {"check", "commit"},
         r.pc = "commit" => ~PP!OutOfOrder(r.kind, r.taken)
  PROVE  ProofInv'
<1>1. \A v \in Cameras : shot'[v] = IF v = u THEN r ELSE shot[v]
  BY DEF ProofInv
<1>2. shot' \in [Cameras -> Shot]
  BY DEF ProofInv, Shot
<1>3. \A kind, taken : PP!OutOfOrder(kind, taken)' <=> PP!OutOfOrder(kind, taken)
  BY DEF PP!OutOfOrder, PP!Times
<1>4. PP!ProofsInOrder'
  BY DEF ProofInv, PP!ProofsInOrder, PP!Times
<1>5. \A v \in Cameras : shot'[v].pc = "commit" => ~PP!OutOfOrder(shot'[v].kind, shot'[v].taken)
  BY <1>1 DEF ProofInv
<1>6. (\A v \in Cameras : shot[v].pc = "commit" => ~PP!OutOfOrder(shot[v].kind, shot[v].taken))'
  BY <1>3, <1>5 DEF PP!OutOfOrder, PP!Times
<1>7. \A v \in Cameras : shot'[v].pc # "idle" => shot'[v].kind \in PP!Kinds
  BY <1>1 DEF ProofInv
<1>8. \A v, w \in Cameras :
        shot'[v].pc \in {"check", "commit"} /\ shot'[w].pc \in {"check", "commit"} => v = w
  BY <1>1 DEF ProofInv
<1> QED BY <1>2, <1>4, <1>6, <1>7, <1>8 DEF ProofInv, Shot

\* The stored proofs lose some, or time passes.
LEMMA ProofsShrink ==
  ASSUME ProofInv, UNCHANGED <<scene, shot>>, proofs' \subseteq proofs,
         closing' \in {"idle", "award"}, chore' \in {"pending", "done"},
         scene = "proofs" => now' \in 0 .. ProofTime
  PROVE  ProofInv'
<1>1. \A kind : PP!Times(kind)' \subseteq PP!Times(kind)
  BY DEF PP!Times
<1>2. PP!ProofsInOrder'
  BY <1>1 DEF ProofInv, PP!ProofsInOrder
<1>3. \A kind, taken : PP!OutOfOrder(kind, taken)' => PP!OutOfOrder(kind, taken)
  BY <1>1 DEF PP!OutOfOrder
<1>4. (\A v \in Cameras : shot[v].pc = "commit" => ~PP!OutOfOrder(shot[v].kind, shot[v].taken))'
  BY <1>3 DEF ProofInv, PP!OutOfOrder, PP!Times
<1> QED BY <1>2, <1>4 DEF ProofInv

LEMMA ProofCommitStep ==
  ASSUME ProofInv, UNCHANGED scene, scene = "proofs", NEW u \in Cameras, PP!Commit(u)
  PROVE  ProofInv'
<1> DEFINE kind == shot[u].kind
           taken == shot[u].taken
<1>1. /\ shot[u].pc = "commit" /\ shot' = [shot EXCEPT ![u] = PP!Idle]
      /\ proofs' = proofs \cup {[kind |-> kind, taken |-> taken, at |-> now]}
      /\ UNCHANGED <<now, closing, chore>>
  BY DEF PP!Commit, PP!Quit
<1>2. kind \in PP!Kinds /\ taken \in Stamps /\ ~PP!OutOfOrder(kind, taken)
  BY <1>1 DEF ProofInv
<1>3. \A v \in Cameras : shot'[v] = IF v = u THEN PP!Idle ELSE shot[v]
  BY <1>1 DEF ProofInv
<1>4. \A v \in Cameras : shot'[v].pc \notin {"check", "commit"}
  BY <1>1, <1>3, ShotIdle DEF ProofInv
<1>5. shot' \in [Cameras -> Shot]
  BY <1>1, ShotIdle DEF ProofInv, Shot
<1>6. proofs' \subseteq [kind : PP!Kinds, taken : Stamps, at : 0 .. ProofTime]
  BY <1>1, <1>2 DEF ProofInv
<1>7. \A v \in Cameras : shot'[v].pc # "idle" => shot'[v].kind \in PP!Kinds
  BY <1>3, ShotIdle DEF ProofInv
<1>8. PP!ProofsInOrder'
  <2>1. \A k : PP!Times(k)' = IF k = kind THEN PP!Times(k) \cup {taken} ELSE PP!Times(k)
    <3> DEFINE row == [kind |-> kind, taken |-> taken, at |-> now]
    <3>1. proofs' = proofs \cup {row} /\ row.kind = kind /\ row.taken = taken
      BY <1>1
    <3> HIDE DEF row, kind, taken
    <3> SUFFICES ASSUME NEW k
                 PROVE  PP!Times(k)' = IF k = kind THEN PP!Times(k) \cup {taken} ELSE PP!Times(k)
      OBVIOUS
    <3>2. {r \in proofs' : r.kind = k} =
            IF k = kind THEN {r \in proofs : r.kind = k} \cup {row} ELSE {r \in proofs : r.kind = k}
      BY ONLY <3>1
    <3>3. CASE k = kind
      BY ONLY <3>1, <3>2, <3>3 DEF PP!Times
    <3>4. CASE k # kind
      BY ONLY <3>2, <3>4 DEF PP!Times
    <3> QED BY <3>3, <3>4
  <2>2. \A k : PP!Times(k) \subseteq Int
    BY ProofAssumption DEF ProofInv, PP!Times, Stamps, ProofAssumption
  <2>3. taken \in Int
    BY <1>2, ProofAssumption DEF Stamps, ProofAssumption
  <2>4. \A a \in PP!Times("after"), b \in PP!Times("before") : b <= a
    BY DEF ProofInv, PP!ProofsInOrder
  <2>5. kind \in {"before", "after"}
    BY <1>2 DEF PP!Kinds
  <2>6. /\ kind = "after" => \A b \in PP!Times("before") : ~(taken < b)
        /\ kind = "before" => \A a \in PP!Times("after") : ~(a < taken)
    BY <1>2 DEF PP!OutOfOrder
  <2> HIDE DEF kind, taken
  <2>7. \A a \in PP!Times("after")', b \in PP!Times("before")' : b <= a
    BY ONLY <2>1, <2>2, <2>3, <2>4, <2>5, <2>6
  <2> QED BY <2>7 DEF PP!ProofsInOrder
<1>9. /\ closing' \in {"idle", "award"} /\ chore' \in {"pending", "done"}
      /\ now' \in 0 .. ProofTime /\ scene' = scene
  BY <1>1 DEF ProofInv
<1>10. (\A v, w \in Cameras :
          shot[v].pc \in {"check", "commit"} /\ shot[w].pc \in {"check", "commit"} => v = w)'
  BY <1>4
<1>11. (\A v \in Cameras : shot[v].pc = "commit" => ~PP!OutOfOrder(shot[v].kind, shot[v].taken))'
  BY <1>4
<1> QED BY <1>5, <1>6, <1>7, <1>8, <1>9, <1>10, <1>11 DEF ProofInv, Shot

LEMMA ProofNext == ProofInv /\ [Next]_vars => ProofInv'
<1> SUFFICES ASSUME ProofInv, [Next]_vars PROVE ProofInv'
  OBVIOUS
<1>1. scene' = scene
  BY Turns
<1>2. CASE UNCHANGED pp /\ (scene = "proofs" => UNCHANGED now)
  <2>1. UNCHANGED <<proofs, shot, closing, chore>>
    BY <1>2 DEF pp
  <2> QED BY <1>1, <1>2, <2>1, ProofsShrink DEF ProofInv
<1>3. ASSUME NEW u \in Cameras, NEW k \in PP!Kinds, NEW taken \in 0 .. ProofTime + FreshFor,
             PP!Upload(u, k, taken)
      PROVE  ProofInv'
  <2> DEFINE r == [pc |-> "put", kind |-> k, taken |-> taken]
  <2>1. r \in Shot /\ r.pc = "put" /\ r.kind = k
    BY DEF Shot, Stamps
  <2>2. shot' = [shot EXCEPT ![u] = r] /\ UNCHANGED <<now, proofs, closing, chore>>
    BY <1>3 DEF PP!Upload
  <2> HIDE DEF r
  <2> QED BY <1>1, <2>1, <2>2, UploadMoves
<1>4. ASSUME NEW u \in Cameras, PP!Fail(u) PROVE ProofInv'
  BY <1>1, <1>4, ShotIdle, UploadMoves DEF PP!Fail, PP!Quit
<1>5. ASSUME NEW u \in Cameras, PP!Lock(u) PROVE ProofInv'
  <2> DEFINE r == [shot[u] EXCEPT !.pc = "check"]
  <2>1. /\ shot[u].pc = "put" /\ UNCHANGED <<now, proofs, closing, chore>>
        /\ shot' = [shot EXCEPT ![u].pc = "check"]
        /\ PP!Locks(shot[u].kind) =>
             \A v \in Cameras : ~(shot[v].pc \in {"check", "commit"} /\ PP!Locks(shot[v].kind))
    BY <1>5 DEF PP!Lock, PP!Goto
  <2>2. shot[u] \in Shot /\ shot[u].kind \in PP!Kinds
    BY <2>1 DEF ProofInv, Shot
  <2>3. \A v \in Cameras : shot[v].pc \notin {"check", "commit"}
    BY <2>1, <2>2 DEF ProofInv, PP!Locks
  <2>4. r \in Shot /\ r.pc = "check" /\ r.kind = shot[u].kind
    BY <2>2 DEF Shot
  <2>5. shot' = [shot EXCEPT ![u] = r]
    BY <2>1
  <2> HIDE DEF r
  <2> QED BY <1>1, <2>1, <2>2, <2>3, <2>4, <2>5, UploadMoves
<1>6. ASSUME NEW u \in Cameras, PP!Check(u) PROVE ProofInv'
  <2>1. shot[u].pc = "check" /\ UNCHANGED <<now, proofs, closing, chore>>
    BY <1>6 DEF PP!Check
  <2>2. CASE shot' = [shot EXCEPT ![u] = PP!Idle]
    BY <1>1, <2>1, <2>2, ShotIdle, UploadMoves
  <2>3. CASE /\ ~PP!OutOfOrder(shot[u].kind, shot[u].taken)
             /\ shot' = [shot EXCEPT ![u].pc = "commit"]
    <3> DEFINE r == [shot[u] EXCEPT !.pc = "commit"]
    <3>1. shot[u] \in Shot /\ shot[u].kind \in PP!Kinds
      BY <2>1 DEF ProofInv, Shot
    <3>2. r \in Shot /\ r.pc = "commit" /\ r.kind = shot[u].kind /\ r.taken = shot[u].taken
      BY <3>1 DEF Shot
    <3>3. shot' = [shot EXCEPT ![u] = r]
      BY <2>3
    <3>4. \A v \in Cameras \ {u} : shot[v].pc \notin {"check", "commit"}
      BY <2>1 DEF ProofInv
    <3> HIDE DEF r
    <3> QED BY <1>1, <2>1, <2>3, <3>1, <3>2, <3>3, <3>4, UploadMoves
  <2> QED BY <1>6, <2>2, <2>3 DEF PP!Check, PP!Goto, PP!Quit
<1>7. ASSUME PP!CheckPolicy \/ PP!CompleteAndAward \/ PP!GiveUp \/ PP!Retain PROVE ProofInv'
  <2>1. UNCHANGED <<now, shot>> /\ proofs' \subseteq proofs
    BY <1>7 DEF PP!CheckPolicy, PP!CompleteAndAward, PP!GiveUp, PP!Retain
  <2>2. closing' \in {"idle", "award"} /\ chore' \in {"pending", "done"}
    BY <1>7 DEF PP!CheckPolicy, PP!CompleteAndAward, PP!GiveUp, PP!Retain, ProofInv
  <2> QED BY <1>1, <2>1, <2>2, ProofsShrink DEF ProofInv
<1>8. ASSUME PP!Advance, scene = "proofs" PROVE ProofInv'
  <2>1. now' \in 0 .. ProofTime /\ UNCHANGED <<proofs, shot, closing, chore>>
    BY <1>8, ProofAssumption DEF PP!Advance, ProofInv, ProofAssumption
  <2> QED BY <1>1, <2>1, ProofsShrink DEF ProofInv
<1>9. CASE PP!Next /\ scene = "proofs"
  BY <1>1, <1>3, <1>4, <1>5, <1>6, <1>7, <1>8, <1>9, ProofCommitStep DEF PP!Next
<1> QED BY <1>2, <1>9, Turns

\* Whichever of a chore's photos is uploaded first and however their inserts
\* interleave, no after photo was taken before a before photo.
THEOREM PhotosInOrder == Spec => []ProofsInOrder
<1>1. ProofInv => ProofsInOrder
  BY DEF ProofInv, ProofsInOrder
<1> QED BY <1>1, ProofInit, ProofNext, PTL DEF Spec

-----------------------------------------------------------------------------
(* CalendarSync. *)

LEMMA PassIdle == CS!Idle \in Pass /\ CS!Idle.pc = "idle"
BY DEF CS!Idle, Pass

LEMMA SyncInit == Init => SyncInv
<1> SUFFICES ASSUME Init PROVE SyncInv
  OBVIOUS
<1>1. /\ remote = [e \in Events |-> [last |-> 0, state |-> "absent"]]
      /\ changes = 0 /\ oldest = 0 /\ hidden = {}
      /\ cursor = None /\ cache = [e \in Events |-> None]
      /\ pass = [y \in Syncers |-> CS!Idle]
  BY DEF Init, CS!Init
<1>2. 0 \in CS!Cursors
  BY SyncAssumption DEF SyncAssumption, CS!Cursors
<1>3. SyncTypes
  BY <1>1, <1>2, PassIdle DEF SyncTypes
<1>4. \A y \in Syncers : pass[y].pc = "idle"
  BY <1>1, PassIdle
<1> QED BY <1>1, <1>3, <1>4 DEF SyncInv, CoveredBy

\* The provider changes an event after all the cursors handed out, or shows
\* fewer events.
LEMMA ProviderMoves ==
  ASSUME SyncInv, SyncTypes', UNCHANGED <<cursor, cache, pass>>,
         hidden \subseteq hidden', changes <= changes',
         \A e \in Events : remote'[e] = remote[e] \/ remote'[e].last > changes
  PROVE  SyncInv'
<1>1. changes \in Nat /\ changes' \in Nat
  BY SyncAssumption DEF SyncInv, SyncTypes, SyncAssumption, CS!Cursors
<1>2. \A e \in Events : remote[e].last \in Nat /\ remote'[e].last \in Nat
  BY SyncAssumption DEF SyncInv, SyncTypes, SyncAssumption, CS!Cursors
<1>3. \A c \in 0 .. changes : c \in 0 .. changes'
  BY <1>1
<1>4. \A c \in 0 .. changes : \A e \in Events :
        remote'[e].last <= c => remote'[e] = remote[e]
  BY <1>1, <1>2
<1>5. \A e \in Events : remote'[e] = remote[e] => (Cached(e)' <=> Cached(e))
  BY DEF Cached
<1>6. \A c : CoveredBy(c) => CoveredBy(c)'
  BY <1>3, <1>4, <1>5 DEF CoveredBy
<1>7. CoveredBy(cursor)'
  BY <1>6 DEF SyncInv, CoveredBy, Cached
<1>8. ASSUME NEW y \in Syncers, pass[y].pc \in {"token", "persist", "list"}
      PROVE  (CoveredBy(pass[y].cursor) /\ CoveredBy(pass[y].read))'
  <2>1. CoveredBy(pass[y].cursor) /\ CoveredBy(pass[y].read)
    BY <1>8 DEF SyncInv
  <2> QED BY <2>1, <1>6 DEF CoveredBy, Cached
<1>9. ASSUME NEW y \in Syncers, pass[y].pc = "apply" PROVE Applying(pass[y])'
  <2>1. Applying(pass[y])
    BY <1>9 DEF SyncInv
  <2>2. pass[y].todo \subseteq ListedEvent /\ pass[y].next \in 0 .. changes
    BY <2>1 DEF Applying, SyncInv, SyncTypes, Pass
  <2>3. \A v \in pass[y].todo : v.event \in Events
    BY <2>2 DEF ListedEvent
  <2>4. \A e \in Events : remote'[e].last <= pass[y].next => remote'[e] = remote[e]
    BY <1>4, <2>2
  <2>5. \A v \in pass[y].todo : remote'[v.event].last <= pass[y].next =>
          v.last = remote'[v.event].last /\ v.state = remote'[v.event].state
    BY <2>1, <2>3, <2>4 DEF Applying
  <2>6. \A e \in Events \ hidden' : remote'[e].last <= pass[y].next =>
          Cached(e)' \/ \E v \in pass[y].todo : v.event = e
    BY <2>1, <2>4, <1>5 DEF Applying
  <2>7. pass[y].next \in 0 .. changes' /\ (cursor # None => cursor <= pass[y].next)
    BY <2>1, <2>2, <1>3 DEF Applying
  <2> QED BY <2>5, <2>6, <2>7 DEF Applying, Cached
<1> QED BY <1>7, <1>8, <1>9 DEF SyncInv

\* The one pass moves on, with the cursor perhaps.
LEMMA PassMoves ==
  ASSUME SyncInv, UNCHANGED <<remote, changes, oldest, hidden, cache>>,
         NEW y \in Syncers, NEW p \in Pass, pass' = [pass EXCEPT ![y] = p],
         cursor' \in CS!Cursors \cup {None}, CoveredBy(cursor'),
         p.pc \in {"token", "persist", "list"} => CoveredBy(p.cursor) /\ CoveredBy(p.read),
         p.pc = "apply" => Applying(p) /\ UNCHANGED cursor
  PROVE  SyncInv'
<1>1. SyncTypes'
  BY DEF SyncInv, SyncTypes
<1>2. CoveredBy(cursor)'
  BY DEF CoveredBy, Cached
<1>3. \A z \in Syncers : pass'[z] = p
  BY SyncAssumption DEF SyncAssumption, SyncInv, SyncTypes
<1>4. ASSUME NEW z \in Syncers, pass'[z].pc \in {"token", "persist", "list"}
      PROVE  (CoveredBy(pass[z].cursor) /\ CoveredBy(pass[z].read))'
  BY <1>3, <1>4 DEF CoveredBy, Cached
<1>5. ASSUME NEW z \in Syncers, pass'[z].pc = "apply" PROVE Applying(pass[z])'
  BY <1>3, <1>5 DEF Applying, Cached
<1> QED BY <1>1, <1>2, <1>4, <1>5 DEF SyncInv

LEMMA ListStep ==
  ASSUME SyncInv, NEW y \in Syncers, CS!ListEvents(y)
  PROVE  SyncInv'
<1> DEFINE since == IF pass[y].cursor # None /\ pass[y].cursor < oldest THEN None ELSE pass[y].cursor
           p == [pass[y] EXCEPT !.pc = "apply", !.todo = CS!Listed(since), !.next = changes]
<1>1. /\ pass[y].pc = "list" /\ pass' = [pass EXCEPT ![y] = p]
      /\ UNCHANGED <<remote, changes, oldest, hidden, cursor, cache>>
  BY DEF CS!ListEvents, CS!Goto
<1>2. CoveredBy(since) /\ CoveredBy(cursor)
  BY <1>1 DEF SyncInv, CoveredBy
<1>3. pass[y] \in Pass /\ changes \in CS!Cursors /\ changes \in Nat
  BY SyncAssumption DEF SyncInv, SyncTypes, SyncAssumption, CS!Cursors
<1>4. /\ \A e \in Events : remote[e].last \in Nat
      /\ \A e \in Events : remote[e].state # "absent" => remote[e].last \in CS!Changes
      /\ \A e \in Events : remote[e].state \in {"absent", "live", "cancelled", "malformed"}
  BY SyncAssumption DEF SyncInv, SyncTypes, SyncAssumption, CS!Cursors, CS!Changes
<1> HIDE DEF since
<1>5. CS!Listed(since) \subseteq ListedEvent
  <2> SUFFICES ASSUME NEW v \in CS!Listed(since) PROVE v \in ListedEvent
    OBVIOUS
  <2>1. PICK e \in Events : /\ remote[e].state # "absent"
                            /\ v = [event |-> e, last |-> remote[e].last, state |-> remote[e].state]
    BY DEF CS!Listed
  <2>2. remote[e].last \in CS!Changes /\ remote[e].state \in {"live", "cancelled", "malformed"}
    <3>1. remote[e].last \in CS!Changes
      BY <1>4, <2>1
    <3>2. remote[e].state \in {"live", "cancelled", "malformed"}
      BY <1>4, <2>1
    <3> QED BY <3>1, <3>2
  <2> QED BY ONLY <2>1, <2>2 DEF ListedEvent
<1>6. p \in Pass /\ p.pc = "apply" /\ p.todo = CS!Listed(since) /\ p.next = changes
  BY <1>3, <1>5 DEF Pass
<1>7. \A v \in CS!Listed(since) : v.last = remote[v.event].last /\ v.state = remote[v.event].state
  BY DEF CS!Listed
<1>8. ASSUME NEW e \in Events \ hidden
      PROVE  Cached(e) \/ \E v \in CS!Listed(since) : v.event = e
  <2>1. CASE remote[e].state = "absent"
    BY <2>1 DEF Cached
  <2>2. CASE since # None /\ remote[e].last <= since
    BY <1>2, <2>2 DEF CoveredBy
  <2>3. CASE remote[e].state # "absent" /\ ~(since # None /\ remote[e].last <= since)
    <3>1. since # None => since \in Int
      BY <1>2, <1>3 DEF CoveredBy
    <3>2. since # None => remote[e].last > since
      <4>1. remote[e].last \in Nat
        BY <1>4
      <4>2. since # None => ~(remote[e].last <= since)
        BY <2>3
      <4> QED BY ONLY <3>1, <4>1, <4>2
    <3>3. [event |-> e, last |-> remote[e].last, state |-> remote[e].state] \in CS!Listed(since)
      BY <2>3, <3>2 DEF CS!Listed
    <3> QED BY <3>3
  <2> QED BY <2>1, <2>2, <2>3
<1>9. changes \in 0 .. changes /\ (cursor # None => cursor <= changes)
  BY <1>2, <1>3 DEF CoveredBy
<1> HIDE DEF p
<1>10. Applying(p)
  BY <1>6, <1>7, <1>8, <1>9 DEF Applying
<1>11. cursor \in CS!Cursors \cup {None}
  BY DEF SyncInv, SyncTypes
<1> QED BY <1>1, <1>2, <1>6, <1>10, <1>11, PassMoves
LEMMA ApplyStep ==
  ASSUME SyncInv, NEW y \in Syncers, NEW v \in pass[y].todo, CS!ApplyEvent(y, v)
  PROVE  SyncInv'
<1> DEFINE p == [pass[y] EXCEPT !.todo = @ \ {v}]
<1>1. /\ pass[y].pc = "apply" /\ pass' = [pass EXCEPT ![y] = p]
      /\ UNCHANGED <<remote, changes, oldest, hidden, cursor>>
      /\ cache' = CASE v.state = "cancelled" -> [cache EXCEPT ![v.event] = None]
                    [] v.state = "malformed" -> cache
                    [] v.state = "live"      -> [cache EXCEPT ![v.event] = v.last]
  BY DEF CS!ApplyEvent, CS!Goto
<1>2. Applying(pass[y]) /\ pass[y] \in Pass /\ CoveredBy(cursor)
  BY <1>1 DEF SyncInv, SyncTypes
<1>3. v \in ListedEvent
  BY <1>2 DEF Pass
<1>4. /\ v.event \in Events /\ v.last \in CS!Changes
      /\ v.state \in {"live", "cancelled", "malformed"}
  BY <1>3 DEF ListedEvent
<1>5. cache \in [Events -> CS!Changes \cup {None}]
  BY DEF SyncInv, SyncTypes
<1>6. /\ cache' \in [Events -> CS!Changes \cup {None}]
      /\ \A e \in Events \ {v.event} : cache'[e] = cache[e]
      /\ v.state = "cancelled" => cache'[v.event] = None
      /\ v.state = "live" => cache'[v.event] = v.last
  <2>1. CASE v.state = "cancelled"
    BY <1>1, <1>4, <1>5, <2>1
  <2>2. CASE v.state = "malformed"
    BY <1>1, <1>4, <1>5, <2>2
  <2>3. CASE v.state = "live"
    BY <1>1, <1>4, <1>5, <2>3
  <2> QED BY <1>4, <2>1, <2>2, <2>3
<1>7. \A e \in Events \ {v.event} : Cached(e)' <=> Cached(e)
  BY <1>1, <1>6 DEF Cached
<1>8. remote[v.event].last <= pass[y].next => Cached(v.event)'
  <2>1. remote[v.event].last <= pass[y].next =>
          v.last = remote[v.event].last /\ v.state = remote[v.event].state
    BY <1>2 DEF Applying
  <2> QED BY <1>1, <1>4, <1>6, <2>1 DEF Cached
<1>9. p \in Pass /\ p.pc = "apply" /\ p.todo = pass[y].todo \ {v} /\ p.next = pass[y].next
  BY <1>1, <1>2 DEF Pass
<1> HIDE DEF p
<1>10. /\ p.next \in 0 .. changes' /\ (cursor' # None => cursor' <= p.next)
       /\ \A w \in p.todo : remote'[w.event].last <= p.next =>
            w.last = remote'[w.event].last /\ w.state = remote'[w.event].state
  BY <1>1, <1>2, <1>9 DEF Applying
<1>11. \A e \in Events \ hidden' : remote'[e].last <= p.next =>
         Cached(e)' \/ \E w \in p.todo : w.event = e
  BY <1>1, <1>2, <1>7, <1>8, <1>9 DEF Applying
<1>12. CoveredBy(cursor)'
  <2>1. \A e \in Events : remote[e].last \in Int
    BY DEF SyncInv, SyncTypes, CS!Cursors
  <2>2. pass[y].next \in Int
    BY <1>2 DEF Applying
  <2>3. cursor # None => cursor \in 0 .. changes /\ cursor <= pass[y].next
    BY <1>2 DEF Applying, CoveredBy
  <2>4. cursor # None => \A e \in Events : remote[e].last <= cursor => remote[e].last <= pass[y].next
    BY <2>1, <2>2, <2>3
  <2>5. cursor # None => \A e \in Events \ hidden : remote[e].last <= cursor => Cached(e)'
    BY <1>2, <1>7, <1>8, <2>4 DEF CoveredBy
  <2> QED BY <1>1, <2>3, <2>5 DEF CoveredBy, Cached
<1>13. \A z \in Syncers : pass'[z] = p
  BY <1>1, SyncAssumption DEF SyncAssumption, SyncInv, SyncTypes
<1>14. SyncTypes'
  BY <1>1, <1>6, <1>9 DEF SyncInv, SyncTypes
<1>15. ASSUME NEW z \in Syncers PROVE Applying(pass[z])'
  BY <1>10, <1>11, <1>13 DEF Applying, Cached
<1> QED BY <1>9, <1>12, <1>13, <1>14, <1>15 DEF SyncInv

LEMMA SyncNext == SyncInv /\ [Next]_vars => SyncInv'
<1> SUFFICES ASSUME SyncInv, [Next]_vars PROVE SyncInv'
  OBVIOUS
<1>1. CASE UNCHANGED cs
  <2>1. UNCHANGED <<remote, changes, oldest, hidden, cursor, cache, pass>>
    BY <1>1 DEF cs
  <2> QED BY <2>1 DEF SyncInv, SyncTypes, CoveredBy, Applying, Cached
<1>2. ASSUME NEW e \in Events, NEW state \in {"live", "cancelled", "malformed"}, CS!Change(e, state)
      PROVE  SyncInv'
  <2> DEFINE r == [last |-> changes + 1, state |-> state]
  <2>1. /\ changes < MaxChanges /\ changes' = changes + 1 /\ remote' = [remote EXCEPT ![e] = r]
        /\ UNCHANGED <<oldest, hidden, cursor, cache, pass>>
    BY <1>2 DEF CS!Change
  <2>2. changes \in Nat /\ changes' \in CS!Cursors /\ r.last \in CS!Cursors /\ r.last # 0
    BY <2>1, SyncAssumption DEF SyncInv, SyncTypes, SyncAssumption, CS!Cursors
  <2>3. \A x \in Events : remote[x].last \in Nat /\ remote[x].last <= changes
    BY SyncAssumption DEF SyncInv, SyncTypes, SyncAssumption, CS!Cursors
  <2>4. \A x \in Events : remote[x].last <= changes'
    BY <2>1, <2>2, <2>3
  <2>5. r.last = changes' /\ r.state \in {"absent", "live", "cancelled", "malformed"}
    BY <2>1
  <2>6. r \in [last : CS!Cursors, state : {"absent", "live", "cancelled", "malformed"}]
    BY <2>2
  <2> HIDE DEF r
  <2>7. \A x \in Events : remote'[x] = IF x = e THEN r ELSE remote[x]
    BY <2>1 DEF SyncInv, SyncTypes
  <2>8. changes <= changes' /\ changes' <= changes' /\ changes < changes'
    BY <2>1, <2>2
  <2>9. remote' \in [Events -> [last : CS!Cursors, state : {"absent", "live", "cancelled", "malformed"}]]
    BY <2>1, <2>6 DEF SyncInv, SyncTypes
  <2>10. \A x \in Events : /\ remote'[x].last <= changes'
                           /\ remote'[x].state # "absent" => remote'[x].last # 0
    BY <2>2, <2>4, <2>5, <2>7, <2>8 DEF SyncInv, SyncTypes
  <2>11. SyncTypes'
    BY <2>1, <2>2, <2>9, <2>10 DEF SyncInv, SyncTypes
  <2>12. \A x \in Events : remote'[x] = remote[x] \/ remote'[x].last > changes
    BY <2>2, <2>5, <2>7, <2>8
  <2> QED BY <2>1, <2>8, <2>11, <2>12, ProviderMoves
<1>3. ASSUME NEW e \in Events, CS!Hide(e) PROVE SyncInv'
  <2>1. hidden \subseteq hidden' /\ hidden' \subseteq Events
        /\ UNCHANGED <<remote, changes, oldest, cursor, cache, pass>>
    BY <1>3 DEF CS!Hide, SyncInv, SyncTypes
  <2>2. SyncTypes'
    BY <2>1 DEF SyncInv, SyncTypes
  <2>3. changes <= changes'
    BY <2>1 DEF SyncInv, SyncTypes, CS!Cursors
  <2> QED BY <2>1, <2>2, <2>3, ProviderMoves
<1>4. ASSUME CS!ExpireCursors PROVE SyncInv'
  <2>1. oldest' = changes /\ UNCHANGED <<remote, changes, hidden, cursor, cache, pass>>
    BY <1>4 DEF CS!ExpireCursors
  <2>2. SyncTypes'
    BY <2>1 DEF SyncInv, SyncTypes
  <2>3. changes <= changes'
    BY <2>1 DEF SyncInv, SyncTypes, CS!Cursors
  <2> QED BY <2>1, <2>2, <2>3, ProviderMoves
<1>5. ASSUME CS!Connect PROVE SyncInv'
  <2>1. cursor' = None /\ UNCHANGED <<remote, changes, oldest, hidden, cache, pass>>
    BY <1>5 DEF CS!Connect
  <2> QED BY <2>1 DEF SyncInv, SyncTypes, CoveredBy, Applying, Cached
<1>6. ASSUME NEW y \in Syncers, CS!RunOnce(y) PROVE SyncInv'
  <2> DEFINE p == [CS!Idle EXCEPT !.pc = "token", !.cursor = cursor]
  <2>1. pass' = [pass EXCEPT ![y] = p] /\ UNCHANGED <<remote, changes, oldest, hidden, cursor, cache>>
    BY <1>6 DEF CS!RunOnce, CS!Goto
  <2>2. cursor \in CS!Cursors \cup {None} /\ CoveredBy(cursor)
    BY DEF SyncInv, SyncTypes
  <2>3. p \in Pass /\ p.pc = "token" /\ p.cursor = cursor /\ p.read = None
    BY <2>2, PassIdle DEF Pass, CS!Idle
  <2>4. CoveredBy(None)
    BY DEF CoveredBy
  <2> HIDE DEF p
  <2> QED BY <2>1, <2>2, <2>3, <2>4, PassMoves
<1>7. ASSUME NEW y \in Syncers, CS!ValidAccessToken(y) PROVE SyncInv'
  <2> DEFINE p == [pass[y] EXCEPT !.pc = "list"]
             q == [pass[y] EXCEPT !.pc = "persist", !.read = cursor]
  <2>1. /\ pass[y].pc = "token" /\ UNCHANGED <<remote, changes, oldest, hidden, cursor, cache>>
        /\ pass' = [pass EXCEPT ![y] = p] \/ pass' = [pass EXCEPT ![y] = q]
    BY <1>7 DEF CS!ValidAccessToken, CS!Goto
  <2>2. /\ cursor \in CS!Cursors \cup {None} /\ pass[y] \in Pass /\ CoveredBy(cursor)
        /\ CoveredBy(pass[y].cursor) /\ CoveredBy(pass[y].read)
    BY <2>1 DEF SyncInv, SyncTypes
  <2>3. p \in Pass /\ p.pc = "list" /\ p.cursor = pass[y].cursor /\ p.read = pass[y].read
    BY <2>2 DEF Pass
  <2>4. q \in Pass /\ q.pc = "persist" /\ q.cursor = pass[y].cursor /\ q.read = cursor
    BY <2>2 DEF Pass
  <2> HIDE DEF p, q
  <2>5. CASE pass' = [pass EXCEPT ![y] = p]
    BY <2>1, <2>2, <2>3, <2>5, PassMoves
  <2>6. CASE pass' = [pass EXCEPT ![y] = q]
    BY <2>1, <2>2, <2>4, <2>6, PassMoves
  <2> QED BY <2>1, <2>5, <2>6
<1>8. ASSUME NEW y \in Syncers, CS!UpdateSyncState(y) PROVE SyncInv'
  <2> DEFINE p == [pass[y] EXCEPT !.pc = "list", !.read = None]
  <2>1. /\ pass[y].pc = "persist" /\ UNCHANGED <<remote, changes, oldest, hidden, cache>>
        /\ cursor' = pass[y].read
        /\ pass' = [pass EXCEPT ![y] = p] \/ pass' = [pass EXCEPT ![y] = CS!Idle]
    BY <1>8 DEF CS!UpdateSyncState, CS!Goto
  <2>2. pass[y] \in Pass /\ CoveredBy(pass[y].cursor) /\ CoveredBy(pass[y].read)
    BY <2>1 DEF SyncInv, SyncTypes
  <2>3. p \in Pass /\ p.pc = "list" /\ p.cursor = pass[y].cursor /\ p.read = None
    BY <2>2 DEF Pass
  <2>4. CoveredBy(None) /\ cursor' \in CS!Cursors \cup {None} /\ CoveredBy(cursor')
    BY <2>1, <2>2 DEF CoveredBy, Pass
  <2> HIDE DEF p
  <2>5. CASE pass' = [pass EXCEPT ![y] = p]
    BY <2>1, <2>2, <2>3, <2>4, <2>5, PassMoves
  <2>6. CASE pass' = [pass EXCEPT ![y] = CS!Idle]
    BY <2>1, <2>4, <2>6, PassIdle, PassMoves
  <2> QED BY <2>1, <2>5, <2>6
<1>9. ASSUME NEW y \in Syncers, \/ CS!Fail(y) \/ \E v \in pass[y].todo : CS!FailEvent(y, v)
      PROVE  SyncInv'
  <2>1. /\ pass' = [pass EXCEPT ![y] = CS!Idle]
        /\ UNCHANGED <<remote, changes, oldest, hidden, cursor, cache>>
    BY <1>9 DEF CS!Fail, CS!FailEvent, CS!AbandonPass, CS!Goto
  <2>2. cursor \in CS!Cursors \cup {None} /\ CoveredBy(cursor)
    BY DEF SyncInv, SyncTypes
  <2> QED BY <2>1, <2>2, PassIdle, PassMoves
<1>10. ASSUME NEW y \in Syncers, CS!SetSyncToken(y) PROVE SyncInv'
  <2>1. /\ pass[y].pc = "apply" /\ pass[y].todo = {} /\ cursor' = pass[y].next
        /\ pass' = [pass EXCEPT ![y] = CS!Idle]
        /\ UNCHANGED <<remote, changes, oldest, hidden, cache>>
    BY <1>10 DEF CS!SetSyncToken, CS!Goto
  <2>2. Applying(pass[y]) /\ pass[y] \in Pass
    BY <2>1 DEF SyncInv, SyncTypes
  <2>3. cursor' \in CS!Cursors \cup {None} /\ CoveredBy(cursor')
    BY <2>1, <2>2 DEF Pass, Applying, CoveredBy
  <2> QED BY <2>1, <2>3, PassIdle, PassMoves
<1>11. CASE CS!Next
  BY <1>2, <1>3, <1>4, <1>5, <1>6, <1>7, <1>8, <1>9, <1>10, <1>11, ListStep, ApplyStep DEF CS!Next
<1> QED BY <1>1, <1>11, Turns

\* Whatever has not changed since the sync cursor is cached as it is, or gone
\* from the cache when it was deleted, whichever pass failed on the way and
\* whatever reconnects and refreshes came between.
THEOREM CursorIsCovered == Spec => []CacheCoversCursor
<1>1. SyncInv => CacheCoversCursor
  BY DEF SyncInv, CoveredBy, Cached, CacheCoversCursor, CS!CacheCoversCursor
<1> QED BY <1>1, SyncInit, SyncNext, PTL DEF Spec

-----------------------------------------------------------------------------
(* SecondFactor. *)

LEMMA FactorIdle == SF!Idle \in Request /\ SF!Idle.pc = "idle" /\ Sound(SF!Idle)
BY DEF SF!Idle, Request, Sound, SignIn

LEMMA CodesApart ==
  /\ \A c \in SF!Codes : \A k, n : c # <<"totp", k, n>>
  /\ \A c \in SF!Codes : c[1] \in Nat
<1>1. \A c \in SF!Codes : c[1] \in Nat
  BY FactorAssumption DEF FactorAssumption, SF!Codes
<1>2. \A c \in SF!Codes : \A k, n : c # <<"totp", k, n>>
  BY DEF SF!Codes
<1> QED BY <1>1, <1>2

LEMMA FactorInit == Init => FactorInv
<1> SUFFICES ASSUME Init PROVE FactorInv
  OBVIOUS
<1>1. /\ enrol = SF!NoRow /\ devices = {} /\ req = [r \in Requests |-> SF!Idle]
      /\ codes = [c \in SF!Codes |-> "absent"]
      /\ secrets = 0 /\ batches = 0 /\ confirmed = {} /\ shown = {}
      /\ accepted = [p \in SF!Codes \cup SF!TotpCodes |-> 0]
  BY DEF Init, SF!Init
<1>2. FactorTypes
  BY <1>1 DEF FactorTypes, SF!NoRow
<1>3. EnrolmentInv
  BY <1>1 DEF EnrolmentInv, SF!NoRow, SF!Stored
<1>4. CodesInv
  BY <1>1 DEF CodesInv
<1>5. TotpInv
  <2>1. \A k \in Secrets, n \in Steps : <<"totp", k, n>> \in SF!TotpCodes
    BY DEF SF!TotpCodes
  <2>2. \A k \in Secrets, n \in Steps : accepted[<<"totp", k, n>>] = 0
    BY <1>1, <2>1
  <2>3. enrol.secret = None
    BY <1>1 DEF SF!NoRow
  <2> QED BY <2>2, <2>3 DEF TotpInv
<1>6. RequestsInv
  BY <1>1, FactorIdle DEF RequestsInv
<1> QED BY <1>2, <1>3, <1>4, <1>5, <1>6 DEF FactorInv, TablesInv

\* A request moves on; secrets may have been generated.
LEMMA RequestMoves ==
  ASSUME FactorInv, NEW r \in Requests, NEW q \in Request, Sound(q),
         req' = [req EXCEPT ![r] = q], secrets' \in Nat, secrets <= secrets'
  PROVE  RequestsInv'
<1>1. \A z \in Requests : req'[z] = IF z = r THEN q ELSE req[z]
  BY DEF FactorInv, RequestsInv
<1>2. \A z \in Requests : Sound(req'[z])
  BY <1>1 DEF FactorInv, RequestsInv
<1>3. secrets \in Nat /\ Secrets \subseteq Nat
  BY FactorAssumption DEF FactorInv, TablesInv, FactorTypes, FactorAssumption
<1>4. \A k \in Secrets : k <= secrets => k <= secrets'
  BY <1>3
<1>5. \A z \in Requests : Sound(req[z])'
  BY <1>2, <1>4 DEF Sound, SignIn
<1>6. req' \in [Requests -> Request]
  BY DEF FactorInv, RequestsInv
<1> QED BY <1>5, <1>6 DEF RequestsInv

LEMMA TablesStand ==
  ASSUME FactorInv, UNCHANGED <<enrol, codes, devices, secrets, batches, confirmed, accepted, shown>>
  PROVE  TablesInv'
BY DEF FactorInv, TablesInv, FactorTypes, EnrolmentInv, CodesInv, TotpInv, SF!Stored

LEMMA BeginStep ==
  ASSUME FactorInv, NEW r \in Requests, SF!BeginEnrollment(r)
  PROVE  FactorInv'
<1>1. /\ secrets + 1 \in Secrets /\ ~enrol.confirmed /\ secrets' = secrets + 1
      /\ enrol' = [enrol EXCEPT !.secret = secrets + 1]
      /\ UNCHANGED <<codes, devices, req, batches, confirmed, accepted, shown>>
  BY DEF SF!BeginEnrollment
<1>2. secrets \in Nat /\ secrets' \in Nat /\ secrets < secrets' /\ Secrets \subseteq Nat
      /\ secrets' \in Secrets /\ secrets' # None
  BY <1>1, FactorAssumption, NullAssumption
     DEF FactorInv, TablesInv, FactorTypes, FactorAssumption, NullAssumption
<1>3. /\ enrol.secret \in Secrets \cup {None} /\ enrol.step \in {0} \cup Steps
      /\ enrol'.secret = secrets' /\ enrol'.step = enrol.step /\ ~enrol'.confirmed
      /\ enrol' \in [secret : Secrets \cup {None}, confirmed : BOOLEAN, step : {0} \cup Steps]
  BY <1>1, <1>2 DEF FactorInv, TablesInv, FactorTypes
<1>4. devices = {} /\ shown = {} /\ \A k \in confirmed : k \in Nat /\ k <= secrets
  BY <1>1, <1>2 DEF FactorInv, TablesInv, FactorTypes, EnrolmentInv
<1>5. FactorTypes'
  BY <1>1, <1>2, <1>3 DEF FactorInv, TablesInv, FactorTypes
<1>6. \A k \in confirmed : k <= secrets'
  BY <1>2, <1>4
<1>7. EnrolmentInv'
  BY <1>1, <1>2, <1>3, <1>4, <1>6 DEF EnrolmentInv
<1>8. CodesInv'
  BY <1>1 DEF FactorInv, TablesInv, CodesInv, SF!Stored
<1>9. \A k \in Secrets : k >= secrets' => k > secrets
  BY <1>2
<1>10. \A k \in Secrets, n \in Steps : k >= secrets' => accepted'[<<"totp", k, n>>] = 0
  BY <1>1, <1>9 DEF FactorInv, TablesInv, TotpInv
<1>11. \A k \in Secrets : k > secrets' => k >= secrets'
  BY <1>2
<1>12. \A n \in Steps : accepted'[<<"totp", enrol'.secret, n>>] = 0
  BY <1>2, <1>3, <1>10
<1>13. TotpInv'
  BY <1>10, <1>11, <1>12 DEF TotpInv
<1>14. RequestsInv'
  <2>1. \A k \in Secrets : k <= secrets => k <= secrets'
    BY <1>2
  <2> QED BY <1>1, <2>1 DEF FactorInv, RequestsInv, Sound, SignIn
<1> QED BY <1>5, <1>7, <1>8, <1>13, <1>14 DEF FactorInv, TablesInv

\* A new batch replaces the codes in drop.
LEMMA BatchAdded ==
  ASSUME FactorInv, NEW drop \in SUBSET SF!Codes, batches' = batches + 1,
         codes' = SF!Replaced(drop, SF!Fresh), UNCHANGED accepted,
         shown' \subseteq SF!Codes, \A c \in shown' : c \in SF!Fresh \/ (c \in shown /\ c \notin drop)
  PROVE  /\ CodesInv'
         /\ codes' \in [SF!Codes -> {"absent", "unused", "used"}] /\ batches' \in Nat
<1>1. batches \in Nat /\ batches' \in Nat
  BY DEF FactorInv, TablesInv, FactorTypes
<1>2. \A c \in SF!Codes : codes[c] \in {"absent", "unused", "used"}
  BY DEF FactorInv, TablesInv, FactorTypes
<1>3. \A c \in SF!Codes : codes'[c] = IF c \in SF!Fresh THEN "unused"
                                      ELSE IF c \in drop THEN "absent" ELSE codes[c]
  BY DEF SF!Replaced
<1>4. codes' \in [SF!Codes -> {"absent", "unused", "used"}]
  BY <1>2 DEF SF!Replaced
<1>5. \A c \in SF!Codes : c \in SF!Fresh => c[1] > batches /\ ~(c[1] > batches')
  BY <1>1, CodesApart DEF SF!Fresh
<1>6. \A c \in SF!Codes : c[1] > batches' => c[1] > batches
  BY <1>1, CodesApart
<1>7. \A c \in SF!Codes : /\ c[1] > batches => codes[c] = "absent" /\ accepted[c] = 0
                          /\ codes[c] = "unused" => accepted[c] = 0
                          /\ accepted[c] <= 1
  BY DEF FactorInv, TablesInv, CodesInv
<1>8. \A c \in SF!Codes : /\ c[1] > batches' => codes'[c] = "absent" /\ accepted'[c] = 0
                          /\ codes'[c] = "unused" => accepted'[c] = 0
                          /\ accepted'[c] <= 1
  BY <1>3, <1>5, <1>6, <1>7
<1>9. \A c \in shown : codes[c] # "absent"
  BY DEF FactorInv, TablesInv, CodesInv, SF!Stored
<1>10. \A c \in shown' : c \in SF!Codes /\ codes'[c] # "absent"
  BY <1>3, <1>9
<1>11. CodesInv'
  BY <1>8, <1>10 DEF CodesInv, SF!Stored
<1> QED BY <1>1, <1>4, <1>11

LEMMA ConfirmStep ==
  ASSUME FactorInv, NEW r \in Requests, SF!ConfirmEnrollmentWithCodes(r)
  PROVE  FactorInv'
<1>1. req' = [req EXCEPT ![r] = SF!Idle] /\ UNCHANGED <<devices, secrets, accepted>>
  BY DEF SF!ConfirmEnrollmentWithCodes, SF!Finish, SF!Goto
<1>2. secrets \in Nat /\ secrets <= secrets' /\ secrets' \in Nat
  BY <1>1 DEF FactorInv, TablesInv, FactorTypes
<1>3. RequestsInv'
  BY <1>1, <1>2, FactorIdle, RequestMoves
<1>4. CASE UNCHANGED <<batches, enrol, codes, confirmed, shown>>
  BY <1>1, <1>3, <1>4, TablesStand DEF FactorInv
<1>5. CASE /\ enrol.secret # None /\ ~enrol.confirmed
           /\ batches' = batches + 1
           /\ enrol' = [enrol EXCEPT !.confirmed = TRUE]
           /\ codes' = SF!Replaced(SF!Stored, SF!Fresh)
           /\ confirmed' = confirmed \cup {enrol.secret}
           /\ shown' = shown \cup SF!Fresh
  <2>1. devices = {} /\ shown = {} /\ enrol.secret = secrets /\ enrol.secret \in Secrets
    BY <1>5 DEF FactorInv, TablesInv, FactorTypes, EnrolmentInv
  <2>2. SF!Stored \in SUBSET SF!Codes /\ SF!Fresh \subseteq SF!Codes
    BY DEF SF!Stored, SF!Fresh
  <2>3. /\ CodesInv'
        /\ codes' \in [SF!Codes -> {"absent", "unused", "used"}] /\ batches' \in Nat
    BY <1>1, <1>5, <2>1, <2>2, BatchAdded
  <2>4. /\ enrol'.secret = enrol.secret /\ enrol'.step = enrol.step /\ enrol'.confirmed
        /\ enrol' \in [secret : Secrets \cup {None}, confirmed : BOOLEAN, step : {0} \cup Steps]
    BY <1>5 DEF FactorInv, TablesInv, FactorTypes
  <2>5. FactorTypes'
    BY <1>1, <1>5, <2>1, <2>2, <2>3, <2>4 DEF FactorInv, TablesInv, FactorTypes
  <2>6. \A k \in confirmed' : k <= secrets'
    BY <1>1, <1>2, <1>5, <2>1 DEF FactorInv, TablesInv, EnrolmentInv
  <2>7. EnrolmentInv'
    BY <1>1, <1>5, <2>1, <2>4, <2>6 DEF EnrolmentInv
  <2>8. TotpInv'
    BY <1>1, <2>4 DEF FactorInv, TablesInv, TotpInv
  <2> QED BY <1>3, <2>3, <2>5, <2>7, <2>8 DEF FactorInv, TablesInv
<1> QED BY <1>4, <1>5 DEF SF!ConfirmEnrollmentWithCodes, SF!Confirmable

LEMMA RegenerateStep ==
  ASSUME FactorInv, NEW r \in Requests, SF!InsertRecoveryCodes(r)
  PROVE  FactorInv'
<1>1. req' = [req EXCEPT ![r] = SF!Idle] /\ UNCHANGED <<enrol, devices, secrets, confirmed, accepted>>
  BY DEF SF!InsertRecoveryCodes, SF!Finish, SF!Goto
<1>2. secrets \in Nat /\ secrets <= secrets' /\ secrets' \in Nat
  BY <1>1 DEF FactorInv, TablesInv, FactorTypes
<1>3. RequestsInv'
  BY <1>1, <1>2, FactorIdle, RequestMoves
<1>4. CASE UNCHANGED <<batches, codes, shown>>
  BY <1>1, <1>3, <1>4, TablesStand DEF FactorInv
<1>5. CASE /\ enrol.secret # None /\ batches' = batches + 1
           /\ codes' = SF!Replaced(req[r].drop, SF!Fresh)
           /\ shown' = IF enrol.confirmed THEN (shown \ req[r].drop) \cup SF!Fresh ELSE shown
  <2>1. req[r].drop \in SUBSET SF!Codes /\ SF!Fresh \subseteq SF!Codes /\ shown \subseteq SF!Codes
    BY DEF FactorInv, TablesInv, FactorTypes, RequestsInv, Request, SF!Fresh
  <2>2. ~enrol.confirmed => shown = {}
    BY DEF FactorInv, TablesInv, EnrolmentInv
  <2>3. shown' \subseteq SF!Codes
    BY <1>5, <2>1
  <2>4. \A c \in shown' : c \in SF!Fresh \/ (c \in shown /\ c \notin req[r].drop)
    BY <1>5, <2>2
  <2>5. /\ CodesInv'
        /\ codes' \in [SF!Codes -> {"absent", "unused", "used"}] /\ batches' \in Nat
    BY <1>1, <1>5, <2>1, <2>3, <2>4, BatchAdded
  <2>6. FactorTypes'
    BY <1>1, <2>3, <2>5 DEF FactorInv, TablesInv, FactorTypes
  <2>7. ~enrol.confirmed => shown' = {}
    BY <1>5, <2>2
  <2>8. EnrolmentInv'
    BY <1>1, <1>5, <2>7 DEF FactorInv, TablesInv, EnrolmentInv
  <2>9. TotpInv'
    BY <1>1 DEF FactorInv, TablesInv, TotpInv
  <2> QED BY <1>3, <2>5, <2>6, <2>8, <2>9 DEF FactorInv, TablesInv
<1> QED BY <1>4, <1>5 DEF SF!InsertRecoveryCodes

LEMMA VerifyStep ==
  ASSUME FactorInv, NEW r \in Requests, SF!VerifyLoginCode(r)
  PROVE  FactorInv'
<1> DEFINE attempt == [SF!Idle EXCEPT !.for = "login", !.secret = enrol.secret, !.since = confirmed]
           listing == [attempt EXCEPT !.pc = "list"]
<1>1. /\ enrol.confirmed
      /\ UNCHANGED <<enrol, codes, devices, secrets, batches, confirmed, accepted, shown>>
      /\ \/ req' = [req EXCEPT ![r] = listing]
         \/ \E n \in Steps : req' = [req EXCEPT ![r] = [attempt EXCEPT !.pc = "record", !.step = n]]
  BY DEF SF!VerifyLoginCode, SF!Goto
<1>2. enrol.secret # None
  <2>1. enrol.secret = None => enrol = SF!NoRow
    BY DEF FactorInv, TablesInv, EnrolmentInv
  <2>2. SF!NoRow.confirmed = FALSE
    BY DEF SF!NoRow
  <2>3. enrol.confirmed
    BY <1>1
  <2> QED BY ONLY <2>1, <2>2, <2>3
<1>3. /\ enrol.secret = secrets /\ enrol.secret \in Secrets /\ secrets \in Nat
      /\ \A k \in confirmed : k <= enrol.secret
      /\ confirmed \in SUBSET Secrets
  BY <1>2 DEF FactorInv, TablesInv, FactorTypes, EnrolmentInv
<1>4. attempt \in Request /\ attempt.secret = enrol.secret /\ attempt.since = confirmed
  BY <1>3 DEF Request, SF!Idle
<1>5. secrets' \in Nat /\ secrets <= secrets' /\ enrol.secret <= secrets
  <2>1. UNCHANGED secrets
    BY <1>1
  <2> QED BY ONLY <1>3, <2>1
<1> HIDE DEF attempt
<1>6. listing \in Request /\ listing.pc = "list" /\ listing.secret = enrol.secret
      /\ listing.since = confirmed
  BY <1>4 DEF Request
<1> HIDE DEF listing
<1>7. Sound(listing)
  BY <1>3, <1>5, <1>6 DEF Sound
<1>8. CASE req' = [req EXCEPT ![r] = listing]
  BY <1>1, <1>5, <1>6, <1>7, <1>8, RequestMoves, TablesStand DEF FactorInv
<1>9. ASSUME NEW n \in Steps, req' = [req EXCEPT ![r] = [attempt EXCEPT !.pc = "record", !.step = n]]
      PROVE  FactorInv'
  <2> DEFINE q == [attempt EXCEPT !.pc = "record", !.step = n]
  <2>1. q \in Request /\ q.pc = "record" /\ q.secret = enrol.secret /\ q.since = confirmed /\ q.step = n
    BY <1>4 DEF Request
  <2>2. req' = [req EXCEPT ![r] = q]
    BY <1>9
  <2> HIDE DEF q
  <2>3. Sound(q)
    BY <1>3, <1>5, <2>1 DEF Sound
  <2> QED BY <1>1, <1>5, <2>1, <2>2, <2>3, RequestMoves, TablesStand DEF FactorInv
<1> QED BY <1>1, <1>8, <1>9

LEMMA RecordStep ==
  ASSUME FactorInv, NEW r \in Requests, SF!RecordLoginStep(r)
  PROVE  FactorInv'
<1> DEFINE n == req[r].step
           k == req[r].secret
           q == [req[r] EXCEPT !.pc = "remember"]
<1>1. req[r].pc = "record" /\ UNCHANGED <<codes, devices, secrets, batches, confirmed, shown>>
  BY DEF SF!RecordLoginStep, SF!At
<1>2. req[r] \in Request /\ Sound(req[r])
  BY DEF FactorInv, RequestsInv
<1>3. /\ n \in Steps /\ k \in Secrets /\ k <= secrets
      /\ \A z \in req[r].since : z <= k
  BY <1>1, <1>2 DEF Sound, SignIn
<1>4. /\ secrets \in Nat /\ Secrets \subseteq Nat /\ Steps \subseteq Nat
      /\ secrets' \in Nat /\ secrets <= secrets'
  BY <1>1, FactorAssumption DEF FactorInv, TablesInv, FactorTypes, FactorAssumption
<1>5. q \in Request /\ q.pc = "remember" /\ q.secret = k /\ q.since = req[r].since
  BY <1>2 DEF Request
<1>6. CASE req' = [req EXCEPT ![r] = SF!Idle] /\ UNCHANGED <<enrol, accepted>>
  BY <1>1, <1>4, <1>6, FactorIdle, RequestMoves, TablesStand DEF FactorInv
<1>7. CASE /\ enrol.secret # None /\ enrol.step < n /\ enrol' = [enrol EXCEPT !.step = n]
           /\ accepted' = [accepted EXCEPT ![<<"totp", k, n>>] = @ + 1]
           /\ req' = [req EXCEPT ![r] = q]
  <2>1. /\ enrol'.secret = enrol.secret /\ enrol'.confirmed = enrol.confirmed /\ enrol'.step = n
        /\ enrol' \in [secret : Secrets \cup {None}, confirmed : BOOLEAN, step : {0} \cup Steps]
        /\ enrol.secret = secrets /\ enrol.secret \in Secrets /\ enrol.step \in Nat
    BY <1>3, <1>4, <1>7 DEF FactorInv, TablesInv, FactorTypes, EnrolmentInv
  <2>2. <<"totp", k, n>> \in SF!TotpCodes
    BY <1>3 DEF SF!TotpCodes
  <2>3. /\ accepted \in [SF!Codes \cup SF!TotpCodes -> Nat]
        /\ accepted' \in [SF!Codes \cup SF!TotpCodes -> Nat]
        /\ \A p \in SF!Codes \cup SF!TotpCodes :
             accepted'[p] = IF p = <<"totp", k, n>> THEN accepted[p] + 1 ELSE accepted[p]
    BY <1>7, <2>2 DEF FactorInv, TablesInv, FactorTypes
  <2>4. \A c \in SF!Codes : accepted'[c] = accepted[c]
    BY <2>3, CodesApart
  <2>5. \A j \in Secrets, m \in Steps : <<"totp", j, m>> \in SF!TotpCodes
    BY DEF SF!TotpCodes
  <2>6. \A j \in Secrets, m \in Steps :
          accepted'[<<"totp", j, m>>] = IF j = k /\ m = n THEN accepted[<<"totp", j, m>>] + 1
                                        ELSE accepted[<<"totp", j, m>>]
    BY <2>3, <2>5
  <2>7. FactorTypes'
    BY <1>1, <2>1, <2>3 DEF FactorInv, TablesInv, FactorTypes
  <2>8. EnrolmentInv'
    <3>1. enrol'.secret # None
      BY <1>7, <2>1
    <3> QED BY <1>1, <2>1, <3>1 DEF FactorInv, TablesInv, EnrolmentInv
  <2>9. CodesInv'
    BY <1>1, <2>4 DEF FactorInv, TablesInv, CodesInv, SF!Stored
  <2>10. \A j \in Secrets, m \in Steps : j > secrets => accepted'[<<"totp", j, m>>] = 0
    <3>1. \A j \in Secrets : j > secrets => j # k
      BY <1>3, <1>4
    <3> QED BY <2>6, <3>1 DEF FactorInv, TablesInv, TotpInv
  <2>11. ASSUME NEW m \in Steps
         PROVE  /\ accepted'[<<"totp", enrol.secret, m>>] <= 1
                /\ m > n => accepted'[<<"totp", enrol.secret, m>>] = 0
    <3> DEFINE a == accepted[<<"totp", enrol.secret, m>>]
    <3>1. a <= 1 /\ (m > enrol.step => a = 0)
      BY <1>7 DEF FactorInv, TablesInv, TotpInv
    <3>2. accepted'[<<"totp", enrol.secret, m>>] = IF enrol.secret = k /\ m = n THEN a + 1 ELSE a
      BY <2>1, <2>6
    <3>3. m \in Nat /\ n \in Nat /\ enrol.step \in Nat /\ enrol.step < n
      BY <1>3, <1>4, <1>7, <2>1
    <3> HIDE DEF a, n, k
    <3> QED BY ONLY <3>1, <3>2, <3>3
  <2>12. TotpInv'
    BY <1>1, <2>1, <2>10, <2>11 DEF TotpInv
  <2>13. Sound(q)
    BY <1>3, <1>5 DEF Sound
  <2>14. RequestsInv'
    <3> HIDE DEF q
    <3> QED BY <1>4, <1>5, <1>7, <2>13, RequestMoves
  <2> QED BY <2>7, <2>8, <2>9, <2>12, <2>14 DEF FactorInv, TablesInv
<1> QED BY <1>6, <1>7 DEF SF!RecordLoginStep, SF!StepIsNew, SF!Goto, SF!Finish

LEMMA MarkStep ==
  ASSUME FactorInv, NEW r \in Requests, SF!MarkRecoveryCodeUsed(r)
  PROVE  FactorInv'
<1> DEFINE c == req[r].code
           q == [req[r] EXCEPT !.pc = IF req[r].for = "login" THEN "remember" ELSE "revoke"]
<1>1. req[r].pc = "mark" /\ UNCHANGED <<enrol, devices, secrets, batches, confirmed, shown>>
  BY DEF SF!MarkRecoveryCodeUsed, SF!At
<1>2. req[r] \in Request /\ Sound(req[r])
  BY DEF FactorInv, RequestsInv
<1>3. c \in SF!Codes /\ secrets \in Nat /\ secrets' \in Nat /\ secrets <= secrets'
  BY <1>1, <1>2 DEF Sound, FactorInv, TablesInv, FactorTypes
<1>4. CASE req' = [req EXCEPT ![r] = SF!Idle] /\ UNCHANGED <<codes, accepted>>
  BY <1>1, <1>3, <1>4, FactorIdle, RequestMoves, TablesStand DEF FactorInv
<1>5. CASE /\ codes[c] = "unused" /\ codes' = [codes EXCEPT ![c] = "used"]
           /\ accepted' = [accepted EXCEPT ![c] = @ + 1]
           /\ req' = [req EXCEPT ![r] = q]
  <2>1. /\ q \in Request /\ q.pc = IF req[r].for = "login" THEN "remember" ELSE "revoke"
        /\ q.secret = req[r].secret /\ q.since = req[r].since
    BY <1>2 DEF Request
  <2>2. q.pc \in {"remember", "revoke"} /\ (q.pc = "remember" => req[r].for = "login")
    BY <2>1
  <2>3. Sound(q)
    <3> HIDE DEF q
    <3> QED BY <1>1, <1>2, <2>1, <2>2 DEF Sound, SignIn
  <2>4. RequestsInv'
    <3> HIDE DEF q
    <3> QED BY <1>3, <1>5, <2>1, <2>3, RequestMoves
  <2> HIDE DEF q
  <2>5. /\ codes' \in [SF!Codes -> {"absent", "unused", "used"}]
        /\ \A d \in SF!Codes : codes'[d] = IF d = c THEN "used" ELSE codes[d]
    BY <1>3, <1>5 DEF FactorInv, TablesInv, FactorTypes
  <2>6. /\ accepted' \in [SF!Codes \cup SF!TotpCodes -> Nat]
        /\ \A d \in SF!Codes \cup SF!TotpCodes :
             accepted'[d] = IF d = c THEN accepted[d] + 1 ELSE accepted[d]
    BY <1>3, <1>5 DEF FactorInv, TablesInv, FactorTypes
  <2>7. \A k \in Secrets, n \in Steps : /\ <<"totp", k, n>> \in SF!TotpCodes
                                        /\ <<"totp", k, n>> # c
    BY <1>3, CodesApart, SMTT(30) DEF SF!TotpCodes
  <2>8. \A k \in Secrets, n \in Steps : accepted'[<<"totp", k, n>>] = accepted[<<"totp", k, n>>]
    BY <2>6, <2>7
  <2>9. FactorTypes'
    BY <1>1, <2>5, <2>6 DEF FactorInv, TablesInv, FactorTypes
  <2>10. EnrolmentInv'
    <3>1. c \in SF!Stored
      BY <1>3, <1>5 DEF SF!Stored
    <3>2. enrol.secret # None
      BY <3>1 DEF FactorInv, TablesInv, EnrolmentInv
    <3> QED BY <1>1, <3>2 DEF FactorInv, TablesInv, EnrolmentInv
  <2>11. accepted[c] = 0 /\ ~(c[1] > batches)
    BY <1>3, <1>5 DEF FactorInv, TablesInv, CodesInv
  <2>12. \A d \in SF!Codes : d # c => accepted'[d] = accepted[d] /\ codes'[d] = codes[d]
    BY <2>5, <2>6
  <2>13. accepted'[c] = 1 /\ codes'[c] = "used"
    BY <1>3, <2>5, <2>6, <2>11
  <2>14. \A d \in SF!Codes : /\ d[1] > batches => codes[d] = "absent" /\ accepted[d] = 0
                             /\ codes[d] = "unused" => accepted[d] = 0
                             /\ accepted[d] <= 1
    BY DEF FactorInv, TablesInv, CodesInv
  <2>15. \A d \in SF!Codes : /\ d[1] > batches => codes'[d] = "absent" /\ accepted'[d] = 0
                             /\ codes'[d] = "unused" => accepted'[d] = 0
                             /\ accepted'[d] <= 1
    <3> HIDE DEF c
    <3> QED BY ONLY <2>11, <2>12, <2>13, <2>14
  <2>16. shown' \subseteq SF!Stored'
    BY <1>1, <2>5 DEF FactorInv, TablesInv, CodesInv, SF!Stored
  <2>17. CodesInv'
    BY <1>1, <2>15, <2>16 DEF CodesInv
  <2>18. enrol.secret # None => enrol.secret \in Secrets
    BY DEF FactorInv, TablesInv, FactorTypes
  <2>19. TotpInv'
    BY <1>1, <2>8, <2>18 DEF FactorInv, TablesInv, TotpInv
  <2> QED BY <2>4, <2>9, <2>10, <2>17, <2>19 DEF FactorInv, TablesInv
<1> QED BY <1>4, <1>5 DEF SF!MarkRecoveryCodeUsed, SF!Markable, SF!Goto, SF!Finish

LEMMA RememberStep ==
  ASSUME FactorInv, NEW r \in Requests, SF!Remember(r)
  PROVE  FactorInv'
<1>1. /\ req[r].pc = "remember" /\ req' = [req EXCEPT ![r] = SF!Idle]
      /\ devices' = IF enrol.confirmed /\ enrol.secret \in req[r].since
                    THEN devices \cup {req[r].secret} ELSE devices
      /\ UNCHANGED <<enrol, codes, secrets, batches, confirmed, accepted, shown>>
  BY DEF SF!Remember, SF!At, SF!Finish, SF!Goto, SF!EnrolledSince
<1>2. secrets \in Nat /\ secrets' \in Nat /\ secrets <= secrets' /\ Secrets \subseteq Nat /\ None \notin Secrets
  <2>1. secrets \in Nat
    BY DEF FactorInv, TablesInv, FactorTypes
  <2>2. UNCHANGED secrets
    BY <1>1
  <2>3. Secrets \subseteq Nat /\ None \notin Secrets
    <3>1. Secrets \subseteq Nat
      BY FactorAssumption DEF FactorAssumption
    <3>2. None \notin Nat
      BY NullAssumption DEF NullAssumption
    <3> QED BY ONLY <3>1, <3>2
  <2> QED BY ONLY <2>1, <2>2, <2>3
<1>3. RequestsInv'
  BY <1>1, <1>2, FactorIdle, RequestMoves
<1>4. CASE devices' = devices
  BY <1>1, <1>3, <1>4, TablesStand DEF FactorInv
<1>5. CASE /\ enrol.confirmed /\ enrol.secret \in req[r].since
           /\ devices' = devices \cup {req[r].secret}
  <2>1. Sound(req[r]) /\ req[r].since \subseteq Secrets
    BY DEF FactorInv, RequestsInv, Request
  <2>2. req[r].secret \in Secrets /\ req[r].secret <= secrets /\ enrol.secret <= req[r].secret
    BY <1>1, <1>5, <2>1 DEF Sound, SignIn
  <2>3. enrol.secret \in Secrets /\ enrol.secret # None
    BY <1>2, <1>5, <2>1
  <2>4. enrol.secret = secrets
    BY <2>3 DEF FactorInv, TablesInv, EnrolmentInv
  <2>5. enrol.secret = req[r].secret
    <3> DEFINE k == req[r].secret
    <3>1. k \in Nat /\ k <= secrets /\ secrets <= k
      BY <1>2, <2>2, <2>4
    <3> HIDE DEF k
    <3>2. k = secrets
      BY ONLY <1>2, <3>1
    <3> QED BY <2>4, <3>2 DEF k
  <2>6. FactorTypes'
    BY <1>1, <1>5, <2>2 DEF FactorInv, TablesInv, FactorTypes
  <2>7. EnrolmentInv'
    BY <1>1, <1>5, <2>3, <2>5 DEF FactorInv, TablesInv, EnrolmentInv
  <2>8. CodesInv' /\ TotpInv'
    BY <1>1 DEF FactorInv, TablesInv, CodesInv, TotpInv, SF!Stored
  <2> QED BY <1>3, <2>6, <2>7, <2>8 DEF FactorInv, TablesInv
<1> QED BY <1>1, <1>4, <1>5

LEMMA DeleteStep ==
  ASSUME FactorInv, NEW r \in Requests, SF!DeleteEnrollment(r)
  PROVE  FactorInv'
<1>1. req' = [req EXCEPT ![r] = SF!Idle] /\ UNCHANGED <<secrets, batches, confirmed, accepted>>
  BY DEF SF!DeleteEnrollment, SF!Finish, SF!Goto
<1>2. secrets \in Nat /\ secrets' \in Nat /\ secrets <= secrets'
  BY <1>1 DEF FactorInv, TablesInv, FactorTypes
<1>3. RequestsInv'
  BY <1>1, <1>2, FactorIdle, RequestMoves
<1>4. CASE UNCHANGED <<enrol, codes, devices, shown>>
  BY <1>1, <1>3, <1>4, TablesStand DEF FactorInv
<1>5. CASE /\ enrol' = SF!NoRow /\ codes' = SF!Replaced(SF!Stored, {})
           /\ devices' = {} /\ shown' = {}
  <2>1. \A c \in SF!Codes : codes'[c] = "absent"
    BY <1>5 DEF SF!Replaced, SF!Stored
  <2>2. codes' \in [SF!Codes -> {"absent", "unused", "used"}]
    <3>1. codes' = [c \in SF!Codes |-> codes'[c]]
      BY <1>5 DEF SF!Replaced
    <3> QED BY <2>1, <3>1
  <2>3. enrol'.secret = None /\ ~enrol'.confirmed
        /\ enrol' \in [secret : Secrets \cup {None}, confirmed : BOOLEAN, step : {0} \cup Steps]
    BY <1>5 DEF SF!NoRow
  <2>4. FactorTypes'
    BY <1>1, <1>5, <2>2, <2>3 DEF FactorInv, TablesInv, FactorTypes
  <2>5. SF!Stored' = {}
    BY <2>1 DEF SF!Stored
  <2>6. enrol' = SF!NoRow'
    BY <1>5 DEF SF!NoRow
  <2>7. EnrolmentInv'
    BY <1>1, <1>5, <2>3, <2>5, <2>6 DEF FactorInv, TablesInv, EnrolmentInv
  <2>8. CodesInv'
    BY <1>1, <1>5, <2>1 DEF FactorInv, TablesInv, CodesInv
  <2>9. TotpInv'
    BY <1>1, <2>3 DEF FactorInv, TablesInv, TotpInv
  <2> QED BY <1>3, <2>4, <2>7, <2>8, <2>9 DEF FactorInv, TablesInv
<1> QED BY <1>4, <1>5 DEF SF!DeleteEnrollment

LEMMA FactorNext == FactorInv /\ [Next]_vars => FactorInv'
<1> SUFFICES ASSUME FactorInv, [Next]_vars PROVE FactorInv'
  OBVIOUS
<1>1. CASE UNCHANGED sf
  <2>1. UNCHANGED <<enrol, codes, devices, secrets, batches, confirmed, accepted, shown, req>>
    BY <1>1 DEF sf
  <2> QED BY <2>1, TablesStand DEF FactorInv, RequestsInv, Sound
<1>2. secrets \in Nat /\ secrets <= secrets
  BY DEF FactorInv, TablesInv, FactorTypes
<1>3. ASSUME NEW r \in Requests, NEW q \in Request, Sound(q), req' = [req EXCEPT ![r] = q],
             UNCHANGED <<enrol, codes, devices, secrets, batches, confirmed, accepted, shown>>
      PROVE  FactorInv'
  BY <1>2, <1>3, RequestMoves, TablesStand DEF FactorInv
<1>4. ASSUME NEW r \in Requests, SF!ConfirmEnrollment(r) PROVE FactorInv'
  <2> DEFINE q == [SF!Idle EXCEPT !.pc = "confirm"]
  <2>1. q \in Request /\ q.pc = "confirm"
    BY FactorIdle DEF SF!Idle, Request
  <2>2. /\ req' = [req EXCEPT ![r] = q]
        /\ UNCHANGED <<enrol, codes, devices, secrets, batches, confirmed, accepted, shown>>
    BY <1>4 DEF SF!ConfirmEnrollment, SF!Goto
  <2> HIDE DEF q
  <2>3. Sound(q)
    BY <2>1 DEF Sound, SignIn
  <2> QED BY <1>3, <2>1, <2>2, <2>3
<1>5. ASSUME NEW r \in Requests, SF!Authorize(r) PROVE FactorInv'
  <2>1. PICK pc \in {"replace", "revoke"} : req' = [req EXCEPT ![r] = [SF!Idle EXCEPT !.pc = pc]]
    BY <1>5 DEF SF!Authorize, SF!Goto
  <2> DEFINE q == [SF!Idle EXCEPT !.pc = pc]
  <2>2. q \in Request /\ q.pc \in {"replace", "revoke"}
    BY FactorIdle DEF SF!Idle, Request
  <2>3. req' = [req EXCEPT ![r] = q]
    BY <2>1
  <2>4. UNCHANGED <<enrol, codes, devices, secrets, batches, confirmed, accepted, shown>>
    BY <1>5 DEF SF!Authorize
  <2> HIDE DEF q
  <2>5. Sound(q)
    BY <2>2 DEF Sound, SignIn
  <2> QED BY <1>3, <2>2, <2>3, <2>4, <2>5
<1>6. ASSUME NEW r \in Requests, SF!ReplaceRecoveryCodes(r) PROVE FactorInv'
  <2> DEFINE q == [req[r] EXCEPT !.pc = "insert", !.drop = SF!Stored]
  <2>1. /\ req' = [req EXCEPT ![r] = q]
        /\ UNCHANGED <<enrol, codes, devices, secrets, batches, confirmed, accepted, shown>>
    BY <1>6 DEF SF!ReplaceRecoveryCodes, SF!Goto
  <2>2. req[r] \in Request /\ SF!Stored \in SUBSET SF!Codes
    BY DEF FactorInv, RequestsInv, SF!Stored
  <2>3. q \in Request /\ q.pc = "insert"
    BY <2>2, ZenonT(60) DEF Request
  <2> HIDE DEF q
  <2>4. Sound(q)
    BY <2>3 DEF Sound, SignIn
  <2> QED BY <1>3, <2>1, <2>3, <2>4
<1>7. ASSUME NEW r \in Requests, SF!DisenrollByCode(r) PROVE FactorInv'
  <2> DEFINE q == [SF!Idle EXCEPT !.pc = "list", !.for = "disenrol"]
  <2>1. /\ req' = [req EXCEPT ![r] = q]
        /\ UNCHANGED <<enrol, codes, devices, secrets, batches, confirmed, accepted, shown>>
    BY <1>7 DEF SF!DisenrollByCode, SF!Goto
  <2>2. q \in Request /\ q.pc = "list" /\ q.for = "disenrol"
    BY DEF SF!Idle, Request
  <2> HIDE DEF q
  <2>3. Sound(q)
    BY <2>2 DEF Sound, SignIn
  <2> QED BY <1>3, <2>1, <2>2, <2>3
<1>8. ASSUME NEW r \in Requests, SF!MatchRecoveryCode(r) PROVE FactorInv'
  <2>1. req[r].pc = "list" /\ UNCHANGED <<enrol, codes, devices, secrets, batches, confirmed, accepted, shown>>
    BY <1>8 DEF SF!MatchRecoveryCode, SF!At
  <2>2. req[r] \in Request /\ Sound(req[r])
    BY DEF FactorInv, RequestsInv
  <2>3. CASE req' = [req EXCEPT ![r] = SF!Idle]
    BY <1>3, <2>1, <2>3, FactorIdle
  <2>4. ASSUME NEW c \in SF!Codes, req' = [req EXCEPT ![r] = [req[r] EXCEPT !.pc = "mark", !.code = c]]
        PROVE  FactorInv'
    <3> DEFINE q == [req[r] EXCEPT !.pc = "mark", !.code = c]
    <3>1. /\ q \in Request /\ q.pc = "mark" /\ q.code = c /\ q.for = req[r].for
          /\ q.secret = req[r].secret /\ q.since = req[r].since
      BY <2>2 DEF Request
    <3>2. req' = [req EXCEPT ![r] = q]
      BY <2>4
    <3> HIDE DEF q
    <3>3. Sound(q)
      BY <2>1, <2>2, <3>1 DEF Sound, SignIn
    <3> QED BY <1>3, <2>1, <3>1, <3>2, <3>3
  <2>5. SF!Unused \subseteq SF!Codes
    BY DEF SF!Unused
  <2> QED BY <1>8, <2>3, <2>4, <2>5 DEF SF!MatchRecoveryCode, SF!Goto, SF!Finish
<1>9. ASSUME NEW r \in Requests, NEW pc \in {"revoke", "delete"},
             req' = [req EXCEPT ![r] = [req[r] EXCEPT !.pc = pc]]
      PROVE  RequestsInv' \/ secrets' # secrets
  <2> DEFINE q == [req[r] EXCEPT !.pc = pc]
  <2>1. req[r] \in Request
    BY DEF FactorInv, RequestsInv
  <2>2. q \in Request /\ q.pc \in {"revoke", "delete"}
    BY <2>1 DEF Request
  <2>3. req' = [req EXCEPT ![r] = q]
    BY <1>9
  <2> HIDE DEF q
  <2>4. Sound(q)
    BY <2>2 DEF Sound, SignIn
  <2> QED BY <1>2, <2>2, <2>3, <2>4, RequestMoves
<1>10. ASSUME NEW r \in Requests, SF!ResetMemberMFA(r) PROVE FactorInv'
  <2>1. /\ req' = [req EXCEPT ![r] = [req[r] EXCEPT !.pc = "revoke"]]
        /\ UNCHANGED <<enrol, codes, devices, secrets, batches, confirmed, accepted, shown>>
    BY <1>10 DEF SF!ResetMemberMFA, SF!Move, SF!Goto
  <2> QED BY <1>9, <2>1, TablesStand DEF FactorInv
<1>11. ASSUME NEW r \in Requests, SF!RevokeDevices(r) PROVE FactorInv'
  <2>1. /\ req' = [req EXCEPT ![r] = [req[r] EXCEPT !.pc = "delete"]] /\ devices' = {}
        /\ UNCHANGED <<enrol, codes, secrets, batches, confirmed, accepted, shown>>
    BY <1>11 DEF SF!RevokeDevices, SF!Move, SF!Goto
  <2>2. TablesInv'
    BY <2>1 DEF FactorInv, TablesInv, FactorTypes, EnrolmentInv, CodesInv, TotpInv, SF!Stored
  <2> QED BY <1>9, <2>1, <2>2 DEF FactorInv
<1>12. CASE SF!Next
  <2>1. PICK r \in Requests :
          \/ SF!BeginEnrollment(r) \/ SF!ConfirmEnrollment(r) \/ SF!ConfirmEnrollmentWithCodes(r)
          \/ SF!Authorize(r) \/ SF!ReplaceRecoveryCodes(r) \/ SF!InsertRecoveryCodes(r)
          \/ SF!VerifyLoginCode(r) \/ SF!DisenrollByCode(r) \/ SF!RecordLoginStep(r)
          \/ SF!MatchRecoveryCode(r) \/ SF!MarkRecoveryCodeUsed(r) \/ SF!Remember(r)
          \/ SF!ResetMemberMFA(r) \/ SF!RevokeDevices(r) \/ SF!DeleteEnrollment(r)
    BY <1>12 DEF SF!Next
  <2> QED BY <1>4, <1>5, <1>6, <1>7, <1>8, <1>10, <1>11, <2>1, BeginStep, ConfirmStep, RegenerateStep,
             VerifyStep, RecordStep, MarkStep, RememberStep, DeleteStep
<1> QED BY <1>1, <1>12, Turns

\* No recovery code signs in twice, nor a TOTP code of the enrolment in force,
\* however many requests present it at once.  A sign-in that outlives its
\* enrolment is excepted, since RecordLoginStep does not check the secret: it
\* may present a step of the replaced one.
THEOREM CodesAreSingleUse == Spec => []AcceptedOnce
<1>1. FactorInv => AcceptedOnce
  BY DEF FactorInv, TablesInv, CodesInv, TotpInv, AcceptedOnce, SF!AcceptedOnce
<1> QED BY <1>1, FactorInit, FactorNext, PTL DEF Spec

\* The recovery codes a member was shown stay on file until they replace them or
\* lose the enrolment.
THEOREM CodesStayOnFile == Spec => []ShownCodesStand
<1>1. FactorInv => ShownCodesStand
  BY DEF FactorInv, TablesInv, CodesInv, ShownCodesStand, SF!ShownCodesStand
<1> QED BY <1>1, FactorInit, FactorNext, PTL DEF Spec

\* A device is remembered only under the enrolment in force, whatever happened to
\* the enrolment while the sign-in was under way.
THEOREM DevicesAreBound == Spec => []DevicesFollowEnrolment
<1>1. FactorInv => DevicesFollowEnrolment
  BY DEF FactorInv, TablesInv, EnrolmentInv, DevicesFollowEnrolment, SF!DevicesFollowEnrolment
<1> QED BY <1>1, FactorInit, FactorNext, PTL DEF Spec

-----------------------------------------------------------------------------
(* StandingChore. *)

LEMMA CycleIdle ==
  /\ SC!Idle \in SC!Cycles /\ SC!Idle.pc = "idle" /\ SC!Idle.asOf = 0
  /\ HandledBy(SC!Idle) = {}
BY StandingAssumption DEF StandingAssumption, SC!Idle, SC!Cycles, HandledBy, WarnPCs

LEMMA UnclaimedRow ==
  /\ SC!Unclaimed \in SC!Rows /\ SC!Unclaimed.status = "pending" /\ ~SC!Unclaimed.warned
  /\ SC!Unclaimed.by = None /\ SC!Unclaimed.expires = None
  /\ SC!Unborn \in SC!Rows /\ SC!Unborn.status = "absent" /\ ~SC!Unborn.warned
  /\ SC!Unborn.by = None /\ SC!Unborn.expires = None
BY DEF SC!Unclaimed, SC!Unborn, SC!Rows

\* A window's parts, and those of an instance that has been claimed.
LEMMA WindowParts ==
  /\ \A w \in SC!Windows : w[1] \in Instances /\ w[2] \in Nat /\ w = <<w[1], w[2]>>
  /\ \A i : SC!Window(i)[1] = i /\ SC!Window(i)[2] = standing[i].expires
  /\ \A i \in Instances : RowsInv /\ standing[i].expires # None =>
       SC!Window(i) \in SC!Windows /\ standing[i].expires \in Nat
  /\ \A i : standing[i].expires = None => SC!Window(i) \notin SC!Windows
<1>1. SC!Times \subseteq Nat /\ None \notin SC!Times
  BY StandingAssumption, NullAssumption DEF StandingAssumption, NullAssumption, SC!Times
<1>2. \A w \in SC!Windows : w[1] \in Instances /\ w[2] \in SC!Times /\ w = <<w[1], w[2]>>
  BY DEF SC!Windows
<1>3. \A i : SC!Window(i)[1] = i /\ SC!Window(i)[2] = standing[i].expires
  BY DEF SC!Window
<1>4. ASSUME NEW i \in Instances, RowsInv, standing[i].expires # None
      PROVE  standing[i].expires \in SC!Times
  <2>1. standing[i] \in SC!Rows
    BY <1>4 DEF RowsInv
  <2> QED BY <1>4, <2>1 DEF SC!Rows
<1>5. \A i \in Instances : standing[i].expires \in SC!Times => SC!Window(i) \in SC!Windows
  BY DEF SC!Windows, SC!Window
<1>6. \A i : standing[i].expires = None => SC!Window(i) \notin SC!Windows
  BY <1>1, <1>2, <1>3
<1> QED BY <1>1, <1>2, <1>3, <1>4, <1>5, <1>6

LEMMA StandingInit == Init => StandingInv
<1> SUFFICES ASSUME Init PROVE StandingInv
  OBVIOUS
<1>1. /\ now = 0 /\ faults = 0
      /\ standing = [i \in Instances |-> IF i = 1 THEN SC!Unclaimed ELSE SC!Unborn]
      /\ sweep = [s \in Schedulers |-> SC!Idle]
      /\ warnings = [w \in SC!Windows |-> 0]
      /\ lostWarnings = {} /\ unsure = {}
  BY DEF Init, SC!Init
<1>2. ClockInv
  BY <1>1, StandingAssumption DEF ClockInv, StandingAssumption
<1>3. RowsInv
  BY <1>1, UnclaimedRow DEF RowsInv
<1>4. CyclesInv
  BY <1>1, CycleIdle DEF CyclesInv, SoundCycle
<1>5. CountsInv
  BY <1>1 DEF CountsInv
<1>6. SC!Open = {1} /\ 1 \in Instances
  BY <1>1, UnclaimedRow, StandingAssumption DEF SC!Open, StandingAssumption
<1>7. \A s \in Schedulers : Handled(s) = {}
  BY <1>1, CycleIdle DEF Handled
<1>8. \A w \in SC!Windows : warnings[w] = 0
  BY <1>1
<1>9. \A i \in Instances : ~standing[i].warned /\ standing[i].expires = None
  BY <1>1, UnclaimedRow
<1>10. \A i \in SC!Open : i \in Instances
  BY DEF SC!Open
<1>11. WarningsInv
  BY <1>7, <1>8, <1>9, <1>10
     DEF WarningsInv, WindowsPass, HandsApart, HandsFresh, UnstampedFresh, WarnedOnce, WarnedAtLeastOnce
<1> QED BY <1>2, <1>3, <1>4, <1>5, <1>6, <1>11 DEF StandingInv, StandingTypes

\* Scheduler s moves on to c.
LEMMA CycleMoves ==
  ASSUME CyclesInv, NEW s \in Schedulers, NEW c \in SC!Cycles, sweep' = [sweep EXCEPT ![s] = c],
         UNCHANGED now, SoundCycle(c)
  PROVE  /\ CyclesInv'
         /\ \A z \in Schedulers : Handled(z)' = IF z = s THEN HandledBy(c) ELSE Handled(z)
<1>1. \A z \in Schedulers : sweep'[z] = IF z = s THEN c ELSE sweep[z]
  BY DEF CyclesInv
<1>2. sweep' \in [Schedulers -> SC!Cycles]
  BY DEF CyclesInv
<1>3. \A z \in Schedulers : SoundCycle(sweep[z])'
  BY <1>1 DEF CyclesInv, SoundCycle
<1>4. \A z \in Schedulers : Handled(z)' = IF z = s THEN HandledBy(c) ELSE Handled(z)
  BY <1>1 DEF Handled, HandledBy
<1> QED BY <1>2, <1>3, <1>4 DEF CyclesInv

\* The tables stand, and no scheduler has anything new in hand.
LEMMA HandsStand ==
  ASSUME StandingInv, UNCHANGED <<scene, standing, warnings, lostWarnings, unsure>>,
         ClockInv', CyclesInv', now <= now', \A z \in Schedulers : Handled(z)' = Handled(z)
  PROVE  StandingInv'
<1>1. RowsInv' /\ CountsInv' /\ (\E i \in Instances : SC!Open = {i})'
  BY DEF StandingInv, StandingTypes, RowsInv, CountsInv, SC!Open
<1>2. SC!Open' = SC!Open /\ \A i : SC!Window(i)' = SC!Window(i)
  BY DEF SC!Open, SC!Window
<1>3. \A w \in SC!Windows : w[2] \in Int /\ now \in Int /\ now' \in Int
  BY WindowParts DEF StandingInv, StandingTypes, ClockInv
<1>4. WindowsPass'
  BY <1>3 DEF StandingInv, WarningsInv, WindowsPass
<1>5. (HandsApart /\ HandsFresh)'
  BY <1>2 DEF StandingInv, WarningsInv, HandsApart, HandsFresh
<1>6. (UnstampedFresh /\ WarnedOnce /\ WarnedAtLeastOnce)'
  BY <1>2 DEF StandingInv, WarningsInv, UnstampedFresh, WarnedOnce, WarnedAtLeastOnce
<1> QED BY <1>1, <1>4, <1>5, <1>6 DEF StandingInv, StandingTypes, WarningsInv

\* A row is opened, closed or claimed: its new window, if any, is past all the
\* windows anybody has been warned of.
LEMMA ClaimStep ==
  ASSUME StandingInv, UNCHANGED scene, scene = "standing",
         NEW m \in Members, NEW i \in Instances, SC!Claim(m, i)
  PROVE  StandingInv'
<1> DEFINE row == [SC!Unclaimed EXCEPT !.by = m, !.expires = now + ClaimWindow]
<1>1. /\ i \in SC!Open /\ standing[i].by = None /\ standing' = [standing EXCEPT ![i] = row]
      /\ UNCHANGED <<now, faults, sweep, warnings, lostWarnings, unsure>>
  BY DEF SC!Claim
<1>2. now \in Nat /\ now + ClaimWindow \in SC!Times /\ now + ClaimWindow \in Nat /\ now < now + ClaimWindow
  BY StandingAssumption DEF StandingInv, StandingTypes, ClockInv, StandingAssumption, SC!Times
<1>3. now + ClaimWindow # None
  BY <1>2, NullAssumption DEF NullAssumption
<1>4. /\ row \in SC!Rows /\ row.status = "pending" /\ row.by = m /\ row.expires = now + ClaimWindow
      /\ ~row.warned
  BY <1>2 DEF SC!Unclaimed, SC!Rows
<1> HIDE DEF row
<1>5. \A j \in Instances : standing'[j] = IF j = i THEN row ELSE standing[j]
  BY <1>1 DEF StandingInv, StandingTypes, RowsInv
<1>6. standing[i].status = "pending" /\ standing[i].expires = None
  BY <1>1 DEF StandingInv, StandingTypes, RowsInv, SC!Open
<1>7. RowsInv'
  <2>1. standing' \in [Instances -> SC!Rows]
    BY <1>1, <1>4 DEF StandingInv, StandingTypes, RowsInv
  <2>2. row.by = None => row.expires = None
    <3>1. row.by = m
      BY <1>4
    <3> QED BY <3>1, NullAssumption DEF NullAssumption
  <2> QED BY <1>4, <1>5, <2>1, <2>2 DEF StandingInv, StandingTypes, RowsInv
<1>8. SC!Open' = SC!Open
  BY <1>1, <1>4, <1>5 DEF SC!Open
<1>9. ClockInv' /\ CyclesInv' /\ CountsInv' /\ \A z \in Schedulers : Handled(z)' = Handled(z)
  BY <1>1 DEF StandingInv, StandingTypes, ClockInv, CyclesInv, SoundCycle, CountsInv, Handled
<1>10. \A w \in SC!Windows : w[1] = i /\ (warnings[w] > 0 \/ \E s \in Schedulers : w \in Handled(s)) =>
         w[2] <= now
  BY <1>6 DEF StandingInv, WarningsInv, WindowsPass
<1>11. \A w \in SC!Windows : w[2] <= now => w[2] <= now + ClaimWindow /\ w[2] # now + ClaimWindow
  BY <1>2, WindowParts
<1>12. WindowsPass'
  BY <1>1, <1>3, <1>4, <1>5, <1>9, <1>10, <1>11, WindowParts DEF StandingInv, WarningsInv, WindowsPass
<1>13. /\ \A j \in Instances \ {i} : SC!Window(j)' = SC!Window(j)
       /\ SC!Window(i)' = <<i, now + ClaimWindow>>
  BY <1>4, <1>5 DEF SC!Window
<1>14. <<i, now + ClaimWindow>> \in SC!Windows
  BY <1>2 DEF SC!Windows
<1>15. /\ ~(warnings[<<i, now + ClaimWindow>>] > 0)
       /\ \A s \in Schedulers : <<i, now + ClaimWindow>> \notin Handled(s)
  BY <1>10, <1>11, <1>14
<1>16. \A j \in SC!Open : j \in Instances
  BY DEF SC!Open
<1>17. HandsApart'
  BY <1>9 DEF StandingInv, WarningsInv, HandsApart
<1>18. HandsFresh'
  BY <1>1, <1>5, <1>8, <1>9, <1>13, <1>15, <1>16 DEF StandingInv, WarningsInv, HandsFresh
<1>19. UnstampedFresh'
  BY <1>1, <1>5, <1>8, <1>13, <1>15, <1>16 DEF StandingInv, WarningsInv, UnstampedFresh
<1>20. WarnedOnce' /\ WarnedAtLeastOnce'
  BY <1>1, <1>4, <1>5, <1>8, <1>9, <1>13, <1>16 DEF StandingInv, WarningsInv, WarnedOnce, WarnedAtLeastOnce
<1>21. (\E j \in Instances : SC!Open = {j})'
  BY <1>8 DEF StandingInv
<1> QED BY <1>7, <1>9, <1>12, <1>17, <1>18, <1>19, <1>20, <1>21 DEF StandingInv, StandingTypes, WarningsInv

LEMMA CloseStep ==
  ASSUME StandingInv, UNCHANGED scene, scene = "standing",
         NEW i \in Instances, NEW status \in {"done", "skipped"}, SC!Close(i, status)
  PROVE  StandingInv'
<1> DEFINE closed == [SC!Unclaimed EXCEPT !.status = status]
<1>1. /\ i \in SC!Open /\ standing' \in SC!Respawn(status, [standing EXCEPT ![i] = closed])
      /\ UNCHANGED <<now, faults, sweep, warnings, lostWarnings, unsure>>
  BY DEF SC!Close
<1>2. PICK j \in Instances : /\ [standing EXCEPT ![i] = closed][j] = SC!Unborn
                             /\ standing' = [[standing EXCEPT ![i] = closed] EXCEPT ![j] = SC!Unclaimed]
  BY <1>1 DEF SC!Respawn
<1>3. closed \in SC!Rows /\ closed.status = status /\ ~closed.warned /\ closed.expires = None
  BY DEF SC!Unclaimed, SC!Rows
<1> HIDE DEF closed
<1>4. standing[i].status = "pending" /\ standing \in [Instances -> SC!Rows]
  BY <1>1 DEF StandingInv, StandingTypes, RowsInv, SC!Open
<1>5. j # i /\ standing[j].status = "absent"
  <2>1. closed # SC!Unborn
    BY <1>3, UnclaimedRow
  <2> QED BY <1>2, <1>4, <2>1, UnclaimedRow
<1>6. \A k \in Instances : standing'[k] = IF k = j THEN SC!Unclaimed ELSE IF k = i THEN closed ELSE standing[k]
  BY <1>2, <1>4, <1>5
<1>7. RowsInv'
  <2>1. standing' \in [Instances -> SC!Rows]
    BY <1>2, <1>3, <1>4, UnclaimedRow
  <2> QED BY <1>3, <1>6, <2>1, UnclaimedRow DEF StandingInv, StandingTypes, RowsInv
<1>8. SC!Open = {i}
  BY <1>1 DEF StandingInv
<1>9. \A k \in Instances : standing[k].status = "pending" <=> k = i
  BY <1>8 DEF SC!Open
<1>10. \A k \in Instances : standing'[k].status = "pending" <=> k = j
  BY <1>3, <1>5, <1>6, <1>9, UnclaimedRow
<1>11. SC!Open' = {j}
  BY <1>10 DEF SC!Open
<1>12. ClockInv' /\ CyclesInv' /\ CountsInv' /\ \A z \in Schedulers : Handled(z)' = Handled(z)
  BY <1>1 DEF StandingInv, StandingTypes, ClockInv, CyclesInv, SoundCycle, CountsInv, Handled
<1>13. standing'[j].expires = None /\ ~standing'[j].warned
  BY <1>6, UnclaimedRow
<1>14. \A w \in SC!Windows : warnings[w] > 0 \/ (\E s \in Schedulers : w \in Handled(s)) =>
         w[1] # j /\ standing[w[1]].status # "absent"
  BY <1>5 DEF StandingInv, WarningsInv, WindowsPass
<1>15. \A w \in SC!Windows : w[1] \in Instances
  BY WindowParts
<1>16. \A k \in Instances \ {j} : standing'[k].status # "pending"
         /\ (standing[k].status # "absent" => standing'[k].status # "absent")
  BY <1>3, <1>6, <1>10
<1>17. WindowsPass'
  BY <1>1, <1>12, <1>14, <1>15, <1>16 DEF WindowsPass
<1>18. HandsApart'
  BY <1>12 DEF StandingInv, WarningsInv, HandsApart
<1>19. \A s \in Schedulers : Handled(s) \subseteq SC!Windows
  BY DEF StandingInv, StandingTypes, CyclesInv, Handled, HandledBy, SC!Cycles
<1>20. \A s \in Schedulers : \A w \in Handled(s) : w[1] # j /\ (warnings[w] > 0 => w \in unsure)
  BY <1>14, <1>19 DEF StandingInv, WarningsInv, HandsFresh
<1>21. HandsFresh'
  BY <1>1, <1>11, <1>12, <1>20 DEF HandsFresh
<1>22. UnstampedFresh' /\ WarnedAtLeastOnce'
  BY <1>11, <1>13 DEF UnstampedFresh, WarnedAtLeastOnce
<1>23. WarnedOnce'
  BY <1>1 DEF StandingInv, WarningsInv, WarnedOnce
<1> QED BY <1>7, <1>11, <1>12, <1>17, <1>18, <1>21, <1>22, <1>23 DEF StandingInv, StandingTypes, WarningsInv

\* The windows one statement stamps pass to the scheduler that runs it.
LEMMA ClaimWarningsStep ==
  ASSUME StandingInv, UNCHANGED scene, NEW s \in Schedulers, NEW o \in SC!Outcomes,
         SC!ClaimWarnings(s, o)
  PROVE  StandingInv'
<1> DEFINE due == SC!ToWarn(sweep[s].asOf)
           windows == {SC!Window(i) : i \in due}
           took == [sweep[s] EXCEPT !.pc = "warnings", !.hand = windows]
           left == [sweep[s] EXCEPT !.pc = "sweep"]
           c == IF o = "ok" /\ due # {} THEN took ELSE left
<1>1. /\ sweep[s].pc = "warn" /\ SC!Ends(o) /\ UNCHANGED <<now, warnings, unsure>>
      /\ standing' = IF SC!Applied(o)
                     THEN [i \in Instances |-> IF i \in due THEN [standing[i] EXCEPT !.warned = TRUE]
                                               ELSE standing[i]]
                     ELSE standing
      /\ lostWarnings' = IF o = "unanswered" THEN lostWarnings \cup windows ELSE lostWarnings
      /\ sweep' = [sweep EXCEPT ![s] = c]
  BY DEF SC!ClaimWarnings, SC!Goto
<1>2. /\ standing \in [Instances -> SC!Rows] /\ sweep[s] \in SC!Cycles /\ SoundCycle(sweep[s])
      /\ CountsInv /\ CyclesInv /\ RowsInv
  BY DEF StandingInv, StandingTypes, RowsInv, CyclesInv
<1>3. \A i \in due : i \in SC!Open /\ i \in Instances /\ standing[i].expires # None /\ ~standing[i].warned
  BY DEF SC!ToWarn, SC!Open
<1> HIDE DEF due
<1>4. windows \in SUBSET SC!Windows
  BY <1>2, <1>3, WindowParts
<1> HIDE DEF windows
<1>5. took \in SC!Cycles /\ took.pc = "warnings" /\ took.hand = windows /\ took.asOf = sweep[s].asOf
  BY <1>2, <1>4 DEF SC!Cycles
<1>6. left \in SC!Cycles /\ left.pc = "sweep" /\ left.asOf = sweep[s].asOf
  BY <1>2 DEF SC!Cycles
<1> HIDE DEF took, left
<1>7. /\ c \in SC!Cycles /\ SoundCycle(c)
      /\ HandledBy(c) = IF o = "ok" THEN windows ELSE {}
  <2>1. due = {} => windows = {}
    BY DEF windows
  <2> QED BY <1>2, <1>5, <1>6, <2>1 DEF SoundCycle, HandledBy, WarnPCs
<1> HIDE DEF c
<1>8. /\ CyclesInv' /\ HandledBy(sweep[s]) = {}
      /\ \A z \in Schedulers : Handled(z)' = IF z = s THEN HandledBy(c) ELSE Handled(z)
  BY <1>1, <1>2, <1>7, CycleMoves DEF HandledBy, WarnPCs
<1>9. Handled(s) = {}
  BY <1>8 DEF Handled
<1>10. \A i \in Instances :
         /\ standing'[i].status = standing[i].status /\ standing'[i].by = standing[i].by
         /\ standing'[i].expires = standing[i].expires
         /\ standing'[i].warned = IF SC!Applied(o) /\ i \in due THEN TRUE ELSE standing[i].warned
  BY <1>1, <1>2, ZenonT(60) DEF SC!Rows
<1>11. RowsInv'
  <2>1. \A i \in Instances : [standing[i] EXCEPT !.warned = TRUE] \in SC!Rows
    BY <1>2, ZenonT(60) DEF SC!Rows
  <2>2. standing' \in [Instances -> SC!Rows]
    BY <1>1, <1>2, <2>1
  <2> QED BY <1>2, <1>3, <1>10, <2>2, ZenonT(60) DEF RowsInv
<1>12. ClockInv'
  BY <1>1, StandingAssumption DEF StandingInv, StandingTypes, ClockInv, SC!Ends, SC!Fault, StandingAssumption
<1>13. CountsInv'
  BY <1>1, <1>2, <1>4 DEF CountsInv
<1>14. SC!Open' = SC!Open /\ \A i \in Instances : SC!Window(i)' = SC!Window(i)
  BY <1>10 DEF SC!Open, SC!Window
<1>15. \A i \in SC!Open : i \in Instances
  BY DEF SC!Open
<1>16. \A w \in windows : \A z \in Schedulers : w \notin Handled(z)
  <2> SUFFICES ASSUME NEW i \in due, NEW z \in Schedulers, SC!Window(i) \in Handled(z) PROVE FALSE
    BY DEF windows
  <2>1. SC!Window(i)[1] = i /\ i \in SC!Open /\ ~standing[i].warned
    BY <1>3, WindowParts
  <2>2. SC!Window(i)[1] \in SC!Open /\ SC!Window(SC!Window(i)[1]) = SC!Window(i)
          => standing[SC!Window(i)[1]].warned
    BY DEF StandingInv, WarningsInv, HandsFresh
  <2>3. SC!Window(SC!Window(i)[1]) = SC!Window(i)
    BY <2>1
  <2> QED BY <2>1, <2>2, <2>3
<1>17. \A w \in SC!Windows : w[1] \in Instances
  BY WindowParts
<1>18. WindowsPass'
  <2>1. ASSUME NEW w \in SC!Windows, w \in windows
        PROVE  standing[w[1]].status = "pending" /\ standing[w[1]].expires = w[2] /\ w[2] \in Nat
               /\ standing[w[1]].expires # None
    <3>1. PICK i \in due : w = SC!Window(i)
      BY <2>1 DEF windows
    <3>2. i \in SC!Open /\ i \in Instances /\ standing[i].expires # None /\ w[1] = i /\ w[2] = standing[i].expires
      BY <1>3, <3>1, WindowParts
    <3> QED BY <2>1, <3>2, WindowParts DEF SC!Open
  <2>2. ASSUME NEW w \in SC!Windows, w \notin windows,
               warnings[w] > 0 \/ (\E z \in Schedulers : w \in Handled(z)')
        PROVE  warnings[w] > 0 \/ (\E z \in Schedulers : w \in Handled(z))
    BY <1>7, <1>8, <2>2
  <2>3. \A w \in SC!Windows : w[2] <= w[2]
    BY WindowParts
  <2>4. \A w \in SC!Windows :
          warnings[w] > 0 \/ (\E z \in Schedulers : w \in Handled(z)') =>
            /\ standing'[w[1]].status # "absent"
            /\ standing'[w[1]].status = "pending" =>
                 w[2] <= IF standing'[w[1]].expires = None THEN now ELSE standing'[w[1]].expires
    BY <1>10, <1>17, <2>1, <2>2, <2>3, ZenonT(60) DEF StandingInv, WarningsInv, WindowsPass
  <2> QED BY <1>1, <2>4 DEF WindowsPass
<1>19. HandsApart'
  BY <1>7, <1>8, <1>16 DEF StandingInv, WarningsInv, HandsApart
<1>20. ASSUME NEW w \in windows
       PROVE  /\ warnings[w] > 0 => w \in unsure
              /\ w[1] \in due
  BY <1>3, WindowParts DEF windows, StandingInv, WarningsInv, UnstampedFresh
<1>21. HandsFresh'
  <2>1. ASSUME NEW z \in Schedulers, NEW w \in Handled(z)'
        PROVE  /\ warnings[w] > 0 => w \in unsure
               /\ w[1] \in SC!Open /\ SC!Window(w[1])' = w => standing'[w[1]].warned
    <3>1. CASE w \in windows /\ o = "ok"
      BY <1>3, <1>10, <1>20, <3>1 DEF SC!Applied
    <3>2. CASE w \in Handled(z)
      BY <1>10, <1>14, <1>15, <3>2 DEF StandingInv, WarningsInv, HandsFresh
    <3> QED BY <1>7, <1>8, <2>1, <3>1, <3>2
  <2> QED BY <1>1, <1>14, <2>1 DEF HandsFresh
<1>22. UnstampedFresh'
  BY <1>1, <1>10, <1>14, <1>15 DEF StandingInv, WarningsInv, UnstampedFresh
<1>23. WarnedOnce'
  BY <1>1 DEF StandingInv, WarningsInv, WarnedOnce
<1>24. WarnedAtLeastOnce'
  <2>1. ASSUME NEW i \in SC!Open, standing'[i].warned, SC!Window(i) \notin lostWarnings',
               \A z \in Schedulers : SC!Window(i) \notin Handled(z)'
        PROVE  warnings[SC!Window(i)] > 0
    <3>1. \A z \in Schedulers : SC!Window(i) \notin Handled(z)
      BY <1>8, <1>9, <2>1
    <3>2. SC!Window(i) \notin lostWarnings
      BY <1>1, <2>1
    <3>3. CASE standing[i].warned
      BY <3>1, <3>2, <3>3 DEF StandingInv, WarningsInv, WarnedAtLeastOnce
    <3>4. CASE SC!Applied(o) /\ i \in due
      <4>1. SC!Window(i) \in windows
        BY <3>4 DEF windows
      <4>2. o # "unanswered"
        BY <1>1, <2>1, <4>1
      <4>3. o # "ok"
        BY <1>7, <1>8, <2>1, <4>1
      <4> QED BY <3>4, <4>2, <4>3 DEF SC!Applied, SC!Outcomes
    <3> QED BY <1>10, <1>15, <2>1, <3>3, <3>4
  <2> QED BY <1>1, <1>14, <1>15, <2>1 DEF WarnedAtLeastOnce
<1>25. (\E i \in Instances : SC!Open = {i})'
  BY <1>14 DEF StandingInv
<1> QED BY <1>8, <1>11, <1>12, <1>13, <1>18, <1>19, <1>21, <1>22, <1>23, <1>24, <1>25
        DEF StandingInv, StandingTypes, WarningsInv

\* What is left of a cycle once it is done with window w.
LEMMA WithoutWindow ==
  ASSUME NEW s \in Schedulers, CyclesInv, sweep[s].pc \in WarnPCs, NEW w \in sweep[s].hand
  PROVE  /\ SC!Without(s, w, "sweep") \in SC!Cycles /\ SoundCycle(SC!Without(s, w, "sweep"))
         /\ HandledBy(SC!Without(s, w, "sweep")) = Handled(s) \ {w}
<1> DEFINE pc == IF sweep[s].hand = {w} THEN "sweep" ELSE "warnings"
           c == [sweep[s] EXCEPT !.hand = @ \ {w}, !.failed = None, !.pc = pc]
<1>1. sweep[s] \in SC!Cycles /\ SoundCycle(sweep[s])
  BY DEF CyclesInv
<1>2. c = SC!Without(s, w, "sweep")
  BY DEF SC!Without
<1>3. pc \in {"sweep", "warnings"} /\ (pc = "sweep" => sweep[s].hand = {w})
  OBVIOUS
<1> HIDE DEF pc
<1>4. /\ c \in SC!Cycles /\ c.pc = pc /\ c.hand = sweep[s].hand \ {w} /\ c.asOf = sweep[s].asOf
  BY <1>1, <1>3 DEF SC!Cycles
<1> HIDE DEF c
<1>5. SoundCycle(c)
  BY <1>1, <1>3, <1>4 DEF SoundCycle
<1>6. HandledBy(c) = Handled(s) \ {w}
  BY <1>3, <1>4 DEF Handled, HandledBy, WarnPCs
<1> QED BY <1>2, <1>4, <1>5, <1>6

LEMMA EmitWarningStep ==
  ASSUME StandingInv, UNCHANGED scene, NEW s \in Schedulers, NEW o \in SC!Outcomes,
         NEW w \in sweep[s].hand, SC!EmitClaimWarning(s, w, o)
  PROVE  StandingInv'
<1> DEFINE c == IF o = "ok" THEN SC!Without(s, w, "sweep")
                ELSE [sweep[s] EXCEPT !.pc = "clear", !.failed = w]
<1>1. /\ sweep[s].pc = "warnings" /\ SC!Ends(o) /\ UNCHANGED <<now, standing, lostWarnings>>
      /\ warnings' = IF SC!Applied(o) THEN [warnings EXCEPT ![w] = @ + 1] ELSE warnings
      /\ unsure' = IF o = "unanswered" THEN unsure \cup {w} ELSE unsure
      /\ sweep' = [sweep EXCEPT ![s] = c]
  BY DEF SC!EmitClaimWarning, SC!Goto
<1>2. /\ sweep[s] \in SC!Cycles /\ SoundCycle(sweep[s]) /\ CountsInv /\ CyclesInv
  BY DEF StandingInv, StandingTypes, CyclesInv
<1>3. sweep[s].hand \subseteq SC!Windows /\ w \in SC!Windows
  BY <1>2 DEF SC!Cycles
<1>4. c \in SC!Cycles /\ SoundCycle(c) /\ HandledBy(c) = IF o = "ok" THEN Handled(s) \ {w} ELSE Handled(s)
  <2>1. CASE o = "ok"
    BY <1>1, <1>2, <2>1, WithoutWindow DEF WarnPCs
  <2>2. CASE o # "ok"
    <3> DEFINE d == [sweep[s] EXCEPT !.pc = "clear", !.failed = w]
    <3>1. d \in SC!Cycles /\ d.pc = "clear" /\ d.failed = w /\ d.hand = sweep[s].hand
          /\ d.asOf = sweep[s].asOf
      BY <1>2, <1>3 DEF SC!Cycles
    <3>2. c = d
      BY <2>2
    <3> HIDE DEF d, c
    <3> QED BY <1>1, <1>2, <2>2, <3>1, <3>2 DEF SoundCycle, HandledBy, Handled, WarnPCs
  <2> QED BY <2>1, <2>2
<1> HIDE DEF c
<1>5. /\ CyclesInv'
      /\ \A z \in Schedulers : Handled(z)' = IF z = s THEN HandledBy(c) ELSE Handled(z)
  BY <1>1, <1>2, <1>4, CycleMoves
<1>6. w \in Handled(s)
  BY <1>1 DEF Handled, HandledBy, WarnPCs
<1>7. \A z \in Schedulers : Handled(z)' \subseteq Handled(z)
  BY <1>4, <1>5
<1>8. \A z \in Schedulers : w \in Handled(z)' => o # "ok"
  BY <1>4, <1>5, <1>6 DEF StandingInv, WarningsInv, HandsApart
<1>9. /\ warnings' \in [SC!Windows -> Nat] /\ unsure' \subseteq SC!Windows
      /\ \A v \in SC!Windows : warnings'[v] = IF SC!Applied(o) /\ v = w THEN warnings[v] + 1 ELSE warnings[v]
  BY <1>1, <1>2, <1>3 DEF CountsInv
<1>10. CountsInv' /\ RowsInv'
  BY <1>1, <1>9 DEF StandingInv, StandingTypes, CountsInv, RowsInv
<1>11. ClockInv'
  BY <1>1, StandingAssumption DEF StandingInv, StandingTypes, ClockInv, SC!Ends, SC!Fault, StandingAssumption
<1>12. SC!Open' = SC!Open /\ \A i : SC!Window(i)' = SC!Window(i)
  BY <1>1 DEF SC!Open, SC!Window
<1>13. \A v \in SC!Windows : /\ warnings[v] \in Nat
                             /\ v # w => warnings'[v] = warnings[v]
  BY <1>2, <1>9 DEF CountsInv
<1>14. \A v \in SC!Windows :
         warnings'[v] > 0 \/ (\E z \in Schedulers : v \in Handled(z)') =>
           warnings[v] > 0 \/ (\E z \in Schedulers : v \in Handled(z))
  BY <1>6, <1>7, <1>13
<1>15. WindowsPass'
  BY <1>1, <1>14 DEF StandingInv, WarningsInv, WindowsPass
<1>16. HandsApart'
  BY <1>7 DEF StandingInv, WarningsInv, HandsApart
<1>17. \A z \in Schedulers : Handled(z) \subseteq SC!Windows
  BY <1>2 DEF CyclesInv, Handled, HandledBy, SC!Cycles
<1>18. unsure \subseteq unsure' /\ (o = "unanswered" => w \in unsure')
  BY <1>1
<1>19. HandsFresh'
  <2>1. ASSUME NEW z \in Schedulers, NEW v \in Handled(z)', warnings'[v] > 0 PROVE v \in unsure'
    <3>1. v \in Handled(z) /\ v \in SC!Windows
      BY <1>7, <1>17
    <3>2. CASE v = w /\ SC!Applied(o)
      <4>1. o = "unanswered"
        BY <1>8, <3>2 DEF SC!Applied, SC!Outcomes
      <4> QED BY <1>18, <3>2, <4>1
    <3>3. CASE ~(v = w /\ SC!Applied(o))
      <4>1. warnings'[v] = warnings[v]
        BY <1>9, <3>1, <3>3
      <4>2. v \in unsure
        BY <2>1, <3>1, <4>1 DEF StandingInv, WarningsInv, HandsFresh
      <4> QED BY <1>18, <4>2
    <3> QED BY <3>2, <3>3
  <2>2. \A z \in Schedulers : \A v \in Handled(z)' :
          v[1] \in SC!Open /\ SC!Window(v[1]) = v => standing[v[1]].warned
    BY <1>7 DEF StandingInv, WarningsInv, HandsFresh
  <2> QED BY <1>1, <1>12, <2>1, <2>2 DEF HandsFresh
<1>20. UnstampedFresh'
  <2>1. ASSUME NEW i \in SC!Open, standing[i].expires # None, ~standing[i].warned,
               warnings'[SC!Window(i)] > 0
        PROVE  SC!Window(i) \in unsure'
    <3>1. SC!Window(i) \in SC!Windows /\ SC!Window(i)[1] = i
      BY <2>1, WindowParts DEF SC!Open, StandingInv, StandingTypes
    <3>2. SC!Window(i) # w
      BY <1>6, <2>1, <3>1 DEF StandingInv, WarningsInv, HandsFresh
    <3>3. SC!Window(i) \in unsure
      BY <1>13, <2>1, <3>1, <3>2 DEF StandingInv, WarningsInv, UnstampedFresh
    <3> QED BY <1>18, <3>3
  <2> QED BY <1>1, <1>12, <2>1 DEF UnstampedFresh
<1>21. WarnedOnce'
  <2>1. ASSUME NEW v \in SC!Windows, warnings'[v] > 1 PROVE v \in unsure'
    <3>1. CASE v = w
      <4>1. warnings[w] > 0 \/ warnings[w] > 1
        BY <1>3, <1>9, <1>13, <2>1, <3>1
      <4>2. warnings[w] > 0
        BY <1>3, <1>13, <4>1
      <4>3. w \in unsure
        BY <1>6, <4>2 DEF StandingInv, WarningsInv, HandsFresh
      <4> QED BY <1>18, <3>1, <4>3
    <3>2. CASE v # w
      BY <1>13, <1>18, <2>1, <3>2 DEF StandingInv, WarningsInv, WarnedOnce
    <3> QED BY <3>1, <3>2
  <2> QED BY <2>1 DEF WarnedOnce
<1>22. WarnedAtLeastOnce'
  <2>1. ASSUME NEW i \in SC!Open, standing[i].warned, SC!Window(i) \notin lostWarnings,
               \A z \in Schedulers : SC!Window(i) \notin Handled(z)'
        PROVE  warnings'[SC!Window(i)] > 0
    <3>1. SC!Window(i) \in SC!Windows
      BY <2>1, WindowParts DEF SC!Open, StandingInv, StandingTypes, RowsInv
    <3>2. CASE SC!Window(i) = w
      <4>1. o = "ok"
        BY <1>4, <1>5, <1>6, <2>1, <3>2
      <4>2. warnings'[w] = warnings[w] + 1
        BY <1>3, <1>9, <4>1 DEF SC!Applied
      <4>3. warnings[w] \in Nat
        BY <1>3, <1>13
      <4> QED BY <3>2, <4>2, <4>3
    <3>3. CASE SC!Window(i) # w
      <4>1. \A z \in Schedulers : SC!Window(i) \notin Handled(z)
        BY <1>4, <1>5, <2>1, <3>3
      <4>2. warnings[SC!Window(i)] > 0
        BY <2>1, <4>1 DEF StandingInv, WarningsInv, WarnedAtLeastOnce
      <4> QED BY <1>13, <3>1, <3>3, <4>2
    <3> QED BY <3>2, <3>3
  <2> QED BY <1>1, <1>12, <2>1 DEF WarnedAtLeastOnce
<1>23. (\E i \in Instances : SC!Open = {i})'
  BY <1>12 DEF StandingInv
<1> QED BY <1>5, <1>10, <1>11, <1>15, <1>16, <1>19, <1>20, <1>21, <1>22, <1>23
        DEF StandingInv, StandingTypes, WarningsInv

LEMMA ClearWarningStep ==
  ASSUME StandingInv, UNCHANGED scene, NEW s \in Schedulers, NEW o \in SC!Outcomes,
         SC!ClearClaimWarning(s, o)
  PROVE  StandingInv'
<1> DEFINE w == sweep[s].failed
<1>1. /\ sweep[s].pc = "clear" /\ SC!Ends(o) /\ UNCHANGED <<now, warnings, unsure>>
      /\ standing' = IF SC!Applied(o) /\ SC!Clearable(w) THEN [standing EXCEPT ![w[1]].warned = FALSE]
                     ELSE standing
      /\ lostWarnings' = IF SC!Applied(o) THEN lostWarnings ELSE lostWarnings \cup {w}
      /\ sweep' = [sweep EXCEPT ![s] = SC!Without(s, w, "sweep")]
  BY DEF SC!ClearClaimWarning, SC!Goto
<1>2. /\ sweep[s] \in SC!Cycles /\ SoundCycle(sweep[s]) /\ CountsInv /\ CyclesInv /\ RowsInv
      /\ standing \in [Instances -> SC!Rows]
  BY DEF StandingInv, StandingTypes, CyclesInv, RowsInv
<1>3. w \in sweep[s].hand /\ w \in SC!Windows
  BY <1>1, <1>2 DEF SoundCycle, SC!Cycles
<1>4. w \in Handled(s)
  BY <1>1, <1>3 DEF Handled, HandledBy, WarnPCs
<1> HIDE DEF w
<1>5. /\ CyclesInv'
      /\ \A z \in Schedulers : Handled(z)' = IF z = s THEN Handled(s) \ {w} ELSE Handled(z)
  BY <1>1, <1>2, <1>3, CycleMoves, WithoutWindow, ZenonT(60) DEF WarnPCs
<1>6. \A z \in Schedulers : Handled(z)' \subseteq Handled(z) /\ w \notin Handled(z)'
  BY <1>4, <1>5 DEF StandingInv, WarningsInv, HandsApart
<1>7. w[1] \in Instances /\ SC!Window(w[1])[1] = w[1]
  BY <1>3, WindowParts
<1>8. \A i \in Instances :
         /\ standing'[i].status = standing[i].status /\ standing'[i].by = standing[i].by
         /\ standing'[i].expires = standing[i].expires
         /\ standing'[i].warned = IF SC!Applied(o) /\ SC!Clearable(w) /\ i = w[1] THEN FALSE
                                  ELSE standing[i].warned
  BY <1>1, <1>2, ZenonT(60) DEF SC!Rows
<1>9. RowsInv'
  <2>1. [standing[w[1]] EXCEPT !.warned = FALSE] \in SC!Rows
    BY <1>2, <1>7, ZenonT(60) DEF SC!Rows
  <2>2. standing' \in [Instances -> SC!Rows]
    BY <1>1, <1>2, <1>7, <2>1
  <2> QED BY <1>2, <1>8, <2>2, ZenonT(60) DEF RowsInv
<1>10. CountsInv'
  BY <1>1, <1>2, <1>3 DEF CountsInv
<1>11. ClockInv'
  BY <1>1, StandingAssumption DEF StandingInv, StandingTypes, ClockInv, SC!Ends, SC!Fault, StandingAssumption
<1>12. SC!Open' = SC!Open /\ \A i \in Instances : SC!Window(i)' = SC!Window(i)
  BY <1>8, ZenonT(60) DEF SC!Open, SC!Window
<1>13. \A i \in SC!Open : i \in Instances /\ SC!Window(i)[1] = i
  BY WindowParts DEF SC!Open
<1>14. \A v \in SC!Windows : v[1] \in Instances
  BY WindowParts
<1>15. WindowsPass'
  BY <1>1, <1>6, <1>8, <1>14 DEF StandingInv, WarningsInv, WindowsPass
<1>16. HandsApart'
  BY <1>6 DEF StandingInv, WarningsInv, HandsApart
<1>17. HandsFresh'
  <2>1. ASSUME NEW z \in Schedulers, NEW v \in Handled(z)'
        PROVE  /\ warnings[v] > 0 => v \in unsure
               /\ v[1] \in SC!Open /\ SC!Window(v[1])' = v => standing'[v[1]].warned
    <3>1. v \in Handled(z) /\ v # w
      BY <1>6, <2>1
    <3>2. ASSUME v[1] \in SC!Open, SC!Window(v[1])' = v PROVE standing'[v[1]].warned
      <4>1. v[1] \in Instances /\ SC!Window(v[1]) = v
        BY <1>12, <1>13, <3>2
      <4>2. standing[v[1]].warned
        BY <3>1, <3>2, <4>1 DEF StandingInv, WarningsInv, HandsFresh
      <4>3. ~(SC!Clearable(w) /\ v[1] = w[1])
        BY <3>1, <4>1 DEF SC!Clearable
      <4> QED BY <1>8, <4>1, <4>2, <4>3
    <3> QED BY <3>1, <3>2 DEF StandingInv, WarningsInv, HandsFresh
  <2> QED BY <1>1, <1>12, <2>1 DEF HandsFresh
<1>18. UnstampedFresh'
  <2>1. ASSUME NEW i \in SC!Open, standing'[i].expires # None, ~standing'[i].warned,
               warnings[SC!Window(i)] > 0
        PROVE  SC!Window(i) \in unsure
    <3>1. CASE standing[i].warned
      <4>1. SC!Clearable(w) /\ i = w[1]
        BY <1>8, <1>13, <2>1, <3>1
      <4>2. SC!Window(i) = w
        BY <4>1 DEF SC!Clearable
      <4> QED BY <1>4, <2>1, <4>2 DEF StandingInv, WarningsInv, HandsFresh
    <3>2. CASE ~standing[i].warned
      BY <1>8, <1>13, <2>1, <3>2 DEF StandingInv, WarningsInv, UnstampedFresh
    <3> QED BY <3>1, <3>2
  <2> QED BY <1>1, <1>12, <1>13, <2>1 DEF UnstampedFresh
<1>19. WarnedOnce'
  BY <1>1 DEF StandingInv, WarningsInv, WarnedOnce
<1>20. WarnedAtLeastOnce'
  <2>1. ASSUME NEW i \in SC!Open, standing'[i].warned, SC!Window(i) \notin lostWarnings',
               \A z \in Schedulers : SC!Window(i) \notin Handled(z)'
        PROVE  warnings[SC!Window(i)] > 0
    <3>1. standing[i].warned /\ SC!Window(i) \notin lostWarnings
      BY <1>1, <1>8, <1>13, <2>1
    <3>2. SC!Window(i) # w
      <4>1. SUFFICES ASSUME SC!Window(i) = w PROVE FALSE
        OBVIOUS
      <4>2. SC!Applied(o)
        BY <1>1, <2>1, <4>1
      <4>3. i = w[1] /\ SC!Clearable(w)
        BY <1>13, <4>1 DEF SC!Clearable
      <4> QED BY <1>8, <1>13, <2>1, <4>2, <4>3
    <3>3. \A z \in Schedulers : SC!Window(i) \notin Handled(z)
      BY <1>5, <2>1, <3>2
    <3> QED BY <3>1, <3>3 DEF StandingInv, WarningsInv, WarnedAtLeastOnce
  <2> QED BY <1>1, <1>12, <1>13, <2>1 DEF WarnedAtLeastOnce
<1>21. (\E i \in Instances : SC!Open = {i})'
  BY <1>12 DEF StandingInv
<1> QED BY <1>5, <1>9, <1>10, <1>11, <1>15, <1>16, <1>17, <1>18, <1>19, <1>20, <1>21
        DEF StandingInv, StandingTypes, WarningsInv

LEMMA SweepStep ==
  ASSUME StandingInv, UNCHANGED scene, NEW s \in Schedulers, NEW o \in SC!Outcomes,
         SC!SweepExpiredClaims(s, o)
  PROVE  StandingInv'
<1> DEFINE expired == {i \in SC!Open : standing[i].expires # None /\ standing[i].expires <= sweep[s].asOf}
           windows == {SC!Window(i) : i \in expired}
           took == [sweep[s] EXCEPT !.pc = "notices", !.hand = windows]
           c == IF o = "ok" /\ expired # {} THEN took ELSE SC!Idle
<1>1. /\ sweep[s].pc = "sweep" /\ SC!Ends(o) /\ UNCHANGED <<now, warnings, lostWarnings, unsure>>
      /\ standing' = IF SC!Applied(o)
                     THEN [i \in Instances |-> IF i \in expired THEN SC!Unclaimed ELSE standing[i]]
                     ELSE standing
      /\ sweep' = [sweep EXCEPT ![s] = c]
  BY DEF SC!SweepExpiredClaims, SC!Goto
<1>2. /\ sweep[s] \in SC!Cycles /\ SoundCycle(sweep[s]) /\ CountsInv /\ CyclesInv /\ RowsInv
      /\ standing \in [Instances -> SC!Rows] /\ now \in Nat
  BY DEF StandingInv, StandingTypes, CyclesInv, RowsInv, ClockInv
<1>3. sweep[s].asOf \in Nat /\ sweep[s].asOf <= now
  BY <1>2, StandingAssumption DEF SoundCycle, SC!Cycles, StandingAssumption
<1>4. \A i \in expired : i \in SC!Open /\ i \in Instances /\ standing[i].expires # None
         /\ standing[i].expires <= sweep[s].asOf
  BY DEF SC!Open
<1> HIDE DEF expired
<1>5. \A i \in expired : standing[i].expires \in Nat /\ standing[i].expires <= now
  <2> SUFFICES ASSUME NEW i \in expired PROVE standing[i].expires \in Nat /\ standing[i].expires <= now
    OBVIOUS
  <2>1. standing[i].expires \in Nat
    BY <1>2, <1>4, WindowParts
  <2> QED BY <1>2, <1>3, <1>4, <2>1
<1>6. windows \in SUBSET SC!Windows
  BY <1>2, <1>4, WindowParts
<1> HIDE DEF windows
<1>7. took \in SC!Cycles /\ took.pc = "notices" /\ took.asOf = sweep[s].asOf
  BY <1>2, <1>6 DEF SC!Cycles
<1> HIDE DEF took
<1>8. 0 <= now
  BY <1>2
<1>9. c \in SC!Cycles /\ SoundCycle(c) /\ HandledBy(c) = {}
  BY <1>3, <1>7, <1>8, CycleIdle DEF SoundCycle, HandledBy, WarnPCs
<1> HIDE DEF c
<1>10. /\ CyclesInv' /\ Handled(s) = {}
       /\ \A z \in Schedulers : Handled(z)' = IF z = s THEN HandledBy(c) ELSE Handled(z)
  BY <1>1, <1>2, <1>9, CycleMoves DEF Handled, HandledBy, WarnPCs
<1>11. \A z \in Schedulers : Handled(z)' = Handled(z)
  BY <1>9, <1>10
<1>12. \A i \in Instances : standing'[i] = IF SC!Applied(o) /\ i \in expired THEN SC!Unclaimed ELSE standing[i]
  BY <1>1, <1>2
<1>13. RowsInv'
  <2>1. standing' \in [Instances -> SC!Rows]
    BY <1>1, <1>2, UnclaimedRow
  <2> QED BY <1>2, <1>12, <2>1, UnclaimedRow DEF RowsInv
<1>14. ClockInv'
  BY <1>1, StandingAssumption DEF StandingInv, StandingTypes, ClockInv, SC!Ends, SC!Fault, StandingAssumption
<1>15. CountsInv'
  BY <1>1, <1>2 DEF CountsInv
<1>16. \A i \in Instances : standing'[i].status = standing[i].status
  BY <1>4, <1>12, UnclaimedRow DEF SC!Open
<1>17. SC!Open' = SC!Open
  BY <1>16 DEF SC!Open
<1>18. \A i \in Instances : standing'[i] = standing[i]
                            \/ (/\ standing'[i].expires = None /\ ~standing'[i].warned
                                /\ standing[i].status = "pending" /\ standing[i].expires # None
                                /\ standing[i].expires \in Nat /\ standing[i].expires <= now)
  BY <1>4, <1>5, <1>12, UnclaimedRow DEF SC!Open
<1>19. \A w \in SC!Windows : w[1] \in Instances /\ w[2] \in Nat
  BY WindowParts
<1>20. WindowsPass'
  <2>1. ASSUME NEW w \in SC!Windows, warnings[w] > 0 \/ (\E z \in Schedulers : w \in Handled(z))
        PROVE  /\ standing'[w[1]].status # "absent"
               /\ standing'[w[1]].status = "pending" =>
                    w[2] <= IF standing'[w[1]].expires = None THEN now ELSE standing'[w[1]].expires
    <3>1. /\ standing[w[1]].status # "absent"
          /\ standing[w[1]].status = "pending" =>
               w[2] <= IF standing[w[1]].expires = None THEN now ELSE standing[w[1]].expires
      BY <2>1 DEF StandingInv, WarningsInv, WindowsPass
    <3>2. CASE standing'[w[1]] = standing[w[1]]
      BY <3>1, <3>2
    <3>3. CASE /\ standing'[w[1]].expires = None /\ standing[w[1]].status = "pending"
               /\ standing[w[1]].expires # None
               /\ standing[w[1]].expires \in Nat /\ standing[w[1]].expires <= now
      <4>1. w[2] <= standing[w[1]].expires
        BY <3>1, <3>3
      <4>2. w[2] <= now
        BY <1>2, <1>19, <3>3, <4>1
      <4> QED BY <1>16, <1>19, <3>1, <3>3, <4>2
    <3> QED BY <1>18, <1>19, <3>2, <3>3
  <2> QED BY <1>1, <1>11, <2>1 DEF WindowsPass
<1>21. HandsApart'
  BY <1>11 DEF StandingInv, WarningsInv, HandsApart
<1>22. \A i \in Instances : standing'[i] = standing[i] => SC!Window(i)' = SC!Window(i)
  BY DEF SC!Window
<1>23. \A i : SC!Window(i)' = <<i, standing'[i].expires>>
  BY DEF SC!Window
<1>24. \A z \in Schedulers : Handled(z) \subseteq SC!Windows
  BY <1>2 DEF CyclesInv, Handled, HandledBy, SC!Cycles
<1>25. HandsFresh'
  <2>1. ASSUME NEW z \in Schedulers, NEW w \in Handled(z), w[1] \in SC!Open, SC!Window(w[1])' = w
        PROVE  standing'[w[1]].warned
    <3>1. w \in SC!Windows /\ w[1] \in Instances /\ w[2] \in Nat
      BY <1>19, <1>24
    <3>2. w[2] = standing'[w[1]].expires
      BY <1>23, <2>1
    <3>3. standing'[w[1]].expires # None
      BY <3>1, <3>2, NullAssumption DEF NullAssumption
    <3>4. standing'[w[1]] = standing[w[1]]
      BY <1>18, <3>1, <3>3
    <3>5. SC!Window(w[1]) = w
      BY <1>22, <2>1, <3>1, <3>4
    <3> QED BY <2>1, <3>4, <3>5 DEF StandingInv, WarningsInv, HandsFresh
  <2>2. \A z \in Schedulers : \A w \in Handled(z) : warnings[w] > 0 => w \in unsure
    BY DEF StandingInv, WarningsInv, HandsFresh
  <2> QED BY <1>1, <1>11, <1>17, <2>1, <2>2 DEF HandsFresh
<1>26. \A i \in SC!Open : i \in Instances
  BY DEF SC!Open
<1>27. UnstampedFresh'
  <2>1. ASSUME NEW i \in SC!Open, standing'[i].expires # None, ~standing'[i].warned,
               warnings[SC!Window(i)'] > 0
        PROVE  SC!Window(i)' \in unsure
    <3>1. standing'[i] = standing[i]
      BY <1>18, <1>26, <2>1
    <3>2. SC!Window(i)' = SC!Window(i)
      BY <1>22, <1>26, <3>1
    <3> QED BY <2>1, <3>1, <3>2 DEF StandingInv, WarningsInv, UnstampedFresh
  <2> QED BY <1>1, <1>17, <2>1 DEF UnstampedFresh
<1>28. WarnedOnce'
  BY <1>1 DEF StandingInv, WarningsInv, WarnedOnce
<1>29. WarnedAtLeastOnce'
  <2>1. ASSUME NEW i \in SC!Open, standing'[i].warned, SC!Window(i)' \notin lostWarnings,
               \A z \in Schedulers : SC!Window(i)' \notin Handled(z)
        PROVE  warnings[SC!Window(i)'] > 0
    <3>1. standing'[i] = standing[i]
      BY <1>18, <1>26, <2>1
    <3>2. SC!Window(i)' = SC!Window(i)
      BY <1>22, <1>26, <3>1
    <3> QED BY <2>1, <3>1, <3>2 DEF StandingInv, WarningsInv, WarnedAtLeastOnce
  <2> QED BY <1>1, <1>11, <1>17, <2>1 DEF WarnedAtLeastOnce
<1>30. (\E i \in Instances : SC!Open = {i})'
  BY <1>17 DEF StandingInv
<1> QED BY <1>10, <1>13, <1>14, <1>15, <1>20, <1>21, <1>25, <1>27, <1>28, <1>29, <1>30
        DEF StandingInv, StandingTypes, WarningsInv

LEMMA TickStep ==
  ASSUME StandingInv, UNCHANGED scene, scene = "standing", NEW s \in Schedulers, SC!Tick(s)
  PROVE  StandingInv'
<1> DEFINE c == [SC!Idle EXCEPT !.pc = "warn", !.asOf = now]
<1>1. /\ sweep[s].pc = "idle" /\ sweep' = [sweep EXCEPT ![s] = c]
      /\ UNCHANGED <<now, faults, standing, warnings, lostWarnings, unsure>>
  BY DEF SC!Tick, SC!Goto
<1>2. now \in Nat /\ now <= now /\ now \in 0 .. ChoreTime /\ CyclesInv
  BY StandingAssumption DEF StandingInv, StandingTypes, ClockInv, StandingAssumption
<1>3. c \in SC!Cycles /\ c.pc = "warn" /\ c.asOf = now
  BY <1>2, CycleIdle DEF SC!Idle, SC!Cycles
<1> HIDE DEF c
<1>4. SoundCycle(c) /\ HandledBy(c) = {} /\ Handled(s) = {}
  BY <1>1, <1>2, <1>3 DEF SoundCycle, HandledBy, Handled, WarnPCs
<1>5. CyclesInv' /\ \A z \in Schedulers : Handled(z)' = Handled(z)
  BY <1>1, <1>2, <1>3, <1>4, CycleMoves
<1>6. ClockInv'
  BY <1>1 DEF StandingInv, StandingTypes, ClockInv
<1> QED BY <1>1, <1>2, <1>5, <1>6, HandsStand

LEMMA NoticeStep ==
  ASSUME StandingInv, UNCHANGED scene, NEW s \in Schedulers, NEW o \in SC!Outcomes,
         NEW w \in sweep[s].hand, SC!EmitClaimExpiry(s, w, o)
  PROVE  StandingInv'
<1> DEFINE rest == [sweep[s] EXCEPT !.hand = @ \ {w}]
           c == IF sweep[s].hand = {w} THEN SC!Idle ELSE rest
<1>1. /\ sweep[s].pc = "notices" /\ SC!Ends(o) /\ sweep' = [sweep EXCEPT ![s] = c]
      /\ UNCHANGED <<now, standing, warnings, lostWarnings, unsure>>
  BY DEF SC!EmitClaimExpiry, SC!Goto
<1>2. CyclesInv /\ sweep[s] \in SC!Cycles /\ SoundCycle(sweep[s]) /\ now \in Nat
  BY DEF StandingInv, StandingTypes, CyclesInv, ClockInv
<1>3. rest \in SC!Cycles /\ rest.pc = "notices" /\ rest.asOf = sweep[s].asOf
  BY <1>1, <1>2 DEF SC!Cycles
<1> HIDE DEF rest
<1>4. 0 <= now /\ now <= now
  BY <1>2
<1>5. c \in SC!Cycles /\ SoundCycle(c) /\ HandledBy(c) = {} /\ Handled(s) = {}
  BY <1>1, <1>2, <1>3, <1>4, CycleIdle DEF SoundCycle, HandledBy, Handled, WarnPCs
<1> HIDE DEF c
<1>6. CyclesInv' /\ \A z \in Schedulers : Handled(z)' = Handled(z)
  BY <1>1, <1>2, <1>5, CycleMoves
<1>7. ClockInv'
  BY <1>1, StandingAssumption DEF StandingInv, StandingTypes, ClockInv, SC!Ends, SC!Fault, StandingAssumption
<1> QED BY <1>1, <1>4, <1>6, <1>7, HandsStand

LEMMA CrashStep ==
  ASSUME StandingInv, UNCHANGED scene, NEW s \in Schedulers, SC!Crash(s)
  PROVE  StandingInv'
<1>1. /\ sweep' = [sweep EXCEPT ![s] = SC!Idle] /\ SC!Fault
      /\ lostWarnings' = IF sweep[s].pc \in {"warnings", "clear"} THEN lostWarnings \cup sweep[s].hand
                         ELSE lostWarnings
      /\ UNCHANGED <<now, standing, warnings, unsure>>
  BY DEF SC!Crash, SC!Goto
<1>2. CyclesInv /\ sweep[s] \in SC!Cycles /\ now \in Nat
  BY DEF StandingInv, StandingTypes, CyclesInv, ClockInv
<1>3. SoundCycle(SC!Idle)
  BY <1>2, CycleIdle DEF SoundCycle
<1>4. CyclesInv' /\ \A z \in Schedulers : Handled(z)' = IF z = s THEN {} ELSE Handled(z)
  BY <1>1, <1>2, <1>3, CycleIdle, CycleMoves
<1>5. lostWarnings' = lostWarnings \cup Handled(s)
  BY <1>1 DEF Handled, HandledBy, WarnPCs
<1>6. Handled(s) \subseteq SC!Windows
  BY <1>2 DEF Handled, HandledBy, SC!Cycles
<1>7. ClockInv'
  BY <1>1, StandingAssumption DEF StandingInv, StandingTypes, ClockInv, SC!Fault, StandingAssumption
<1>8. RowsInv' /\ CountsInv'
  BY <1>1, <1>5, <1>6 DEF StandingInv, StandingTypes, RowsInv, CountsInv
<1>9. SC!Open' = SC!Open /\ \A i : SC!Window(i)' = SC!Window(i)
  BY <1>1 DEF SC!Open, SC!Window
<1>10. \A z \in Schedulers : Handled(z)' \subseteq Handled(z)
  BY <1>4
<1>11. WindowsPass'
  BY <1>1, <1>10 DEF StandingInv, WarningsInv, WindowsPass
<1>12. HandsApart' /\ HandsFresh'
  BY <1>1, <1>9, <1>10 DEF StandingInv, WarningsInv, HandsApart, HandsFresh
<1>13. UnstampedFresh' /\ WarnedOnce'
  BY <1>1, <1>9 DEF StandingInv, WarningsInv, UnstampedFresh, WarnedOnce
<1>14. WarnedAtLeastOnce'
  <2>1. ASSUME NEW i \in SC!Open, standing[i].warned, SC!Window(i) \notin lostWarnings',
               \A z \in Schedulers : SC!Window(i) \notin Handled(z)'
        PROVE  warnings[SC!Window(i)] > 0
    <3>1. SC!Window(i) \notin lostWarnings /\ \A z \in Schedulers : SC!Window(i) \notin Handled(z)
      BY <1>4, <1>5, <2>1
    <3> QED BY <2>1, <3>1 DEF StandingInv, WarningsInv, WarnedAtLeastOnce
  <2> QED BY <1>1, <1>9, <2>1 DEF WarnedAtLeastOnce
<1>15. (\E i \in Instances : SC!Open = {i})'
  BY <1>9 DEF StandingInv
<1> QED BY <1>4, <1>7, <1>8, <1>11, <1>12, <1>13, <1>14, <1>15 DEF StandingInv, StandingTypes, WarningsInv

LEMMA StandingNext == StandingInv /\ [Next]_vars => StandingInv'
<1> SUFFICES ASSUME StandingInv, [Next]_vars PROVE StandingInv'
  OBVIOUS
<1>1. scene' = scene /\ now \in Nat
  BY Turns DEF StandingInv, StandingTypes, ClockInv
<1>2. now' \in Nat /\ now <= now'
  BY <1>1, ClockForward
<1>3. CASE UNCHANGED sc /\ (scene = "standing" => UNCHANGED now)
  <2>1. UNCHANGED <<faults, standing, sweep, warnings, lostWarnings, unsure>>
    BY <1>3 DEF sc
  <2>2. ClockInv'
    BY <1>1, <1>2, <1>3, <2>1 DEF StandingInv, StandingTypes, ClockInv
  <2>3. \A s \in Schedulers : sweep[s].asOf \in Nat /\ sweep[s].asOf <= now
    BY StandingAssumption DEF StandingInv, StandingTypes, CyclesInv, SoundCycle, SC!Cycles, StandingAssumption
  <2>4. \A s \in Schedulers : sweep[s].asOf <= now'
    BY <1>1, <1>2, <2>3
  <2>5. CyclesInv' /\ \A z \in Schedulers : Handled(z)' = Handled(z)
    BY <2>1, <2>4 DEF StandingInv, StandingTypes, CyclesInv, SoundCycle, Handled
  <2> QED BY <1>1, <1>2, <2>1, <2>2, <2>5, HandsStand
<1>4. ASSUME SC!Advance, scene = "standing" PROVE StandingInv'
  <2>1. now' <= ChoreTime /\ UNCHANGED <<faults, standing, sweep, warnings, lostWarnings, unsure>>
    BY <1>1, <1>4, StandingAssumption DEF SC!Advance, StandingAssumption
  <2>2. ClockInv'
    BY <1>1, <1>2, <2>1 DEF StandingInv, StandingTypes, ClockInv
  <2>3. \A s \in Schedulers : sweep[s].asOf \in Nat /\ sweep[s].asOf <= now
    BY StandingAssumption DEF StandingInv, StandingTypes, CyclesInv, SoundCycle, SC!Cycles, StandingAssumption
  <2>4. \A s \in Schedulers : sweep[s].asOf <= now'
    BY <1>1, <1>2, <2>3
  <2>5. CyclesInv' /\ \A z \in Schedulers : Handled(z)' = Handled(z)
    BY <2>1, <2>4 DEF StandingInv, StandingTypes, CyclesInv, SoundCycle, Handled
  <2> QED BY <1>1, <1>2, <2>1, <2>2, <2>5, HandsStand
<1>5. ASSUME NEW s \in Schedulers, SC!RunOnce(s), scene = "standing" PROVE StandingInv'
  BY <1>1, <1>5, TickStep, ClaimWarningsStep, ClearWarningStep, SweepStep, EmitWarningStep, NoticeStep
     DEF SC!RunOnce
<1>6. CASE SC!Next /\ scene = "standing"
  BY <1>1, <1>4, <1>5, <1>6, ClaimStep, CloseStep, CrashStep DEF SC!Next
<1> QED BY <1>3, <1>6, Turns

\* An as-needed chore always has exactly one open instance, through every
\* completion, skip, claim and sweep.
THEOREM OneInstanceStands == Spec => []OneOpenStanding
<1>1. StandingInv => OneOpenStanding
  <2>1. \A S : SC!Cardinality(S) = Cardinality(S)
    BY DEF SC!Cardinality, Cardinality
  <2>2. \A i : Cardinality({i}) = 1
    BY FS_Singleton
  <2> QED BY <2>1, <2>2 DEF StandingInv, OneOpenStanding, SC!OneOpenStanding
<1> QED BY <1>1, StandingInit, StandingNext, PTL DEF Spec

\* A claimant is warned exactly once of a claim's expiry: twice only if an
\* enqueue's answer was lost, never only if a crash or a failed clear lost it.
THEOREM ClaimantsAreWarned == Spec => []WarnedOncePerWindow
<1>1. StandingInv => WarnedOncePerWindow
  <2> SUFFICES ASSUME StandingInv PROVE WarnedOncePerWindow
    OBVIOUS
  <2>1. \A i \in SC!Open :
          standing[i].warned /\ SC!Window(i) \notin lostWarnings
            /\ (\A s \in Schedulers : sweep[s].pc \in {"warnings", "clear"} => SC!Window(i) \notin sweep[s].hand)
          => warnings[SC!Window(i)] > 0
    BY DEF StandingInv, WarningsInv, WarnedAtLeastOnce, Handled, HandledBy, WarnPCs
  <2>2. \A w \in SC!Windows : warnings[w] > 1 => w \in unsure
    BY DEF StandingInv, WarningsInv, WarnedOnce
  <2> QED BY <2>1, <2>2 DEF WarnedOncePerWindow, SC!WarnedOncePerWindow
<1> QED BY <1>1, StandingInit, StandingNext, PTL DEF Spec

-----------------------------------------------------------------------------
(* Recurrence rules: the arithmetic is over the calendar for every rule alike;
   the walk is an induction on its turns. *)

\* What div and % are.
LEMMA Division ==
  ASSUME NEW n \in Int, NEW k \in Nat \ {0}
  PROVE  n = k * (n \div k) + (n % k) /\ n % k \in 0 .. k - 1 /\ n \div k \in Int
<1>1. n % k \in 0 .. k - 1 /\ n \div k \in Int
  OBVIOUS
<1>2. n = k * (n \div k) + (n % k)
  OBVIOUS
<1> QED BY <1>1, <1>2

LEMMA Quotient ==
  ASSUME NEW k \in Nat \ {0}, NEW q \in Int, NEW r \in 0 .. k - 1
  PROVE  (k * q + r) \div k = q /\ (k * q + r) % k = r
OBVIOUS

\* The multiples of k ascend by k or more.
LEMMA Products ==
  ASSUME NEW a \in Int, NEW b \in Int, NEW k \in Nat \ {0}, a < b
  PROVE  a * k + k <= b * k /\ a * k \in Int /\ b * k \in Int
OBVIOUS

\* A rule's instants ascend with its days.
LEMMA Instants ==
  ASSUME NEW c, c.clock \in 0 .. DayLen - 1, NEW d \in Int, NEW e \in Int, d < e
  PROVE  /\ CD!Instant(c, d) \in Int /\ CD!Instant(c, e) \in Int
         /\ CD!Instant(c, d) < CD!Instant(c, e)
BY RuleAssumption, Products DEF CD!Instant

LEMMA DayOfInstant ==
  ASSUME NEW c, c.clock \in 0 .. DayLen - 1, NEW d \in Int
  PROVE  CD!Instant(c, d) \in Int /\ CD!DayOf(CD!Instant(c, d)) = d
<1>1. d * DayLen + c.clock = DayLen * d + c.clock /\ d * DayLen + c.clock \in Int
  BY RuleAssumption
<1>2. (DayLen * d + c.clock) \div DayLen = d
  BY RuleAssumption, Quotient
<1> QED BY <1>1, <1>2 DEF CD!Instant, CD!DayOf

\* An instant lies on its day: after what falls before the day, and before what
\* falls after it.
LEMMA DayBounds ==
  ASSUME NEW c, c.clock \in 0 .. DayLen - 1, NEW t \in Int, NEW d \in Int
  PROVE  /\ CD!DayOf(t) \in Int
         /\ d < CD!DayOf(t) => CD!Instant(c, d) < t
         /\ CD!DayOf(t) < d => t < CD!Instant(c, d)
<1> DEFINE q == t \div DayLen
<1>1. t = DayLen * q + (t % DayLen) /\ t % DayLen \in 0 .. DayLen - 1 /\ q \in Int
  BY RuleAssumption, Division
<1>2. CD!DayOf(t) = q
  BY DEF CD!DayOf
<1> HIDE DEF q
<1>3. q * DayLen = DayLen * q /\ q * DayLen \in Int
  BY ONLY <1>1, RuleAssumption
<1>4. ASSUME d < q PROVE CD!Instant(c, d) < t
  <2>1. d * DayLen + DayLen <= q * DayLen /\ d * DayLen \in Int
    BY <1>1, <1>4, RuleAssumption, Products
  <2> QED BY <2>1, <1>1, <1>3, RuleAssumption DEF CD!Instant
<1>5. ASSUME q < d PROVE t < CD!Instant(c, d)
  <2>1. q * DayLen + DayLen <= d * DayLen /\ d * DayLen \in Int
    BY <1>1, <1>5, RuleAssumption, Products
  <2> QED BY <2>1, <1>1, <1>3, RuleAssumption DEF CD!Instant
<1> QED BY <1>1, <1>2, <1>4, <1>5

\* Days ascend with the instants.
LEMMA DayOrder ==
  ASSUME NEW t \in Int, NEW u \in Int, t <= u
  PROVE  /\ CD!DayOf(t) \in Int /\ CD!DayOf(u) \in Int
         /\ CD!DayOf(t) <= CD!DayOf(u)
<1> DEFINE q == t \div DayLen
           r == u \div DayLen
<1>1. /\ t = DayLen * q + (t % DayLen) /\ t % DayLen \in 0 .. DayLen - 1 /\ q \in Int
      /\ u = DayLen * r + (u % DayLen) /\ u % DayLen \in 0 .. DayLen - 1 /\ r \in Int
  BY RuleAssumption, Division
<1> HIDE DEF q, r
<1>2. q <= r
  <2> SUFFICES ASSUME r < q PROVE FALSE
    BY <1>1
  <2>1. r * DayLen + DayLen <= q * DayLen
    BY <1>1, RuleAssumption, Products
  <2>2. r * DayLen = DayLen * r /\ q * DayLen = DayLen * q
        /\ r * DayLen \in Int /\ q * DayLen \in Int
    BY <1>1, RuleAssumption
  <2> QED BY ONLY <1>1, <2>1, <2>2, t \in Int, u \in Int, t <= u, RuleAssumption
<1> QED BY <1>1, <1>2 DEF q, r, CD!DayOf

\* The calendar: its months follow one another.
LEMMA MonthsAscend ==
  /\ Len(FirstDay) \in Nat /\ FirstDay[1] = 0 /\ CD!Horizon \in Nat
  /\ \A m \in CD!Months : /\ m \in Nat /\ m >= 1 /\ m + 1 <= Len(FirstDay)
                          /\ FirstDay[m] \in Nat /\ FirstDay[m + 1] \in Nat
                          /\ FirstDay[m] < FirstDay[m + 1] /\ FirstDay[m + 1] <= CD!Horizon
  /\ \A m, n \in CD!Months : m < n => FirstDay[m + 1] <= FirstDay[n]
<1>1. /\ Len(FirstDay) \in Nat /\ FirstDay[1] = 0 /\ Len(FirstDay) > 1
      /\ \A m \in 1 .. Len(FirstDay) : FirstDay[m] \in Nat
      /\ \A m, n \in 1 .. Len(FirstDay) : m < n => FirstDay[m] < FirstDay[n]
  BY CalendarAssumption
<1>2. CD!Months = 1 .. Len(FirstDay) - 1 /\ CD!Horizon = FirstDay[Len(FirstDay)]
  BY DEF CD!Months, CD!Horizon
<1>3. ASSUME NEW m \in CD!Months
      PROVE  /\ m \in 1 .. Len(FirstDay) /\ m + 1 \in 1 .. Len(FirstDay)
             /\ FirstDay[m] < FirstDay[m + 1]
             /\ m + 1 < Len(FirstDay) => FirstDay[m + 1] < CD!Horizon
  BY ONLY <1>1, <1>2, <1>3
<1>4. ASSUME NEW m \in CD!Months, NEW n \in CD!Months, m < n
      PROVE  FirstDay[m + 1] <= FirstDay[n]
  <2>1. n \in 1 .. Len(FirstDay) /\ m + 1 \in 1 .. Len(FirstDay)
    BY <1>3
  <2>2. m + 1 = n \/ m + 1 < n
    BY ONLY <1>1, <1>2, m \in CD!Months, n \in CD!Months, m < n
  <2>3. m + 1 < n => FirstDay[m + 1] < FirstDay[n]
    BY <1>1, <2>1, Zenon
  <2>4. FirstDay[m + 1] \in Nat /\ FirstDay[n] \in Nat
    BY <1>1, <2>1, Zenon
  <2> QED BY ONLY <2>2, <2>3, <2>4
<1> QED BY ONLY <1>1, <1>2, <1>3, <1>4, SMTT(30)

\* A day is in the month whose days it is among,
LEMMA MonthIs ==
  ASSUME NEW day \in Int, NEW m \in CD!Months, FirstDay[m] <= day, day < FirstDay[m + 1]
  PROVE  CD!Month(day) = m
<1>1. ASSUME NEW n \in CD!Months, FirstDay[n] <= day /\ day < FirstDay[n + 1]
      PROVE  n = m
  <2>1. /\ n \in Nat /\ FirstDay[n] \in Nat /\ FirstDay[n + 1] \in Nat
        /\ m \in Nat /\ FirstDay[m] \in Nat /\ FirstDay[m + 1] \in Nat
    BY MonthsAscend, Zenon
  <2>2. /\ n < m => FirstDay[n + 1] <= FirstDay[m]
        /\ m < n => FirstDay[m + 1] <= FirstDay[n]
    BY MonthsAscend, Zenon
  <2>3. ~(n < m) /\ ~(m < n)
    BY ONLY <1>1, <2>1, <2>2, day \in Int, FirstDay[m] <= day, day < FirstDay[m + 1]
  <2> QED BY ONLY <2>1, <2>3
<1> QED BY <1>1 DEF CD!Month

\* and every day of the calendar is in one.
LEMMA MonthOf ==
  ASSUME NEW day \in 0 .. CD!Horizon - 1
  PROVE  /\ CD!Month(day) \in CD!Months
         /\ FirstDay[CD!Month(day)] <= day /\ day < FirstDay[CD!Month(day) + 1]
<1> DEFINE after == {m \in CD!Months : day < FirstDay[m + 1]}
<1>1. after \in SUBSET Nat /\ after # {}
  <2>1. Len(FirstDay) - 1 \in CD!Months /\ CD!Horizon = FirstDay[(Len(FirstDay) - 1) + 1]
    BY CalendarAssumption DEF CD!Months, CD!Horizon
  <2>2. day < CD!Horizon
    BY MonthsAscend
  <2> QED BY <2>1, <2>2, MonthsAscend
<1>2. PICK m \in after : \A n \in after : m <= n
  BY ONLY <1>1, LeastNatural
<1>3. FirstDay[m] <= day
  <2>1. CASE m = 1
    BY <2>1, MonthsAscend
  <2>2. CASE m # 1
    <3>1. m - 1 \in CD!Months /\ (m - 1) + 1 = m
      BY <2>2, CalendarAssumption DEF CD!Months
    <3>2. ~(m <= m - 1)
      BY MonthsAscend
    <3>3. m - 1 \notin after
      BY <1>2, <3>2
    <3> QED BY <3>1, <3>3, MonthsAscend
  <2> QED BY <2>1, <2>2
<1>4. m \in CD!Months /\ day < FirstDay[m + 1]
  OBVIOUS
<1> QED BY <1>3, <1>4, MonthIs

\* Months ascend with the days.
LEMMA MonthOrder ==
  ASSUME NEW d \in 0 .. CD!Horizon - 1, NEW e \in 0 .. CD!Horizon - 1, d <= e
  PROVE  CD!Month(d) <= CD!Month(e)
<1> DEFINE m == CD!Month(d)  n == CD!Month(e)
<1>1. m \in CD!Months /\ FirstDay[m] <= d /\ n \in CD!Months /\ e < FirstDay[n + 1]
  BY MonthOf
<1> HIDE DEF m, n
<1>2. /\ m \in Nat /\ n \in Nat /\ FirstDay[m] \in Nat /\ FirstDay[n + 1] \in Nat
      /\ n < m => FirstDay[n + 1] <= FirstDay[m]
  BY ONLY <1>1, MonthsAscend
<1>3. m <= n
  BY ONLY <1>1, <1>2, d <= e, d \in Int, e \in Int
<1> QED BY <1>3 DEF m, n

LEMMA MonthDaysType ==
  ASSUME NEW m \in CD!Months
  PROVE  CD!MonthDays(m) \in Nat \ {0} /\ FirstDay[m + 1] = FirstDay[m] + CD!MonthDays(m)
BY MonthsAscend DEF CD!MonthDays

\* The lesser of two numbers.
LEMMA LesserOf ==
  ASSUME NEW a \in Int, NEW b \in Int
  PROVE  (a <= b => CD!Min({a, b}) = a) /\ (~(a <= b) => CD!Min({a, b}) = b)
<1> DEFINE z == IF a <= b THEN a ELSE b
<1>1. z \in {a, b} /\ \A y \in {a, b} : z <= y
  OBVIOUS
<1>2. ASSUME NEW w \in {a, b}, \A y \in {a, b} : w <= y
      PROVE  w = z
  BY <1>2
<1>3. (a <= b => z = a) /\ (~(a <= b) => z = b)
  BY Zenon
<1> HIDE DEF z
<1>4. CD!Min({a, b}) = z
  BY <1>1, <1>2, Zenon DEF CD!Min
<1> QED BY ONLY <1>3, <1>4, Zenon

\* The day of the month is a day of the month.
LEMMA DayOfMonthType ==
  ASSUME NEW day \in 0 .. CD!Horizon - 1
  PROVE  /\ CD!DayOfMonth(day) \in Nat /\ CD!DayOfMonth(day) < CD!MonthDays(CD!Month(day))
         /\ day = FirstDay[CD!Month(day)] + CD!DayOfMonth(day)
<1> DEFINE m == CD!Month(day)
<1>1. m \in CD!Months /\ FirstDay[m] <= day /\ day < FirstDay[m + 1]
  BY MonthOf
<1>2. CD!DayOfMonth(day) = day - FirstDay[m]
  BY DEF CD!DayOfMonth
<1> HIDE DEF m
<1>3. FirstDay[m] \in Nat /\ FirstDay[m + 1] = FirstDay[m] + CD!MonthDays(m) /\ CD!MonthDays(m) \in Nat
  BY ONLY <1>1, MonthDaysType, MonthsAscend
<1>4. CD!DayOfMonth(day) \in Nat /\ CD!DayOfMonth(day) < CD!MonthDays(m) /\ day = FirstDay[m] + CD!DayOfMonth(day)
  BY ONLY <1>1, <1>2, <1>3, day \in Int
<1> QED BY <1>4 DEF m

\* Adding months to a day, with the day of the month clamped.
LEMMA Clamped ==
  ASSUME NEW day \in 0 .. CD!Horizon - 1, NEW k \in Nat, CD!Month(day) + k \in CD!Months
  PROVE  LET d == CD!AddMonthsClamped(day, k)
         IN  /\ d \in 0 .. CD!Horizon - 1 /\ CD!Month(d) = CD!Month(day) + k
             /\ CD!DayOfMonth(d) \in Nat /\ CD!DayOfMonth(day) \in Nat
             /\ \/ CD!DayOfMonth(d) = CD!DayOfMonth(day)
                \/ /\ CD!DayOfMonth(d) < CD!DayOfMonth(day)
                   /\ CD!DayOfMonth(d) = CD!MonthDays(CD!Month(d)) - 1
<1> DEFINE target == CD!Month(day) + k
           a == CD!DayOfMonth(day)
           b == CD!MonthDays(target) - 1
           x == CD!Min({a, b})
           d == FirstDay[target] + x
<1>1. a \in Nat /\ b \in Nat
  BY DayOfMonthType, MonthDaysType
<1>2. x \in Nat /\ ((a <= b /\ x = a) \/ (b < a /\ x = b))
  <2>1. a \in Int /\ b \in Int
    BY <1>1
  <2> HIDE DEF a, b
  <2>2. (a <= b => x = a) /\ (~(a <= b) => x = b)
    BY ONLY <2>1, LesserOf
  <2> HIDE DEF x
  <2> QED BY ONLY <1>1, <2>2
<1>3. CD!AddMonthsClamped(day, k) = d
  BY DEF CD!AddMonthsClamped
<1>4. target \in CD!Months /\ FirstDay[target + 1] = FirstDay[target] + b + 1
  <2>1. target \in CD!Months
    OBVIOUS
  <2>2. FirstDay[target + 1] = FirstDay[target] + CD!MonthDays(target) /\ FirstDay[target] \in Nat
    BY <2>1, MonthDaysType, MonthsAscend
  <2> QED BY <2>1, <2>2, MonthDaysType
<1> HIDE DEF a, b, x, target
<1>5. /\ FirstDay[target] \in Nat /\ FirstDay[target + 1] <= CD!Horizon /\ CD!Horizon \in Nat
      /\ FirstDay[target + 1] \in Nat
  BY ONLY <1>4, MonthsAscend
<1>6. d \in 0 .. CD!Horizon - 1 /\ FirstDay[target] <= d /\ d < FirstDay[target + 1] /\ d - FirstDay[target] = x
  BY ONLY <1>1, <1>2, <1>4, <1>5
<1>7. CD!Month(d) = target /\ CD!DayOfMonth(d) = x
  <2>1. CD!Month(d) = target
    BY <1>4, <1>6, MonthIs
  <2> QED BY <2>1, <1>6 DEF CD!DayOfMonth
<1>8. CD!MonthDays(CD!Month(d)) - 1 = b
  BY <1>7 DEF b
<1> HIDE DEF d
<1>9. \/ CD!DayOfMonth(d) = a
      \/ CD!DayOfMonth(d) < a /\ CD!DayOfMonth(d) = CD!MonthDays(CD!Month(d)) - 1
  BY ONLY <1>1, <1>2, <1>7, <1>8
<1> QED BY <1>1, <1>2, <1>3, <1>6, <1>7, <1>9 DEF a, target

\* What a rule is made of.
LEMMA RuleFields ==
  ASSUME NEW c \in CD!Rules
  PROVE  /\ c.interval \in Intervals /\ c.interval \in Nat \ {0}
         /\ c.anchor \in Anchors /\ c.anchor \in Nat /\ c.clock \in 0 .. DayLen - 1
         /\ c.freq = "daily" \/ c.freq = "weekly" \/ c.freq = "monthly"
         /\ c.days # {} => c.freq = "weekly" /\ c.days \subseteq 0 .. 6
<1>1. /\ c.interval \in Intervals /\ c.anchor \in Anchors /\ c.clock \in 0 .. DayLen - 1
      /\ c.freq = "daily" \/ c.freq = "weekly" \/ c.freq = "monthly"
      /\ c.days # {} => c.freq = "weekly" /\ c.days \in Weekdays
  BY DEF CD!Rules
<1> QED BY <1>1, RuleAssumption

\* The two loops that correct the estimate: it is the index or one too small.
LEMMA Correction ==
  ASSUME NEW c, NEW t \in Int, NEW E \in Nat, CD!EstimateIndex(c, t) = E,
         \A n \in 0 .. E + 1 : CD!StepFromAnchor(c, n) \in Int,
         E = 0 \/ CD!StepFromAnchor(c, E - 1) <= t, t < CD!StepFromAnchor(c, E + 1)
  PROVE  /\ t < CD!StepFromAnchor(c, E) => CD!Corrected(c, t) = E
         /\ ~(t < CD!StepFromAnchor(c, E)) => CD!Corrected(c, t) = E + 1
<1> DEFINE S == {m \in 0 .. E : m = 0 \/ CD!StepFromAnchor(c, m - 1) <= t}
           down == CD!Max(S)
           Up(k) == /\ CD!StepFromAnchor(c, down + k) > t
                    /\ \A j \in 0 .. k - 1 : CD!StepFromAnchor(c, down + j) <= t
           up == CHOOSE k \in 0 .. CD!Horizon : Up(k)
<1>1. CD!Corrected(c, t) = down + up
  BY Zenon DEF CD!Corrected
<1>2. down = E
  <2>1. E \in S /\ \A m \in S : E >= m
    OBVIOUS
  <2>2. ASSUME NEW w \in S, \A m \in S : w >= m PROVE w = E
    <3>1. w \in Int /\ w >= E /\ E >= w
      BY <2>1, <2>2
    <3> QED BY ONLY <3>1, E \in Nat
  <2> HIDE DEF S
  <2> QED BY ONLY <2>1, <2>2, Zenon DEF CD!Max
<1> HIDE DEF down, S
<1>3. CD!Horizon \in Nat /\ CD!Horizon >= 1
  <2>1. 1 \in CD!Months
    BY CalendarAssumption DEF CD!Months
  <2>2. /\ CD!Horizon \in Nat /\ FirstDay[1] \in Nat /\ FirstDay[1 + 1] \in Nat
        /\ FirstDay[1] < FirstDay[1 + 1] /\ FirstDay[1 + 1] <= CD!Horizon
    BY <2>1, MonthsAscend, Zenon
  <2> QED BY ONLY <2>2
<1>4. E + 0 = E /\ E \in 0 .. E + 1 /\ E + 1 \in 0 .. E + 1
  OBVIOUS
<1>5. CASE t < CD!StepFromAnchor(c, E)
  <2>1. Up(0) /\ 0 \in 0 .. CD!Horizon
    BY <1>2, <1>3, <1>4, <1>5
  <2>2. ASSUME NEW k \in 0 .. CD!Horizon, Up(k) PROVE k = 0
    <3>1. SUFFICES ASSUME k # 0 PROVE FALSE
      OBVIOUS
    <3>2. 0 \in 0 .. k - 1
      BY <1>3, <3>1
    <3>3. CD!StepFromAnchor(c, E) <= t
      BY <2>2, <3>2, <1>2, <1>4
    <3> QED BY <3>3, <1>4, <1>5
  <2> HIDE DEF Up
  <2>3. up = 0
    BY ONLY <2>1, <2>2, Zenon
  <2> QED BY <1>1, <1>2, <1>4, <1>5, <2>3
<1>6. CASE ~(t < CD!StepFromAnchor(c, E))
  <2>1. Up(1) /\ 1 \in 0 .. CD!Horizon
    <3>1. \A j \in 0 .. 1 - 1 : j = 0
      OBVIOUS
    <3>2. CD!StepFromAnchor(c, E + 0) <= t
      BY <1>4, <1>6
    <3> QED BY <1>2, <1>3, <3>1, <3>2
  <2>2. ASSUME NEW k \in 0 .. CD!Horizon, Up(k) PROVE k = 1
    <3>1. CASE k = 0
      <4>1. CD!StepFromAnchor(c, E) > t
        BY <2>2, <3>1, <1>2, <1>4
      <4> QED BY <4>1, <1>6
    <3>2. CASE k > 1
      <4>1. 1 \in 0 .. k - 1
        BY <1>3, <3>2
      <4>2. CD!StepFromAnchor(c, E + 1) <= t
        BY <2>2, <4>1, <1>2
      <4> QED BY <4>2, <1>4
    <3> QED BY <3>1, <3>2, <1>3
  <2> HIDE DEF Up
  <2>3. up = 1
    BY ONLY <2>1, <2>2, Zenon
  <2> QED BY <1>1, <1>2, <1>6, <2>3
<1> QED BY <1>5, <1>6

\* What NextAfter makes of it.
LEMMA Stepping ==
  ASSUME NEW c \in CD!Rules, c.days = {}, NEW t \in Int, NEW E,
         CD!StepFromAnchor(c, 0) \in Int,
         CD!StepFromAnchor(c, 0) <= t =>
           /\ E \in Nat /\ CD!EstimateIndex(c, t) = E
           /\ \A n \in 0 .. E + 1 : CD!StepFromAnchor(c, n) \in Int
           /\ E = 0 \/ CD!StepFromAnchor(c, E - 1) <= t
           /\ t < CD!StepFromAnchor(c, E + 1)
  PROVE  \E N \in Nat : /\ CD!NextAfter(c, t) = CD!StepFromAnchor(c, N)
                        /\ t < CD!StepFromAnchor(c, N)
                        /\ \/ N = 0
                           \/ /\ CD!StepFromAnchor(c, 0) <= t /\ E \in Nat /\ N <= E + 1
                              /\ CD!StepFromAnchor(c, N - 1) <= t
<1>1. CASE CD!StepFromAnchor(c, 0) > t
  <2>1. CD!NextAfter(c, t) = CD!StepFromAnchor(c, 0) /\ t < CD!StepFromAnchor(c, 0)
    BY <1>1 DEF CD!NextAfter
  <2> QED BY <2>1
<1>2. CASE ~(CD!StepFromAnchor(c, 0) > t)
  <2>1. CD!NextAfter(c, t) = CD!StepFromAnchor(c, CD!Corrected(c, t))
    BY <1>2 DEF CD!NextAfter
  <2>2. /\ CD!StepFromAnchor(c, 0) <= t
        /\ E \in Nat /\ CD!EstimateIndex(c, t) = E
        /\ \A n \in 0 .. E + 1 : CD!StepFromAnchor(c, n) \in Int
        /\ E = 0 \/ CD!StepFromAnchor(c, E - 1) <= t
        /\ t < CD!StepFromAnchor(c, E + 1)
    BY <1>2
  <2>3. CASE t < CD!StepFromAnchor(c, E)
    <3>1. CD!Corrected(c, t) = E
      BY <2>2, <2>3, Correction
    <3> QED BY <2>1, <2>2, <2>3, <3>1
  <2>4. CASE ~(t < CD!StepFromAnchor(c, E))
    <3>1. CD!Corrected(c, t) = E + 1
      BY <2>2, <2>4, Correction
    <3>2. E \in 0 .. E + 1 /\ (E + 1) - 1 = E /\ E + 1 \in Nat /\ E + 1 <= E + 1
      BY <2>2
    <3>3. CD!StepFromAnchor(c, (E + 1) - 1) <= t
      BY <2>2, <2>4, <3>2
    <3> QED BY <2>1, <2>2, <3>1, <3>2, <3>3
  <2> QED BY <2>3, <2>4
<1> QED BY <1>1, <1>2

\* What NextAfter must find: the first day after t the rule falls on.
Finds(c, t, D) ==
  /\ D \in Nat /\ CD!NextAfter(c, t) = CD!Instant(c, D) /\ t < CD!Instant(c, D)
  /\ CD!FallsOn(c, D)
  /\ \A d \in 0 .. Start + Span : CD!FallsOn(c, d) /\ t < CD!Instant(c, d) => D <= d

\* A rule that repeats every so many days.
LEMMA Period ==
  ASSUME NEW c \in CD!Rules, c.days = {}, c.freq # "monthly"
  PROVE  \E p \in Nat \ {0} :
           /\ \A n \in Int : CD!StepFromAnchor(c, n) = CD!Instant(c, c.anchor + n * p)
           /\ \A t \in Int : CD!EstimateIndex(c, t) = (CD!DayOf(t) - c.anchor) \div p
           /\ \A d \in Int : CD!FallsOn(c, d) <=> d >= c.anchor /\ (d - c.anchor) % p = 0
<1>1. c.interval \in Nat \ {0} /\ (c.freq = "daily" \/ c.freq = "weekly")
  BY RuleFields
<1>2. CASE c.freq = "daily"
  <2>1. \A n \in Int : CD!StepFromAnchor(c, n) = CD!Instant(c, c.anchor + n * c.interval)
    BY <1>2, Zenon DEF CD!StepFromAnchor
  <2>2. \A t \in Int : CD!EstimateIndex(c, t) = (CD!DayOf(t) - c.anchor) \div c.interval
    BY <1>2, Zenon DEF CD!EstimateIndex
  <2>3. \A d \in Int : CD!FallsOn(c, d) <=> d >= c.anchor /\ (d - c.anchor) % c.interval = 0
    BY <1>2, Zenon DEF CD!FallsOn
  <2> QED BY <1>1, <2>1, <2>2, <2>3
<1>3. CASE c.freq = "weekly"
  <2> DEFINE p == 7 * c.interval
  <2>1. p \in Nat \ {0} /\ c.interval * 7 = p /\ \A n \in Int : n * c.interval * 7 = n * p
    BY <1>1
  <2>2. \A n \in Int : CD!StepFromAnchor(c, n) = CD!Instant(c, c.anchor + n * c.interval * 7)
    BY <1>3, Zenon DEF CD!StepFromAnchor
  <2>3. \A t \in Int : CD!EstimateIndex(c, t) = (CD!DayOf(t) - c.anchor) \div (c.interval * 7)
    BY <1>3, Zenon DEF CD!EstimateIndex
  <2>4. \A d \in Int : CD!FallsOn(c, d) <=> d >= c.anchor /\ (d - c.anchor) % (7 * c.interval) = 0
    BY <1>3, Zenon DEF CD!FallsOn
  <2> QED BY <2>1, <2>2, <2>3, <2>4
<1> QED BY <1>1, <1>2, <1>3

\* NextAfter on a rule that repeats every so many days.
LEMMA PeriodicNext ==
  ASSUME NEW c \in CD!Rules, c.days = {}, c.freq # "monthly", NEW t \in Int
  PROVE  \E D : Finds(c, t, D)
<1> DEFINE a == c.anchor
           day == CD!DayOf(t)
<1>1. PICK p \in Nat \ {0} :
        /\ \A n \in Int : CD!StepFromAnchor(c, n) = CD!Instant(c, a + n * p)
        /\ \A u \in Int : CD!EstimateIndex(c, u) = (CD!DayOf(u) - a) \div p
        /\ \A d \in Int : CD!FallsOn(c, d) <=> d >= a /\ (d - a) % p = 0
  BY Period
<1>2. a \in Nat /\ c.clock \in 0 .. DayLen - 1 /\ day \in Int
  BY RuleFields, DayBounds
<1>3. \A d \in Int : /\ CD!Instant(c, d) \in Int
                     /\ d < day => CD!Instant(c, d) < t
                     /\ day < d => t < CD!Instant(c, d)
  BY <1>2, DayBounds, DayOfInstant
<1>4. \A n \in Int : n * p \in Int /\ a + n * p \in Int
  BY <1>2
<1> DEFINE E == (day - a) \div p
<1>5. /\ E \in Int /\ (day - a) = p * E + ((day - a) % p) /\ (day - a) % p \in 0 .. p - 1
  <2>1. day - a \in Int
    BY <1>2
  <2> HIDE DEF day, a
  <2> QED BY ONLY <2>1, p \in Nat \ {0}, Division
<1> HIDE DEF a, day, E
<1>6. ASSUME CD!StepFromAnchor(c, 0) <= t
      PROVE  /\ E \in Nat /\ CD!EstimateIndex(c, t) = E
             /\ \A n \in 0 .. E + 1 : CD!StepFromAnchor(c, n) \in Int
             /\ E = 0 \/ CD!StepFromAnchor(c, E - 1) <= t
             /\ t < CD!StepFromAnchor(c, E + 1)
  <2>1. CD!Instant(c, a) <= t
    BY <1>1, <1>2, <1>6
  <2>2. a <= day
    BY <1>2, <1>3, <2>1
  <2>3. E \in Nat
    <3>1. SUFFICES ASSUME E < 0 PROVE FALSE
      BY <1>5
    <3>2. E * p + p <= 0 * p
      BY ONLY <1>5, <3>1, Products
    <3> QED BY <3>2, <1>2, <1>5, <2>2
  <2>4. (E - 1) * p = p * E - p /\ (E + 1) * p = p * E + p /\ p * E \in Int
    BY <1>5
  <2>5. a + (E - 1) * p < day /\ day < a + (E + 1) * p
    BY ONLY <1>2, <1>5, <2>4, p \in Nat \ {0}
  <2> DEFINE x == a + (E - 1) * p
             y == a + (E + 1) * p
  <2>6. E - 1 \in Int /\ E + 1 \in Int /\ x \in Int /\ y \in Int
    BY ONLY <1>2, <1>5, p \in Nat \ {0}
  <2> HIDE DEF x, y
  <2>7. CD!Instant(c, x) < t /\ t < CD!Instant(c, y)
    <3>1. x < day /\ day < y
      BY <2>5 DEF x, y
    <3> QED BY ONLY <1>3, <2>6, <3>1
  <2>8. CD!EstimateIndex(c, t) = E
    BY <1>1 DEF E, day
  <2>9. /\ CD!StepFromAnchor(c, E - 1) = CD!Instant(c, x)
        /\ CD!StepFromAnchor(c, E + 1) = CD!Instant(c, y)
        /\ CD!Instant(c, x) \in Int
    <3>1. \A n \in Int : CD!StepFromAnchor(c, n) = CD!Instant(c, a + n * p)
      BY <1>1
    <3>2. CD!StepFromAnchor(c, E - 1) = CD!Instant(c, x) /\ CD!StepFromAnchor(c, E + 1) = CD!Instant(c, y)
      BY ONLY <2>6, <3>1, Zenon DEF x, y
    <3> QED BY <1>3, <2>6, <3>2
  <2>10. \A n \in 0 .. E + 1 : CD!StepFromAnchor(c, n) \in Int
    BY <1>1, <1>3, <1>4
  <2> QED BY ONLY <2>3, <2>7, <2>8, <2>9, <2>10, t \in Int
<1>7. PICK N \in Nat : /\ CD!NextAfter(c, t) = CD!StepFromAnchor(c, N)
                       /\ t < CD!StepFromAnchor(c, N)
                       /\ N = 0 \/ CD!StepFromAnchor(c, N - 1) <= t
  <2>1. CD!StepFromAnchor(c, 0) \in Int
    BY <1>1, <1>3, <1>4
  <2> QED BY <1>6, <2>1, Stepping
<1> DEFINE D == a + N * p
<1>8. D \in Nat /\ CD!StepFromAnchor(c, N) = CD!Instant(c, D)
  BY <1>1, <1>2
<1>9. CD!FallsOn(c, D)
  <2>1. D - a = p * N + 0 /\ D >= a /\ 0 \in 0 .. p - 1
    BY <1>2
  <2>2. (p * N + 0) % p = 0
    <3>1. N \in Int
      OBVIOUS
    <3> QED BY ONLY <2>1, <3>1, p \in Nat \ {0}, Quotient, Zenon
  <2>3. (D - a) % p = 0
    BY ONLY <2>1, <2>2
  <2>4. D \in Int
    BY <1>8
  <2> HIDE DEF D
  <2> QED BY <1>1, <2>1, <2>3, <2>4
<1>10. ASSUME NEW d \in 0 .. Start + Span, CD!FallsOn(c, d), t < CD!Instant(c, d)
       PROVE  D <= d
  <2> DEFINE k == (d - a) \div p
  <2>1. d \in Int /\ d >= a /\ (d - a) % p = 0
    BY <1>1, <1>10
  <2>2. d - a = p * k /\ k \in Int
    BY <1>2, <2>1, Division
  <2> HIDE DEF k
  <2>3. d = a + k * p
    BY ONLY <1>2, <2>1, <2>2, p \in Nat \ {0}
  <2>4. k >= 0
    <3>1. SUFFICES ASSUME k < 0 PROVE FALSE
      BY <2>2
    <3>2. k * p + p <= 0 * p /\ k * p \in Int
      BY ONLY <2>2, <3>1, Products
    <3> QED BY ONLY <3>2, <1>2, <2>1, <2>3, p \in Nat \ {0}
  <2>5. CASE N <= k
    <3>1. N = k \/ N * p + p <= k * p
      BY ONLY <2>2, <2>5, N \in Nat, p \in Nat \ {0}, Products
    <3> QED BY ONLY <3>1, <1>2, <1>4, <2>2, <2>3, N \in Nat, p \in Nat \ {0}
  <2>6. CASE k < N
    <3>1. N # 0 /\ CD!StepFromAnchor(c, N - 1) <= t
      BY <1>7, <2>2, <2>4, <2>6
    <3>2. k = N - 1 \/ k * p + p <= (N - 1) * p
      BY ONLY <2>2, <2>6, N \in Nat, p \in Nat \ {0}, Products
    <3>3. d = a + (N - 1) * p \/ d < a + (N - 1) * p
      BY ONLY <3>2, <1>2, <1>4, <2>2, <2>3, N \in Nat, p \in Nat \ {0}
    <3>4. CD!StepFromAnchor(c, N - 1) = CD!Instant(c, a + (N - 1) * p) /\ a + (N - 1) * p \in Int
      <4>1. N - 1 \in Int
        OBVIOUS
      <4> QED BY <1>1, <1>4, <4>1, Zenon
    <3>5. CD!Instant(c, d) <= CD!Instant(c, a + (N - 1) * p)
      BY <1>2, <1>3, <2>1, <3>3, <3>4, Instants, SMTT(30)
    <3> QED BY <1>3, <1>10, <2>1, <3>1, <3>4, <3>5
  <2> QED BY <2>2, <2>5, <2>6
<1> QED BY <1>7, <1>8, <1>9, <1>10 DEF Finds

\* A day of a later month is later.
LEMMA LaterMonth ==
  ASSUME NEW d \in 0 .. CD!Horizon - 1, NEW e \in 0 .. CD!Horizon - 1, CD!Month(d) < CD!Month(e)
  PROVE  d < e
<1>1. CD!Month(d) \in Nat /\ CD!Month(e) \in Nat
  BY MonthOf, MonthsAscend
<1>2. ~(e <= d)
  BY <1>1, MonthOrder
<1> QED BY <1>2

\* The calendar has room for the next occurrence.
LEMMA Room ==
  ASSUME NEW i \in Intervals, NEW day \in Nat, day \in Anchors \/ day <= Start + Span
  PROVE  day \in 0 .. CD!Horizon - 1 /\ CD!Month(day) + i \in CD!Months
<1>1. PICK m \in 1 .. Len(FirstDay) - 1 - i : \A d \in Anchors \cup {Start + Span} : d < FirstDay[m + 1]
  BY CalendarAssumption
<1>2. m \in CD!Months /\ m + i \in CD!Months /\ i \in Nat /\ i >= 1 /\ m \in Nat
  BY CalendarAssumption, RuleAssumption DEF CD!Months
<1>3. FirstDay[m + 1] \in Nat /\ FirstDay[m + 1] <= CD!Horizon /\ CD!Horizon \in Nat
  BY <1>2, MonthsAscend
<1>4. day < FirstDay[m + 1]
  <2>1. Start + Span \in Nat /\ Start + Span < FirstDay[m + 1]
    BY <1>1, RuleAssumption
  <2> QED BY <1>1, <1>3, <2>1
<1>5. day \in 0 .. CD!Horizon - 1
  BY <1>3, <1>4
<1> DEFINE n == CD!Month(day)
<1>6. n \in CD!Months /\ FirstDay[n] <= day
  BY <1>5, MonthOf
<1> HIDE DEF n
<1>7. ~(m < n) /\ n \in Nat /\ n >= 1
  <2>1. n \in Nat /\ n >= 1 /\ FirstDay[n] \in Nat
    BY <1>6, MonthsAscend, Zenon
  <2>2. m < n => FirstDay[m + 1] <= FirstDay[n]
    BY <1>2, <1>6, MonthsAscend, Zenon
  <2> QED BY ONLY <1>3, <1>4, <1>6, <2>1, <2>2, day \in Nat
<1>8. n + i \in CD!Months
  BY <1>2, <1>7, CalendarAssumption DEF CD!Months
<1> QED BY <1>5, <1>8 DEF n

\* What a monthly rule is made of.
LEMMA Monthly ==
  ASSUME NEW c \in CD!Rules, c.freq = "monthly"
  PROVE  /\ \A n \in Int : CD!StepFromAnchor(c, n) =
                             CD!Instant(c, CD!AddMonthsClamped(c.anchor, n * c.interval))
         /\ \A t \in Int : CD!EstimateIndex(c, t) =
                             (CD!Month(CD!DayOf(t)) - CD!Month(c.anchor)) \div c.interval
         /\ \A d \in Int : CD!FallsOn(c, d) <=>
              /\ d >= c.anchor
              /\ (CD!Month(d) - CD!Month(c.anchor)) % c.interval = 0
              /\ \/ CD!DayOfMonth(d) = CD!DayOfMonth(c.anchor)
                 \/ /\ CD!DayOfMonth(d) < CD!DayOfMonth(c.anchor)
                    /\ CD!DayOfMonth(d) = CD!MonthDays(CD!Month(d)) - 1
         /\ c.days = {}
<1>1. \A n \in Int : CD!StepFromAnchor(c, n) =
                       CD!Instant(c, CD!AddMonthsClamped(c.anchor, n * c.interval))
  BY Zenon DEF CD!StepFromAnchor
<1>2. \A t \in Int : CD!EstimateIndex(c, t) =
                       (CD!Month(CD!DayOf(t)) - CD!Month(c.anchor)) \div c.interval
  BY Zenon DEF CD!EstimateIndex
<1>3. \A d \in Int : CD!FallsOn(c, d) <=>
        /\ d >= c.anchor
        /\ (CD!Month(d) - CD!Month(c.anchor)) % c.interval = 0
        /\ \/ CD!DayOfMonth(d) = CD!DayOfMonth(c.anchor)
           \/ /\ CD!DayOfMonth(d) < CD!DayOfMonth(c.anchor)
              /\ CD!DayOfMonth(d) = CD!MonthDays(CD!Month(d)) - 1
  BY Zenon DEF CD!FallsOn
<1>4. c.days = {}
  BY RuleFields
<1> QED BY <1>1, <1>2, <1>3, <1>4

\* The rule's days are the clamped days, one in each of its months.
LEMMA MonthlyDays ==
  ASSUME NEW c \in CD!Rules, c.freq = "monthly", NEW n \in Nat,
         CD!Month(c.anchor) + n * c.interval \in CD!Months
  PROVE  LET d == CD!AddMonthsClamped(c.anchor, n * c.interval)
         IN  /\ d \in 0 .. CD!Horizon - 1 /\ CD!Month(d) = CD!Month(c.anchor) + n * c.interval
             /\ CD!FallsOn(c, d)
             /\ \A e \in 0 .. CD!Horizon - 1 :
                  CD!FallsOn(c, e) /\ CD!Month(e) = CD!Month(d) => e = d
<1> DEFINE i == c.interval
           a == c.anchor
           A == CD!Month(a)
           x == CD!DayOfMonth(a)
           d == CD!AddMonthsClamped(a, n * i)
<1>1. i \in Nat \ {0} /\ i \in Intervals /\ a \in Nat /\ a \in Anchors
  BY RuleFields
<1>2. a \in 0 .. CD!Horizon - 1 /\ A \in CD!Months /\ A \in Nat /\ n * i \in Nat
  <2>1. n * i \in Nat
    BY ONLY <1>1, n \in Nat
  <2>2. a \in 0 .. CD!Horizon - 1
    BY <1>1, Room
  <2>3. A \in CD!Months
    BY <2>2, MonthOf
  <2>4. A \in Nat
    BY <2>3, MonthsAscend
  <2> QED BY <2>1, <2>2, <2>3, <2>4
<1>3. x \in Nat /\ x < CD!MonthDays(A) /\ a = FirstDay[A] + x
  BY <1>2, DayOfMonthType
<1>4. /\ d \in 0 .. CD!Horizon - 1 /\ CD!Month(d) = A + n * i
      /\ \/ CD!DayOfMonth(d) = x
         \/ CD!DayOfMonth(d) < x /\ CD!DayOfMonth(d) = CD!MonthDays(CD!Month(d)) - 1
  <2>1. CD!Month(a) + n * i \in CD!Months
    OBVIOUS
  <2> HIDE DEF a, i
  <2> QED BY ONLY <1>2, <2>1, Clamped DEF A, x, d
<1>5. /\ \A e \in Int : CD!FallsOn(c, e) <=>
           /\ e >= a /\ (CD!Month(e) - A) % i = 0
           /\ \/ CD!DayOfMonth(e) = x
              \/ CD!DayOfMonth(e) < x /\ CD!DayOfMonth(e) = CD!MonthDays(CD!Month(e)) - 1
  BY Monthly
<1>6. \A e \in 0 .. CD!Horizon - 1 :
        /\ CD!DayOfMonth(e) \in Nat /\ CD!MonthDays(CD!Month(e)) \in Nat
        /\ CD!DayOfMonth(e) < CD!MonthDays(CD!Month(e))
        /\ e = FirstDay[CD!Month(e)] + CD!DayOfMonth(e) /\ FirstDay[CD!Month(e)] \in Nat
  BY DayOfMonthType, MonthOf, MonthsAscend, MonthDaysType
<1> HIDE DEF i, a, A, x, d
<1>7. CD!FallsOn(c, d)
  <2>1. d >= a
    <3>1. CASE n = 0
      <4>1. CD!Month(d) = A
        BY <1>1, <1>2, <1>4, <3>1
      <4>2. CD!DayOfMonth(d) = x
        BY ONLY <4>1, <1>3, <1>4, <1>6
      <4> QED BY ONLY <4>1, <4>2, <1>1, <1>3, <1>4, <1>6
    <3>2. CASE n # 0
      <4>1. A < A + n * i
        BY ONLY <1>1, <1>2, <3>2, n \in Nat, Products
      <4>2. CD!Month(a) < CD!Month(d)
        BY <4>1, <1>4 DEF A
      <4>3. a < d
        BY ONLY <4>2, <1>2, <1>4, LaterMonth
      <4> QED BY <4>3, <1>1, <1>4
    <3> QED BY <3>1, <3>2
  <2>2. (CD!Month(d) - A) % i = 0
    <3>1. CD!Month(d) - A = i * n + 0 /\ 0 \in 0 .. i - 1 /\ n \in Int
      BY ONLY <1>1, <1>2, <1>4, n \in Nat
    <3>2. (i * n + 0) % i = 0
      BY ONLY <1>1, <3>1, Quotient, Zenon
    <3> QED BY ONLY <3>1, <3>2
  <2>3. d \in Int
    BY <1>4
  <2> QED BY ONLY <2>1, <2>2, <2>3, <1>4, <1>5
<1>8. ASSUME NEW e \in 0 .. CD!Horizon - 1, CD!FallsOn(c, e), CD!Month(e) = CD!Month(d)
      PROVE  e = d
  <2>1. \/ CD!DayOfMonth(e) = x
        \/ CD!DayOfMonth(e) < x /\ CD!DayOfMonth(e) = CD!MonthDays(CD!Month(d)) - 1
    BY <1>5, <1>8
  <2>2. /\ CD!DayOfMonth(e) \in Nat /\ CD!DayOfMonth(d) \in Nat /\ CD!MonthDays(CD!Month(d)) \in Nat
        /\ CD!DayOfMonth(e) < CD!MonthDays(CD!Month(d)) /\ CD!DayOfMonth(d) < CD!MonthDays(CD!Month(d))
    BY <1>4, <1>6, <1>8
  <2>3. CD!DayOfMonth(e) = CD!DayOfMonth(d)
    BY ONLY <2>1, <2>2, <1>3, <1>4
  <2>4. e = FirstDay[CD!Month(d)] + CD!DayOfMonth(e) /\ d = FirstDay[CD!Month(d)] + CD!DayOfMonth(d)
    BY <1>4, <1>6, <1>8
  <2> QED BY ONLY <2>3, <2>4
<1>9. /\ d \in 0 .. CD!Horizon - 1 /\ CD!Month(d) = A + n * i /\ CD!FallsOn(c, d)
      /\ \A e \in 0 .. CD!Horizon - 1 :
           CD!FallsOn(c, e) /\ CD!Month(e) = CD!Month(d) => e = d
  BY <1>4, <1>7, <1>8
<1> QED BY ONLY <1>9 DEF d, A, a, i

\* NextAfter on a rule that repeats every so many months.
LEMMA MonthlyNext ==
  ASSUME NEW c \in CD!Rules, c.freq = "monthly", NEW t \in Int,
         CD!DayOf(t) \in 0 .. Start + Span
  PROVE  \E D : Finds(c, t, D)
<1> DEFINE i == c.interval
           a == c.anchor
           A == CD!Month(a)
           day == CD!DayOf(t)
           T == CD!Month(day)
           E == (T - A) \div i
           Day(n) == CD!AddMonthsClamped(a, n * i)
           Nth(n) == n \in Nat /\ A + n * i \in CD!Months
<1>1. /\ i \in Nat \ {0} /\ i \in Intervals /\ a \in Nat /\ a \in Anchors
      /\ c.clock \in 0 .. DayLen - 1 /\ c.days = {}
  BY RuleFields
<1>2. a \in 0 .. CD!Horizon - 1 /\ A + i \in CD!Months /\ A \in CD!Months /\ A \in Nat
  BY <1>1, Room, MonthOf, MonthsAscend
<1>3. day \in 0 .. CD!Horizon - 1 /\ T + i \in CD!Months /\ T \in CD!Months /\ T \in Nat
  <2>1. day \in Nat /\ day <= Start + Span
    BY RuleAssumption
  <2>2. day \in 0 .. CD!Horizon - 1 /\ T + i \in CD!Months
    BY <1>1, <2>1, Room
  <2> QED BY <2>2, MonthOf, MonthsAscend
<1>4. \A n : Nth(n) => /\ Day(n) \in 0 .. CD!Horizon - 1 /\ CD!Month(Day(n)) = A + n * i
                       /\ CD!FallsOn(c, Day(n))
                       /\ \A e \in 0 .. CD!Horizon - 1 :
                            CD!FallsOn(c, e) /\ CD!Month(e) = CD!Month(Day(n)) => e = Day(n)
  BY MonthlyDays
<1>5. /\ \A n \in Int : CD!StepFromAnchor(c, n) = CD!Instant(c, Day(n))
      /\ CD!EstimateIndex(c, t) = E
      /\ \A d \in Int : CD!FallsOn(c, d) => d >= a /\ (CD!Month(d) - A) % i = 0
  BY Monthly
<1>6. \A d \in Int : /\ CD!Instant(c, d) \in Int
                     /\ d < day => CD!Instant(c, d) < t
                     /\ day < d => t < CD!Instant(c, d)
  BY <1>1, DayBounds, DayOfInstant
<1>7. E \in Int /\ T - A = i * E + ((T - A) % i) /\ (T - A) % i \in 0 .. i - 1
  <2>1. T - A \in Int
    BY <1>2, <1>3
  <2> HIDE DEF T, A, i
  <2> QED BY ONLY <1>1, <2>1, Division
<1> HIDE DEF a, i, A, T, day, E, Day
<1>8. \A m \in Nat, n \in CD!Months : 1 <= m /\ m <= n => m \in CD!Months
  BY CalendarAssumption DEF CD!Months
<1>9. A >= 1 /\ T >= 1
  BY ONLY <1>2, <1>3, MonthsAscend
<1>10. Nth(0)
  <2>1. 0 * i = 0 /\ A + 0 = A
    BY ONLY <1>1, <1>2
  <2> QED BY <1>2, <2>1
<1>11. ASSUME CD!StepFromAnchor(c, 0) <= t
       PROVE  /\ E \in Nat /\ \A n \in 0 .. E + 1 : Nth(n)
              /\ E = 0 \/ CD!StepFromAnchor(c, E - 1) <= t
              /\ t < CD!StepFromAnchor(c, E + 1)
  <2>1. Day(0) \in 0 .. CD!Horizon - 1 /\ CD!Month(Day(0)) = A
    <3>1. A + 0 * i = A
      BY ONLY <1>1, <1>2
    <3> QED BY <1>4, <1>10, <3>1
  <2>2. Day(0) <= day
    BY <1>3, <1>5, <1>6, <1>11, <2>1
  <2>3. A <= T
    BY <1>3, <2>1, <2>2, MonthOrder DEF T
  <2>4. E \in Nat
    <3>1. SUFFICES ASSUME E < 0 PROVE FALSE
      BY <1>7
    <3>2. E * i + i <= 0 * i
      BY ONLY <1>1, <1>7, <3>1, Products
    <3> QED BY ONLY <3>2, <1>1, <1>2, <1>3, <1>7, <2>3
  <2>5. /\ A + E * i <= T /\ T < A + (E + 1) * i /\ A + (E + 1) * i <= T + i
        /\ E * i \in Nat /\ (E + 1) * i \in Nat
    <3>1. E * i = i * E /\ (E + 1) * i = i * E + i /\ i * E \in Nat
      BY ONLY <1>1, <2>4
    <3> QED BY ONLY <3>1, <1>1, <1>2, <1>3, <1>7
  <2>6. ASSUME NEW n \in 0 .. E + 1 PROVE Nth(n)
    <3>1. n \in Nat /\ (n = E + 1 \/ n * i + i <= (E + 1) * i) /\ n * i \in Nat
      <4>1. n \in Nat /\ n \in Int /\ E + 1 \in Int /\ (n = E + 1 \/ n < E + 1)
        BY ONLY <2>4
      <4>2. n < E + 1 => n * i + i <= (E + 1) * i
        BY ONLY <4>1, <1>1, Products, Zenon
      <4>3. n * i \in Nat
        BY ONLY <4>1, <1>1
      <4> QED BY ONLY <4>1, <4>2, <4>3
    <3>2. A + n * i \in Nat /\ 1 <= A + n * i /\ A + n * i <= T + i
      BY ONLY <3>1, <1>1, <1>2, <1>3, <1>9, <2>5
    <3> QED BY ONLY <3>1, <3>2, <1>3, <1>8
  <2>7. t < CD!StepFromAnchor(c, E + 1)
    <3> DEFINE e == Day(E + 1)
    <3>1. E + 1 \in 0 .. E + 1 /\ E + 1 \in Int
      BY <2>4
    <3>2. e \in 0 .. CD!Horizon - 1 /\ CD!Month(e) = A + (E + 1) * i
      BY <1>4, <2>6, <3>1
    <3>3. CD!StepFromAnchor(c, E + 1) = CD!Instant(c, e)
      BY <1>5, <3>1
    <3> HIDE DEF e
    <3>4. day < e
      BY <1>3, <2>5, <3>2, LaterMonth DEF T
    <3>5. e \in Int
      BY <3>2
    <3> QED BY ONLY <1>6, <3>3, <3>4, <3>5
  <2>8. ASSUME E # 0 PROVE CD!StepFromAnchor(c, E - 1) <= t
    <3> DEFINE e == Day(E - 1)
    <3>1. E - 1 \in 0 .. E + 1 /\ E - 1 \in Int
      BY <2>4, <2>8
    <3>2. e \in 0 .. CD!Horizon - 1 /\ CD!Month(e) = A + (E - 1) * i
      BY <1>4, <2>6, <3>1
    <3>3. CD!StepFromAnchor(c, E - 1) = CD!Instant(c, e)
      BY <1>5, <3>1
    <3> HIDE DEF e
    <3>4. (E - 1) * i + i <= E * i /\ (E - 1) * i \in Int
      BY ONLY <1>1, <2>4, Products
    <3>5. CD!Month(e) < T
      BY ONLY <3>2, <3>4, <2>5, <1>1, <1>2, <1>3
    <3>6. e < day
      BY <1>3, <3>2, <3>5, LaterMonth DEF T
    <3>7. e \in Int
      BY <3>2
    <3> QED BY <1>6, <3>3, <3>6, <3>7
  <2> QED BY <2>4, <2>6, <2>7, <2>8
<1>12. \A n : Nth(n) => CD!StepFromAnchor(c, n) = CD!Instant(c, Day(n)) /\ CD!StepFromAnchor(c, n) \in Int
  BY <1>4, <1>5, <1>6
<1>13. PICK N \in Nat : /\ CD!NextAfter(c, t) = CD!StepFromAnchor(c, N)
                        /\ t < CD!StepFromAnchor(c, N)
                        /\ N = 0 \/ (CD!StepFromAnchor(c, N - 1) <= t /\ Nth(N - 1))
                        /\ Nth(N)
  <2>1. CD!StepFromAnchor(c, 0) \in Int
    BY <1>10, <1>12
  <2>2. CD!StepFromAnchor(c, 0) <= t => \A n \in 0 .. E + 1 : CD!StepFromAnchor(c, n) \in Int
    BY <1>11, <1>12
  <2> HIDE DEF Nth
  <2>3. PICK N \in Nat : /\ CD!NextAfter(c, t) = CD!StepFromAnchor(c, N)
                         /\ t < CD!StepFromAnchor(c, N)
                         /\ \/ N = 0
                           \/ /\ CD!StepFromAnchor(c, 0) <= t /\ E \in Nat /\ N <= E + 1
                              /\ CD!StepFromAnchor(c, N - 1) <= t
    BY <1>1, <1>5, <1>11, <2>1, <2>2, Stepping
  <2>4. CASE N = 0
    BY <1>10, <2>3, <2>4
  <2>5. CASE N # 0
    <3>1. CD!StepFromAnchor(c, 0) <= t /\ E \in Nat /\ N <= E + 1 /\ CD!StepFromAnchor(c, N - 1) <= t
      BY <2>3, <2>5
    <3>2. N \in 0 .. E + 1 /\ N - 1 \in 0 .. E + 1
      BY ONLY <3>1, <2>5, N \in Nat
    <3> QED BY <1>11, <2>3, <3>1, <3>2
  <2> QED BY <2>4, <2>5
<1> DEFINE D == Day(N)
<1>14. D \in 0 .. CD!Horizon - 1 /\ CD!Month(D) = A + N * i /\ CD!FallsOn(c, D)
       /\ CD!StepFromAnchor(c, N) = CD!Instant(c, D)
  BY <1>4, <1>12, <1>13
<1>15. ASSUME NEW d \in 0 .. Start + Span, CD!FallsOn(c, d), t < CD!Instant(c, d)
       PROVE  D <= d
  <2> DEFINE k == (CD!Month(d) - A) \div i
  <2>1. d \in 0 .. CD!Horizon - 1 /\ CD!Month(d) \in CD!Months /\ CD!Month(d) \in Nat
    <3>1. d \in Nat /\ d <= Start + Span
      BY RuleAssumption
    <3>2. d \in 0 .. CD!Horizon - 1
      BY <1>1, <3>1, Room
    <3> QED BY <3>2, MonthOf, MonthsAscend
  <2>2. d >= a /\ (CD!Month(d) - A) % i = 0
    BY <1>5, <1>15, <2>1
  <2>3. CD!Month(d) - A = i * k + 0 /\ k \in Int
    <3>1. CD!Month(d) - A \in Int
      BY <1>2, <2>1
    <3> QED BY ONLY <1>1, <2>2, <3>1, Division
  <2>4. A <= CD!Month(d)
    BY <1>2, <2>1, <2>2, MonthOrder DEF A
  <2> HIDE DEF k, D
  <2>5. k \in Nat
    <3>1. SUFFICES ASSUME k < 0 PROVE FALSE
      BY <2>3
    <3>2. k * i + i <= 0 * i
      BY ONLY <1>1, <2>3, <3>1, Products
    <3> QED BY ONLY <3>2, <1>1, <1>2, <2>1, <2>3, <2>4
  <2>6. CD!Month(d) = A + k * i
    BY ONLY <1>1, <1>2, <2>1, <2>3
  <2>7. Nth(k)
    BY ONLY <2>1, <2>5, <2>6
  <2>8. CASE k = N
    <3>1. CD!Month(d) = CD!Month(D)
      BY <1>14, <2>6, <2>8
    <3>2. d = D
      BY <1>4, <1>13, <1>15, <2>1, <3>1 DEF D
    <3> QED BY <3>2, <2>1
  <2>9. CASE N < k
    <3>1. N * i + i <= k * i /\ N * i \in Int /\ k * i \in Int
      <4>1. N \in Int /\ k \in Int /\ i \in Nat \ {0}
        BY <1>1, <2>5
      <4> QED BY ONLY <4>1, <2>9, Products
    <3>2. CD!Month(D) < CD!Month(d)
      <4>1. CD!Month(D) = A + N * i
        BY <1>14
      <4> QED BY ONLY <3>1, <4>1, <1>1, <1>2, <2>6
    <3>3. D < d
      BY ONLY <1>14, <2>1, <3>2, LaterMonth
    <3> QED BY <3>3, <1>14, <2>1
  <2>10. CASE k < N
    <3> DEFINE e == Day(N - 1)
    <3>1. CD!StepFromAnchor(c, N - 1) <= t /\ Nth(N - 1)
      BY <1>13, <2>5, <2>10
    <3>2. e \in 0 .. CD!Horizon - 1 /\ CD!Month(e) = A + (N - 1) * i
          /\ CD!StepFromAnchor(c, N - 1) = CD!Instant(c, e)
      BY <1>4, <1>12, <3>1
    <3>3. CASE k = N - 1
      <4>1. d = e
        BY <1>4, <1>15, <2>1, <2>6, <3>1, <3>2, <3>3
      <4> QED BY <1>6, <1>15, <2>1, <3>1, <3>2, <4>1
    <3>4. CASE k < N - 1
      <4>1. k * i + i <= (N - 1) * i /\ (N - 1) * i \in Int /\ k * i \in Int
        BY ONLY <1>1, <2>5, <3>4, N \in Nat, Products
      <4>2. CD!Month(d) < CD!Month(e)
        BY ONLY <4>1, <1>1, <1>2, <2>6, <3>2
      <4> HIDE DEF e
      <4>3. d < e
        BY ONLY <2>1, <3>2, <4>2, LaterMonth
      <4>4. CD!Instant(c, d) < CD!Instant(c, e)
        BY <1>1, <2>1, <3>2, <4>3, Instants
      <4> QED BY <1>6, <1>15, <2>1, <3>1, <3>2, <4>4
    <3> QED BY <2>5, <2>10, <3>3, <3>4
  <2> QED BY <2>5, <2>8, <2>9, <2>10
<1>16. D \in Nat
  BY <1>14
<1> HIDE DEF D
<1> QED BY <1>13, <1>14, <1>15, <1>16 DEF Finds

\* The least of some numbers, and the greater of two.
LEMMA LeastOf ==
  ASSUME NEW S \in SUBSET Nat, S # {}
  PROVE  CD!Min(S) \in S /\ \A n \in S : CD!Min(S) <= n
<1>1. PICK n \in S : \A k \in S : n <= k
  BY LeastNatural
<1> QED BY <1>1, Zenon DEF CD!Min

LEMMA GreaterOf ==
  ASSUME NEW a \in Int, NEW b \in Int
  PROVE  CD!Max({a, b}) \in {a, b} /\ CD!Max({a, b}) >= a /\ CD!Max({a, b}) >= b
<1>1. \E x \in {a, b} : \A y \in {a, b} : x >= y
  OBVIOUS
<1> QED BY <1>1, Zenon DEF CD!Max

\* Weeks counted in days, and in weeks.
LEMMA Weeks ==
  ASSUME NEW w \in Int, NEW i \in Nat \ {0}
  PROVE  ((7 * w) % (7 * i) = 0 <=> w % i = 0) /\ (7 * w) \div 7 = w
<1> DEFINE q == w \div i
           r == w % i
<1>1. w = i * q + r /\ r \in 0 .. i - 1 /\ q \in Int
  BY Division
<1> HIDE DEF q, r
<1>2. 7 * w = (7 * i) * q + 7 * r /\ 7 * i \in Nat \ {0} /\ 7 * r \in 0 .. 7 * i - 1
  BY <1>1
<1>3. (7 * w) % (7 * i) = 7 * r
  <2>1. ((7 * i) * q + 7 * r) % (7 * i) = 7 * r
    BY ONLY <1>1, <1>2, Quotient, Zenon
  <2> QED BY ONLY <1>2, <2>1
<1>4. (7 * w + 0) \div 7 = w /\ 7 * w + 0 = 7 * w
  BY Quotient
<1> QED BY <1>1, <1>3, <1>4 DEF r

\* The week a day is in.
LEMMA WeekIs ==
  ASSUME NEW d \in Int
  PROVE  /\ d \div 7 \in Int /\ CD!Weekday(d) \in 0 .. 6
         /\ d = 7 * (d \div 7) + CD!Weekday(d) /\ CD!WeekStart(d) = 7 * (d \div 7)
<1>1. d = 7 * (d \div 7) + (d % 7) /\ d % 7 \in 0 .. 7 - 1 /\ d \div 7 \in Int
  BY Division
<1> QED BY <1>1 DEF CD!Weekday, CD!WeekStart

\* A rule that names weekdays, as the scan tests it.
LEMMA ByWeekday ==
  ASSUME NEW c \in CD!Rules, c.days # {}, NEW d \in Int
  PROVE  CD!FallsOn(c, d) <=>
           /\ d >= c.anchor /\ CD!Weekday(d) \in c.days
           /\ ((CD!WeekStart(d) - CD!WeekStart(c.anchor)) \div 7) % c.interval = 0
<1> DEFINE w == d \div 7 - c.anchor \div 7
<1>1. c.interval \in Nat \ {0} /\ c.anchor \in Int /\ c.freq = "weekly"
  BY RuleFields
<1>2. w \in Int /\ CD!WeekStart(d) - CD!WeekStart(c.anchor) = 7 * w
  BY <1>1, WeekIs
<1>3. CD!FallsOn(c, d) <=>
        /\ d >= c.anchor /\ CD!Weekday(d) \in c.days
        /\ (CD!WeekStart(d) - CD!WeekStart(c.anchor)) % (7 * c.interval) = 0
  BY <1>1, Zenon DEF CD!FallsOn
<1> HIDE DEF w
<1>4. ((7 * w) % (7 * c.interval) = 0 <=> w % c.interval = 0) /\ (7 * w) \div 7 = w
  BY ONLY <1>1, <1>2, Weeks
<1> QED BY <1>2, <1>3, <1>4

\* NextAfter on a rule that names weekdays: a week that counts begins within the
\* days scanned.
LEMMA WeeklyNext ==
  ASSUME NEW c \in CD!Rules, c.days # {}, NEW t \in Int
  PROVE  \E D : Finds(c, t, D)
<1> DEFINE a == c.anchor
           I == c.interval
           today == CD!DayOf(t)
           day == CD!Max({a, today})
           Aligned(d) == ((CD!WeekStart(d) - CD!WeekStart(a)) \div 7) % I = 0
           good == {i \in 0 .. I * 7 + 7 : /\ CD!Instant(c, day + i) > t
                                           /\ CD!Weekday(day + i) \in c.days
                                           /\ Aligned(day + i)}
<1>1. /\ I \in Nat \ {0} /\ a \in Nat /\ c.clock \in 0 .. DayLen - 1
      /\ c.freq = "weekly" /\ c.days \subseteq 0 .. 6
  BY RuleFields
<1>2. \A d \in Int : /\ CD!Instant(c, d) \in Int
                     /\ d < today => CD!Instant(c, d) < t
                     /\ today < d => t < CD!Instant(c, d)
  BY <1>1, DayBounds, DayOfInstant
<1>3. today \in Int /\ a \in Int
  BY <1>1, DayBounds
<1>4. day \in {a, today} /\ day >= a /\ day >= today
  BY ONLY <1>3, GreaterOf, Zenon
<1>5. CD!NextAfter(c, t) = CD!Instant(c, IF good = {} THEN a ELSE day + CD!Min(good))
  BY Zenon DEF CD!NextAfter, CD!NextWeeklyByWeekday
<1>6. \A d \in Int : CD!FallsOn(c, d) <=> d >= a /\ CD!Weekday(d) \in c.days /\ Aligned(d)
  BY ByWeekday
<1> HIDE DEF a, I, today, day
<1>7. day \in Nat
  BY <1>1, <1>3, <1>4
<1>8. good # {}
  <2> DEFINE W == day \div 7
             A == a \div 7
             r == (W - A) % I
             u == (W - A) \div I
  <2>1. W \in Int /\ CD!Weekday(day) \in 0 .. 6 /\ day = 7 * W + CD!Weekday(day)
    BY <1>7, WeekIs
  <2>2. A \in Int /\ a = 7 * A + CD!Weekday(a) /\ CD!Weekday(a) \in 0 .. 6 /\ CD!WeekStart(a) = 7 * A
    BY <1>1, WeekIs
  <2>3. W - A = I * u + r /\ r \in 0 .. I - 1 /\ u \in Int
    <3>1. W - A \in Int
      BY <2>1, <2>2
    <3> QED BY <1>1, <3>1, Division
  <2>4. PICK x \in c.days : TRUE
    OBVIOUS
  <2> HIDE DEF W, A, r, u
  <2> DEFINE D == 7 * (W + I - r) + x
             i == D - day
  <2>5. x \in 0 .. 6 /\ D \in Int /\ D = 7 * (W + I - r) + x
    BY <1>1, <2>1, <2>3, <2>4
  <2>6. i \in 0 .. I * 7 + 7 /\ day < D /\ day + i = D
    BY ONLY <1>1, <1>7, <2>1, <2>3, <2>5
  <2>7. CD!Weekday(D) = x /\ CD!WeekStart(D) = 7 * (W + I - r)
    <3>1. W + I - r \in Int
      BY <1>1, <2>1, <2>3
    <3>2. (7 * (W + I - r) + x) % 7 = x
      BY ONLY <2>5, <3>1, Quotient
    <3>3. CD!Weekday(D) = x
      BY <3>2 DEF CD!Weekday
    <3> QED BY <2>5, <3>1, <3>3 DEF CD!WeekStart
  <2>8. Aligned(D)
    <3> DEFINE v == u + 1
    <3>1. v \in Int /\ CD!WeekStart(D) - CD!WeekStart(a) = 7 * (I * v) /\ I * v \in Int /\ 0 \in 0 .. I - 1
      BY ONLY <1>1, <2>1, <2>2, <2>3, <2>7
    <3>2. (7 * (I * v)) \div 7 = I * v
      BY ONLY <1>1, <3>1, Weeks
    <3>3. (I * v + 0) % I = 0
      BY ONLY <1>1, <3>1, Quotient, Zenon
    <3>4. I * v + 0 = I * v
      BY ONLY <3>1
    <3> QED BY <3>1, <3>2, <3>3, <3>4
  <2>9. CD!Instant(c, D) > t
    <3>1. today < D
      BY <1>3, <1>4, <1>7, <2>5, <2>6
    <3> QED BY <1>2, <2>5, <3>1
  <2> HIDE DEF D, i
  <2>10. CD!Instant(c, day + i) > t /\ CD!Weekday(day + i) \in c.days /\ Aligned(day + i)
    BY ONLY <2>4, <2>6, <2>7, <2>8, <2>9
  <2> HIDE DEF Aligned
  <2> QED BY ONLY <2>6, <2>10
<1> DEFINE m == CD!Min(good)
           D == day + m
<1>9. m \in good /\ \A i \in good : m <= i
  <2>1. good \in SUBSET Nat
    BY <1>1
  <2> HIDE DEF good
  <2> QED BY ONLY <1>8, <2>1, LeastOf
<1>10. CD!NextAfter(c, t) = CD!Instant(c, D)
  BY <1>5, <1>8
<1> HIDE DEF m, Aligned
<1>11. m \in Nat /\ CD!Instant(c, D) > t /\ CD!Weekday(D) \in c.days /\ Aligned(D)
  BY <1>1, <1>9
<1>12. D \in Nat /\ D >= a
  BY <1>1, <1>4, <1>7, <1>11
<1>13. CD!FallsOn(c, D) /\ t < CD!Instant(c, D)
  <2>1. D \in Int
    BY <1>12
  <2> HIDE DEF D
  <2> QED BY <1>2, <1>6, <1>11, <1>12, <2>1
<1>14. ASSUME NEW d \in 0 .. Start + Span, CD!FallsOn(c, d), t < CD!Instant(c, d)
       PROVE  D <= d
  <2>1. d \in Int /\ d >= a /\ CD!Weekday(d) \in c.days /\ Aligned(d)
    BY <1>6, <1>14
  <2>2. d >= today
    BY <1>2, <1>3, <1>14, <2>1
  <2>3. d >= day
    BY <1>4, <2>1, <2>2
  <2> DEFINE i == d - day
  <2>4. i \in Nat /\ day + i = d
    BY <1>7, <2>1, <2>3
  <2> HIDE DEF i
  <2>5. CASE i <= I * 7 + 7
    <3>1. i \in 0 .. I * 7 + 7
      BY ONLY <1>1, <2>4, <2>5
    <3>2. CD!Instant(c, day + i) > t
      BY <1>2, <1>14, <2>1, <2>4
    <3>3. i \in good
      BY ONLY <2>1, <2>4, <3>1, <3>2
    <3>4. m <= i
      BY <1>9, <3>3
    <3> QED BY ONLY <1>7, <1>11, <2>4, <3>4
  <2>6. CASE ~(i <= I * 7 + 7)
    <3>1. m \in 0 .. I * 7 + 7
      BY <1>9
    <3> QED BY ONLY <1>1, <1>7, <2>4, <2>6, <3>1
  <2> QED BY <2>5, <2>6
<1> HIDE DEF D
<1> QED BY <1>10, <1>12, <1>13, <1>14 DEF Finds

\* NextAfter gives the first instant after t that the rule, as its documentation
\* describes it, falls on: none is skipped, and none made up.
THEOREM NextOccurrence ==
  ASSUME NEW c \in CD!Rules, NEW t \in Int, CD!DayOf(t) \in 0 .. Start + Span
  PROVE  \E D : Finds(c, t, D)
<1>1. CASE c.days # {}
  BY <1>1, WeeklyNext
<1>2. CASE c.days = {} /\ c.freq # "monthly"
  BY <1>2, PeriodicNext
<1>3. CASE c.freq = "monthly"
  BY <1>3, MonthlyNext
<1> QED BY <1>1, <1>2, <1>3

\* The occurrences of rule c in the window w, up to u.
Occurrences(c, w, u) ==
  {t \in {CD!Instant(c, day) : day \in {d \in 0 .. CD!DayOf(w.end) : CD!FallsOn(c, d)}} :
     w.start < t /\ t <= u}

\* The walk is somewhere in its window, and has listed what it passed.
CadenceInv ==
  /\ rule \in CD!Rules
  /\ window.start \in Int /\ window.end \in Int /\ at \in Int
  /\ window.start <= at /\ at <= window.end
  /\ CD!DayOf(window.start) >= 0 /\ CD!DayOf(window.end) <= Start + Span
  /\ listed = Occurrences(rule, window, at)

\* Between a and the first occurrence after it there is none.
LEMMA OneFurther ==
  ASSUME NEW c \in CD!Rules, NEW w, w.start \in Int, w.end \in Int, NEW a \in Int,
         w.start <= a, CD!DayOf(w.end) <= Start + Span, NEW D, Finds(c, a, D),
         CD!DayOf(a) >= 0
  PROVE  /\ CD!Instant(c, D) \in Int /\ a < CD!Instant(c, D)
         /\ CD!Instant(c, D) <= w.end =>
              Occurrences(c, w, CD!Instant(c, D)) = Occurrences(c, w, a) \cup {CD!Instant(c, D)}
         /\ w.end < CD!Instant(c, D) /\ a <= w.end =>
              Occurrences(c, w, w.end) = Occurrences(c, w, a)
<1> DEFINE o == CD!Instant(c, D)
           end == CD!DayOf(w.end)
<1>1. c.clock \in 0 .. DayLen - 1
  BY RuleFields
<1>2. /\ D \in Nat /\ a < o /\ CD!FallsOn(c, D)
      /\ \A d \in 0 .. Start + Span : CD!FallsOn(c, d) /\ a < CD!Instant(c, d) => D <= d
  BY DEF Finds
<1>3. end \in Int /\ end <= Start + Span /\ o \in Int /\ Start + Span \in Int
  BY <1>1, <1>2, DayBounds, DayOfInstant, RuleAssumption
<1>4. o <= w.end => D <= end
  <2>1. end < D => w.end < o
    BY <1>1, <1>2, DayBounds
  <2> QED BY <1>2, <1>3, <2>1
<1>5. ASSUME NEW d \in 0 .. end, CD!FallsOn(c, d), a < CD!Instant(c, d)
      PROVE  o <= CD!Instant(c, d) /\ (d # D => o < CD!Instant(c, d))
  <2>1. d \in Int /\ d \in 0 .. Start + Span
    BY <1>3
  <2>2. D <= d
    BY <1>2, <1>5, <2>1
  <2>3. D < d => o < CD!Instant(c, d)
    BY <1>1, <1>2, <2>1, Instants
  <2>4. CD!Instant(c, d) \in Int
    BY <1>1, <2>1, DayOfInstant
  <2> QED BY <1>2, <1>3, <2>1, <2>2, <2>3, <2>4
<1>6. \A d \in 0 .. end : CD!Instant(c, d) \in Int
  BY <1>1, <1>3, DayOfInstant
<1>7. \A u : \A t : t \in Occurrences(c, w, u) <=>
        /\ \E d \in 0 .. end : CD!FallsOn(c, d) /\ t = CD!Instant(c, d)
        /\ w.start < t /\ t <= u
  BY Zenon DEF Occurrences
<1> HIDE DEF o, end
<1>8. ASSUME o <= w.end
      PROVE  Occurrences(c, w, o) = Occurrences(c, w, a) \cup {o}
  <2>1. D \in 0 .. end /\ o = CD!Instant(c, D)
    BY <1>2, <1>3, <1>4, <1>8 DEF o
  <2>2. o \in Occurrences(c, w, o)
    <3>1. w.start < o /\ o <= o
      BY <1>2, <1>3
    <3> QED BY <1>2, <1>7, <2>1, <3>1
  <2>3. ASSUME NEW t \in Occurrences(c, w, a) PROVE t \in Occurrences(c, w, o)
    <3>1. PICK d \in 0 .. end : CD!FallsOn(c, d) /\ t = CD!Instant(c, d)
      BY <1>7
    <3>2. w.start < t /\ t <= a /\ t \in Int
      BY <1>6, <1>7, <3>1
    <3>3. t <= o
      BY <1>2, <1>3, <3>2
    <3> QED BY <1>7, <3>1, <3>2, <3>3
  <2>4. ASSUME NEW t \in Occurrences(c, w, o), t # o PROVE t \in Occurrences(c, w, a)
    <3>1. PICK d \in 0 .. end : CD!FallsOn(c, d) /\ t = CD!Instant(c, d)
      BY <1>7
    <3>2. w.start < t /\ t <= o /\ t \in Int
      BY <1>6, <1>7, <3>1
    <3>3. ~(a < t)
      BY <1>3, <1>5, <2>1, <2>4, <3>1, <3>2
    <3>4. t <= a
      BY <3>2, <3>3
    <3> QED BY <1>7, <3>1, <3>2, <3>4
  <2> QED BY <2>2, <2>3, <2>4
<1>9. ASSUME w.end < o, a <= w.end
      PROVE  Occurrences(c, w, w.end) = Occurrences(c, w, a)
  <2> SUFFICES ASSUME NEW d \in 0 .. end, CD!FallsOn(c, d)
               PROVE  CD!Instant(c, d) <= w.end <=> CD!Instant(c, d) <= a
    BY <1>7
  <2>1. a < CD!Instant(c, d) => o <= CD!Instant(c, d)
    BY <1>5
  <2> QED BY <1>3, <1>6, <1>9, <2>1
<1> QED BY <1>2, <1>3, <1>8, <1>9 DEF o

\* The walk begins with nothing listed.
LEMMA WalkInit == Init => (scene = "cadence" => CadenceInv)
<1> SUFFICES ASSUME Init, scene = "cadence" PROVE CadenceInv
  OBVIOUS
<1>1. rule \in CD!Rules /\ listed = {}
  BY DEF Init, CD!Init
<1>2. PICK day \in 0 .. Start, clock \in 0 .. DayLen - 1 :
        LET start == day * DayLen + clock
        IN  window = [start |-> start, end |-> start + Span * DayLen] /\ at = start
  BY DEF Init, CD!Init
<1> DEFINE start == day * DayLen + clock
           end == (day + Span) * DayLen + clock
<1>3. start \in Int /\ end \in Int /\ start + Span * DayLen = end /\ start <= end
  BY RuleAssumption
<1>4. window.start = start /\ window.end = end /\ at = start
  BY <1>2, <1>3
<1>5. CD!DayOf(start) = day /\ CD!DayOf(end) = day + Span
  <2>1. start = DayLen * day + clock /\ end = DayLen * (day + Span) + clock
        /\ day \in Int /\ day + Span \in Int
    BY RuleAssumption
  <2> HIDE DEF start, end
  <2> QED BY <2>1, Quotient, RuleAssumption DEF CD!DayOf
<1> HIDE DEF start, end
<1>6. Occurrences(rule, window, at) = {}
  <2>1. ASSUME NEW t \in Occurrences(rule, window, at) PROVE FALSE
    <3>1. PICK d \in 0 .. CD!DayOf(window.end) : t = CD!Instant(rule, d)
      BY <2>1, Zenon DEF Occurrences
    <3>2. start < t /\ t <= start
      BY <1>4, <2>1, Zenon DEF Occurrences
    <3>3. t \in Int
      <4>1. d \in Int
        BY <1>4, <1>5, RuleAssumption
      <4> QED BY <1>1, <3>1, <4>1, RuleFields, DayOfInstant
    <3> QED BY <1>3, <3>2, <3>3
  <2> QED BY <2>1
<1>7. day >= 0 /\ day + Span <= Start + Span
  BY RuleAssumption
<1> QED BY <1>1, <1>3, <1>4, <1>5, <1>6, <1>7 DEF CadenceInv

\* The day the walk is on is a day of the calendar.
LEMMA WalkOn ==
  ASSUME CadenceInv
  PROVE  CD!DayOf(at) \in 0 .. Start + Span
<1>1. rule.clock \in 0 .. DayLen - 1 /\ Start + Span \in Int
  BY RuleFields, RuleAssumption DEF CadenceInv
<1>2. /\ window.start \in Int /\ window.end \in Int /\ at \in Int
      /\ window.start <= at /\ at <= window.end
      /\ CD!DayOf(window.start) >= 0 /\ CD!DayOf(window.end) <= Start + Span
  BY DEF CadenceInv
<1>3. /\ CD!DayOf(window.start) \in Int /\ CD!DayOf(at) \in Int /\ CD!DayOf(window.end) \in Int
      /\ CD!DayOf(window.start) <= CD!DayOf(at) /\ CD!DayOf(at) <= CD!DayOf(window.end)
  BY <1>2, DayOrder
<1> QED BY <1>1, <1>2, <1>3

\* A step leaves the walk alone or is one of its turns.
LEMMA Walks ==
  ASSUME [Next]_vars
  PROVE  scene' = scene /\ (CD!Next \/ UNCHANGED cd)
BY Zenon DEF Next, vars

\* Each turn lists the one occurrence it moved to.
LEMMA WalkNext ==
  (scene = "cadence" => CadenceInv) /\ [Next]_vars => (scene = "cadence" => CadenceInv)'
<1> SUFFICES ASSUME scene = "cadence" => CadenceInv, [Next]_vars, scene' = "cadence"
             PROVE  CadenceInv'
  OBVIOUS
<1>1. CadenceInv /\ (CD!Next \/ UNCHANGED cd)
  BY Walks
<1>2. CASE UNCHANGED cd
  BY <1>1, <1>2 DEF cd, CadenceInv
<1>3. CASE CD!Next
  <2>1. /\ CD!NextAfter(rule, at) <= window.end
        /\ at' = CD!NextAfter(rule, at) /\ listed' = listed \cup {CD!NextAfter(rule, at)}
        /\ rule' = rule /\ window' = window
    BY <1>3 DEF CD!Next, CD!OccurrencesBetween
  <2>2. /\ rule \in CD!Rules /\ window.start \in Int /\ window.end \in Int /\ at \in Int
        /\ window.start <= at /\ at <= window.end
        /\ CD!DayOf(window.start) >= 0 /\ CD!DayOf(window.end) <= Start + Span
        /\ listed = Occurrences(rule, window, at)
    BY <1>1 DEF CadenceInv
  <2>3. CD!DayOf(at) \in 0 .. Start + Span
    BY <1>1, WalkOn
  <2>4. PICK D : Finds(rule, at, D)
    BY <2>2, <2>3, NextOccurrence
  <2>5. CD!NextAfter(rule, at) = CD!Instant(rule, D)
    BY <2>4 DEF Finds
  <2>6. /\ at' \in Int /\ at < at'
        /\ Occurrences(rule, window, at') = Occurrences(rule, window, at) \cup {at'}
    BY <2>1, <2>2, <2>3, <2>4, <2>5, OneFurther
  <2>7. window.start <= at'
    BY <2>2, <2>6
  <2> QED BY <2>1, <2>2, <2>6, <2>7 DEF CadenceInv
<1> QED BY <1>1, <1>2, <1>3

\* Walking a rule over a window lists every occurrence in it, once, and nothing
\* else, whatever the calendar, the interval, the weekdays and the anchor.
THEOREM WalksAreComplete == Spec => []WalkIsComplete
<1>1. (scene = "cadence" => CadenceInv) => WalkIsComplete
  <2> SUFFICES ASSUME CadenceInv PROVE CD!WalkIsComplete
    BY DEF WalkIsComplete
  <2>1. /\ rule \in CD!Rules /\ window.start \in Int /\ window.end \in Int /\ at \in Int
        /\ window.start <= at /\ at <= window.end
        /\ CD!DayOf(window.start) >= 0 /\ CD!DayOf(window.end) <= Start + Span
        /\ listed = Occurrences(rule, window, at)
    BY DEF CadenceInv
  <2>2. CD!DayOf(at) \in 0 .. Start + Span
    BY WalkOn
  <2>3. PICK D : Finds(rule, at, D)
    BY <2>1, <2>2, NextOccurrence
  <2>4. CD!NextAfter(rule, at) = CD!Instant(rule, D)
    BY <2>3 DEF Finds
  <2>5. CASE CD!NextAfter(rule, at) > window.end
    <3>1. Occurrences(rule, window, window.end) = Occurrences(rule, window, at)
      BY <2>1, <2>2, <2>3, <2>4, <2>5, OneFurther
    <3> QED BY <2>1, <2>5, <3>1, Zenon DEF CD!WalkIsComplete, Occurrences
  <2>6. CASE ~(CD!NextAfter(rule, at) > window.end)
    BY <2>1, <2>6, Zenon DEF CD!WalkIsComplete, Occurrences
  <2> QED BY <2>5, <2>6
<1> QED BY <1>1, WalkInit, WalkNext, PTL DEF Spec

-----------------------------------------------------------------------------
(* All of them. *)

\* The services' own invariants, together.
ServicesInv == PantryInv /\ ListInv /\ KioskInv /\ ProofInv /\ SyncInv /\ FactorInv /\ StandingInv

LEMMA SceneInit ==
  Init => scene \in {"factor", "kiosk", "standing", "proofs", "cadence", "sync", "supplies"}
BY DEF Init

\* The tables and the requests of every service are well typed.
THEOREM WellTyped == Spec => []TypesOK
<1> DEFINE SceneOK == scene \in {"factor", "kiosk", "standing", "proofs", "cadence", "sync", "supplies"}
<1>1. ServicesInv /\ SceneOK => TypesOK
  <2> SUFFICES ASSUME ServicesInv, SceneOK PROVE TypesOK
    OBVIOUS
  <2>1. SF!TypeOK
    BY DEF ServicesInv, FactorInv, TablesInv, FactorTypes, EnrolmentInv, SF!TypeOK
  <2>2. KA!TypeOK
    BY DEF ServicesInv, KioskInv, KioskTypes, RedeemersInv, KA!TypeOK
  <2>3. PP!TypeOK
    BY DEF ServicesInv, ProofInv, Stamps, PP!TypeOK
  <2>4. CS!TypeOK
    BY DEF ServicesInv, SyncInv, SyncTypes, Pass, CS!TypeOK
  <2>5. SU!TypeOK
    BY DEF ServicesInv, PantryInv, ListInv, ListTypes, SU!TypeOK
  <2>6. scene = "standing" => SC!TypeOK
    <3>1. scene = "standing" => now \in 0 .. ChoreTime
      BY StandingAssumption DEF ServicesInv, StandingInv, StandingTypes, ClockInv, StandingAssumption
    <3> QED BY <3>1 DEF ServicesInv, StandingInv, StandingTypes, ClockInv, RowsInv, CyclesInv, CountsInv, SC!TypeOK
  <2> QED BY <2>1, <2>2, <2>3, <2>4, <2>5, <2>6 DEF TypesOK
<1>2. Init => ServicesInv /\ SceneOK
  BY PantryInit, ListInit, KioskInit, ProofInit, SyncInit, FactorInit, StandingInit, SceneInit DEF ServicesInv
<1>3. ServicesInv /\ SceneOK /\ [Next]_vars => (ServicesInv /\ SceneOK)'
  BY PantryNext, ListNext, KioskNext, ProofNext, SyncNext, FactorNext, StandingNext, Turns DEF ServicesInv
<1> QED BY <1>1, <1>2, <1>3, PTL DEF Spec
=============================================================================
