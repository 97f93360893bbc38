------------------------------- MODULE Services -------------------------------
(***************************************************************************)
(* The services that keep tables of their own and meet only in the pages   *)
(* they render, put side by side: a behaviour is a behaviour of one of     *)
(* them while the others rest.                                             *)
(***************************************************************************)
EXTENDS Integers, Sequences

CONSTANTS
  None,
  Requests, Secrets, Batches, PerBatch, Steps,           \* of SecondFactor
  Tabs, KioskCodes, TTL, KioskTime,                      \* of KioskActivation
  Members, Instances, Schedulers, ClaimWindow,           \* of StandingChore
  WarnAhead, ChoreTime, MaxFaults,
  Cameras, Policy, FreshFor, Retention, ProofTime,       \* of ProofPhotos
  Events, Syncers, MaxChanges,                           \* of CalendarSync
  FirstDay, DayLen, Intervals, Weekdays, Anchors,        \* of Cadence
  Start, Span,
  Restocks, Meals, Runs, Entries, Cooks, Stock, MaxStock \* of Supplies

ASSUME NullAssumption ==
  /\ None \notin Int
  /\ None \notin Members \cup Restocks \cup Meals
  /\ None \notin KioskCodes \X Tabs
ASSUME FactorAssumption == Secrets \subseteq Nat /\ Batches \subseteq Nat /\ Steps \subseteq Nat \ {0}
ASSUME KioskAssumption == TTL \in Nat /\ KioskTime \in Nat
ASSUME StandingAssumption ==
  /\ 1 \in Instances
  /\ ClaimWindow \in Nat \ {0} /\ WarnAhead \in Nat /\ ChoreTime \in Nat /\ MaxFaults \in Nat
ASSUME ProofAssumption == FreshFor \in Nat /\ Retention \in Nat /\ ProofTime \in Nat
\* The server runs one sync scheduler.
ASSUME SyncAssumption == MaxChanges \in Nat /\ \A y, z \in Syncers : y = z
ASSUME SuppliesAssumption == MaxStock \in Nat /\ Stock \in 0 .. MaxStock

\* Cadence.Validate asks for a positive interval.  The calendar goes on for an
\* interval of months after the last window.
ASSUME RuleAssumption ==
  /\ DayLen \in Nat \ {0} /\ Start \in Nat /\ Span \in Nat
  /\ Intervals \subseteq Nat \ {0} /\ Anchors \subseteq Nat
  /\ \A days \in Weekdays : days \subseteq 0 .. 6
ASSUME CalendarAssumption ==
  /\ FirstDay \in Seq(Nat) /\ Len(FirstDay) > 1 /\ FirstDay[1] = 0
  /\ \A m, n \in 1 .. Len(FirstDay) : m < n => FirstDay[m] < FirstDay[n]
  /\ \A i \in Intervals : \E m \in 1 .. Len(FirstDay) - 1 - i :
       \A day \in Anchors \cup {Start + Span} : day < FirstDay[m + 1]

VARIABLES
  scene,  \* the service at work
  enrol, codes, devices, req, secrets, batches, confirmed, proven, accepted, shown,
  now, code, device, tab, collisions, latest, revoked,
  faults, standing, sweep, warnings, lostWarnings, unsure,
  proofs, shot, closing, chore,
  rule, window, at, listed,
  remote, changes, oldest, hidden, cursor, cache, pass,
  entry, run, notices, stock, cook, moved

SF == INSTANCE SecondFactor

KA == INSTANCE KioskActivation WITH Codes <- KioskCodes, MaxTime <- KioskTime

SC == INSTANCE StandingChore WITH MaxTime <- ChoreTime

PP == INSTANCE ProofPhotos WITH Fresh <- FreshFor, MaxTime <- ProofTime

CD == INSTANCE Cadence

CS == INSTANCE CalendarSync

SU == INSTANCE Supplies

NoWalk == rule = None /\ window = None /\ at = None /\ listed = {}

Init == /\ SF!Init /\ KA!Init /\ SC!Init /\ PP!Init /\ CS!Init /\ SU!Init
        /\ \/ scene \in {"factor", "kiosk", "standing", "proofs", "sync", "supplies"} /\ NoWalk
           \/ scene = "cadence" /\ CD!Init

\* The services' variables; the clock is shared.
sf == <<enrol, codes, devices, req, secrets, batches, confirmed, proven, accepted, shown>>
ka == <<code, device, tab, collisions, latest, revoked>>
sc == <<faults, standing, sweep, warnings, lostWarnings, unsure>>
pp == <<proofs, shot, closing, chore>>
cd == <<rule, window, at, listed>>
cs == <<remote, changes, oldest, hidden, cursor, cache, pass>>
su == <<entry, run, notices, stock, cook, moved>>

vars == <<scene, now, sf, ka, sc, pp, cd, cs, su>>

Next ==
  /\ UNCHANGED scene
  /\ \/ scene = "factor" /\ SF!Next /\ UNCHANGED <<now, ka, sc, pp, cd, cs, su>>
     \/ scene = "kiosk" /\ KA!Next /\ UNCHANGED <<sf, sc, pp, cd, cs, su>>
     \/ scene = "standing" /\ SC!Next /\ UNCHANGED <<sf, ka, pp, cd, cs, su>>
     \/ scene = "proofs" /\ PP!Next /\ UNCHANGED <<sf, ka, sc, cd, cs, su>>
     \/ scene = "cadence" /\ CD!Next /\ UNCHANGED <<sf, now, ka, sc, pp, cs, su>>
     \/ scene = "sync" /\ CS!Next /\ UNCHANGED <<sf, now, ka, sc, pp, cd, su>>
     \/ scene = "supplies" /\ SU!Next /\ UNCHANGED <<sf, now, ka, sc, pp, cd, cs>>

Spec == Init /\ [][Next]_vars

-----------------------------------------------------------------------------
(* Properties: the services' own, by the names they have there. *)

\* The types of all the services' tables and requests.
TypesOK == /\ SF!TypeOK /\ KA!TypeOK /\ PP!TypeOK /\ CS!TypeOK /\ SU!TypeOK
           /\ scene = "standing" => SC!TypeOK
           /\ scene \in {"factor", "kiosk", "standing", "proofs", "cadence", "sync", "supplies"}

\* No recovery code signs in twice, nor a TOTP step of the enrolment in force.
\* A sign-in that outlives its enrolment is excepted: it may present a step of
\* the replaced secret, which RecordLoginStep does not check.
AcceptedOnce == SF!AcceptedOnce

\* The recovery codes a member was shown stay on file.
ShownCodesStand == SF!ShownCodesStand

\* Remembered devices belong to the enrolment they were verified under.
DevicesFollowEnrolment == SF!DevicesFollowEnrolment

\* One kiosk device is active: the last one provisioned.
OneDeviceStands == KA!OneDeviceStands

\* A standing chore has exactly one open instance.
OneOpenStanding == SC!OneOpenStanding

\* A claimant is warned exactly once of a claim's expiry.
WarnedOncePerWindow == SC!WarnedOncePerWindow

\* No after photo precedes a before photo.
ProofsInOrder == PP!ProofsInOrder

\* Walking a recurrence rule lists its occurrences, all and no others.
WalkIsComplete == scene = "cadence" => CD!WalkIsComplete

\* The sync cursor never runs ahead of the cached events.
CacheCoversCursor == CS!CacheCoversCursor

\* A line of the shopping list is open once, and a restock told once.
OneOpenEntry == SU!OneOpenEntry

\* No change to the pantry is lost.
PantryAddsUp == SU!PantryAddsUp
=============================================================================
