--------------------------- MODULE KioskActivation ---------------------------
(***************************************************************************)
(* A household's kiosk device and the one-time codes that provision it.    *)
(*                                                                         *)
(* Redeem is a READ COMMITTED transaction whose statements are steps of    *)
(* their own: it locks the code's row, takes the household's advisory      *)
(* lock, marks the code used and revokes the active device, inserts the    *)
(* new one and commits.  What it wrote is visible once it has committed;   *)
(* it may fail, and roll back, before any statement.                       *)
(***************************************************************************)
EXTENDS Naturals, FiniteSets

CONSTANTS
  Tabs,       \* browsers that redeem a code
  Codes,      \* 1 .. n: the activation codes a parent creates, in order
  TTL,        \* ticks a code is good for
  MaxTime,    \* bound on the clock
  None

VARIABLES
  now,
  code,       \* code[c]: the row of activation code c
  device,     \* device[<<c, t>>]: the row of the device tab t provisioned with code c
  tab,        \* tab[t]: the redemption in progress at t
  collisions, \* history: redemptions that failed on the index of active devices
  latest,     \* history: the device provisioned last
  revoked     \* history: devices a parent has revoked

vars == <<now, code, device, tab, collisions, latest, revoked>>

NoCode == [expires |-> None, used |-> FALSE]
Idle   == [pc |-> "idle", code |-> None, at |-> 0, drop |-> {}]

Devices == Codes \X Tabs
Active  == {d \in Devices : device[d] = "active"}

Init == /\ now = 0 /\ code = [c \in Codes |-> NoCode] /\ device = [d \in Devices |-> "absent"]
        /\ tab = [t \in Tabs |-> Idle] /\ collisions = 0 /\ latest = None /\ revoked = {}

Goto(t, r) == tab' = [tab EXCEPT ![t] = r]

\* The transactions that hold the row of code c, or the household's lock.
HoldsCode(t, c) == tab[t].code = c /\ tab[t].pc \in {"lock", "revoke", "insert", "commit"}
HoldsHousehold(t) == tab[t].pc \in {"revoke", "insert", "commit"}
HoldsDevice(t, d) == d \in tab[t].drop

\* CreateActivationCode.
CreateActivationCode(c) ==
  /\ code[c] = NoCode /\ \A b \in Codes : b < c => code[b] # NoCode
  /\ code' = [code EXCEPT ![c].expires = now + TTL]
  /\ UNCHANGED <<now, device, tab, collisions, latest, revoked>>

\* The service captures its time and opens the transaction.
Redeem(t, c) ==
  /\ tab[t].pc = "idle" /\ code[c] # NoCode
  /\ Goto(t, [Idle EXCEPT !.pc = "lookup", !.code = c, !.at = now])
  /\ UNCHANGED <<now, code, device, collisions, latest, revoked>>

\* Mutant: the code's row is read without FOR UPDATE.
ReadsFreely(t) == TRUE

\* SELECT ... FOR UPDATE.
LocksCode(t) == \A u \in Tabs \ {t} : ~HoldsCode(u, tab[t].code)

Lookup(t) ==
  LET c == tab[t].code
  IN  /\ tab[t].pc = "lookup" /\ LocksCode(t)
      /\ Goto(t, IF code[c].used \/ tab[t].at >= code[c].expires THEN Idle ELSE [tab[t] EXCEPT !.pc = "lock"])
      /\ UNCHANGED <<now, code, device, collisions, latest, revoked>>

\* pg_advisory_xact_lock.
LocksHousehold(t) == \A u \in Tabs \ {t} : ~HoldsHousehold(u)

LockHousehold(t) ==
  /\ tab[t].pc = "lock" /\ LocksHousehold(t)
  /\ Goto(t, [tab[t] EXCEPT !.pc = "revoke"])
  /\ UNCHANGED <<now, code, device, collisions, latest, revoked>>

\* The code is marked and the active devices are revoked, to be seen at commit.
MarkUsedAndRevoke(t) ==
  /\ tab[t].pc = "revoke"
  /\ \A u \in Tabs \ {t} : tab[u].drop \cap Active = {}
  /\ Goto(t, [tab[t] EXCEPT !.pc = "insert", !.drop = Active])
  /\ UNCHANGED <<now, code, device, collisions, latest, revoked>>

\* The unique index admits one active device, those about to be included.
InsertDevice(t) ==
  /\ tab[t].pc = "insert"
  /\ \A u \in Tabs \ {t} : tab[u].pc # "commit"
  /\ IF Active \subseteq tab[t].drop
     THEN Goto(t, [tab[t] EXCEPT !.pc = "commit"]) /\ UNCHANGED collisions
     ELSE Goto(t, Idle) /\ collisions' = collisions + 1
  /\ UNCHANGED <<now, code, device, latest, revoked>>

Commit(t) ==
  LET c == tab[t].code
  IN  /\ tab[t].pc = "commit" /\ Goto(t, Idle)
      /\ code' = [code EXCEPT ![c].used = TRUE]
      /\ device' = [d \in Devices |-> IF d = <<c, t>> THEN "active"
                                      ELSE IF d \in tab[t].drop THEN "revoked" ELSE device[d]]
      /\ latest' = <<c, t>>
      /\ UNCHANGED <<now, collisions, revoked>>

Rollback(t) == /\ tab[t].pc # "idle" /\ Goto(t, Idle)
               /\ UNCHANGED <<now, code, device, collisions, latest, revoked>>

\* A parent revokes a device from the settings page; the update waits for a
\* transaction that has revoked it already.
Revoke(d) ==
  /\ device[d] = "active" /\ \A t \in Tabs : ~HoldsDevice(t, d)
  /\ device' = [device EXCEPT ![d] = "revoked"]
  /\ revoked' = revoked \cup {d}
  /\ UNCHANGED <<now, code, tab, collisions, latest>>

Advance == now < MaxTime /\ now' = now + 1 /\ UNCHANGED <<code, device, tab, collisions, latest, revoked>>

Next == \/ \E c \in Codes : CreateActivationCode(c) \/ \E t \in Tabs : Redeem(t, c)
        \/ \E t \in Tabs : \/ Lookup(t) \/ LockHousehold(t) \/ MarkUsedAndRevoke(t)
                           \/ InsertDevice(t) \/ Commit(t) \/ Rollback(t)
        \/ \E d \in Devices : Revoke(d)
        \/ Advance

Spec == Init /\ [][Next]_vars

-----------------------------------------------------------------------------
(* Properties. *)

\* The types of the codes, the devices and the redemptions.
TypeOK == /\ code \in [Codes -> [expires : (0 .. MaxTime + TTL) \cup {None}, used : BOOLEAN]]
          /\ device \in [Devices -> {"absent", "active", "revoked"}]
          /\ \A t \in Tabs : tab[t].pc \in {"idle", "lookup", "lock", "revoke", "insert", "commit"}

\* The device provisioned last is the household's one active device, until a
\* parent revokes it, and a code provisions at most one: no redemption, failed
\* or concurrent, leaves the household with none or with two.  Nor do two
\* redemptions fail on each other: the lock of the household keeps them from
\* meeting at the index of active devices.
OneDeviceStands ==
  /\ Active = IF latest = None \/ latest \in revoked THEN {} ELSE {latest}
  /\ \A c \in Codes : Cardinality({t \in Tabs : device[<<c, t>>] # "absent"}) = IF code[c].used THEN 1 ELSE 0
  /\ collisions = 0
=============================================================================
