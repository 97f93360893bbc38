------------------------------ MODULE TradeBoard -----------------------------
(***************************************************************************)
(* The tables behind chore trades, and what the trade repository promises  *)
(* about them: every operation is one atomic step.  ChoreTrade implements  *)
(* these steps with transactions.                                          *)
(*                                                                         *)
(* Chores here are scheduled and assigned when they are generated.  A pool *)
(* chore is never tradeable: it has no assignee until it is claimed, and   *)
(* it is claimed for as long as it has one.  One unit of the clock is one  *)
(* day of the household's time zone, which is as finely as due dates, the  *)
(* expiry of a trade and the overdue sweep look at it.                     *)
(***************************************************************************)
EXTENDS Naturals, FiniteSets

CONSTANTS
  Members, Trades,
  Chores,       \* instance ids; row locks are taken in id order
  None,         \* SQL NULL
  DueDay,       \* DueDay[c]: due_on
  FirstHolder,  \* FirstHolder[c]: the assignee the generator chose
  MaxTime       \* bound on the clock

ASSUME SetsAssumption ==
  /\ Chores \subseteq Nat
  /\ None \notin Members \cup Trades \cup Chores
ASSUME DueAssumption == DueDay \in [Chores -> Nat]
ASSUME HolderAssumption == FirstHolder \in [Chores -> Members]
ASSUME TimeAssumption == MaxTime \in Nat

VARIABLES
  now,          \* today
  chore,        \* the task_instance table
  trade,        \* the chore_trade table
  reservation   \* chore_trade_reservation: the live trade that reserves a chore

tables == <<chore, trade, reservation>>

-----------------------------------------------------------------------------
(* Rows. *)

ChoreRecord ==
  [status : {"pending", "overdue", "done", "skipped"},
   assignee : Members, claimed : BOOLEAN]

Outcomes == {"accepted", "declined", "cancelled", "expired"}

TradeRecord ==
  [status : Outcomes \cup {"absent", "proposed"},
   proposer : Members \cup {None}, responder : Members \cup {None},
   offered : Chores \cup {None}, requested : Chores \cup {None}, expires : Nat]

NoTrade == [status |-> "absent", proposer |-> None, responder |-> None,
            offered |-> None, requested |-> None, expires |-> 0]

TablesInit ==
  /\ now = 0
  /\ chore = [c \in Chores |-> [status |-> "pending", assignee |-> FirstHolder[c],
                                claimed |-> FALSE]]
  /\ trade = [t \in Trades |-> NoTrade]
  /\ reservation = [c \in Chores |-> None]

-----------------------------------------------------------------------------
(* Queries. *)

Tradeable(c) == chore[c].status = "pending" /\ ~chore[c].claimed

Live(t) == trade[t].status = "proposed"

Sides(t) == {trade[t].offered, trade[t].requested}

LiveOn(S) == \E t \in Trades : Live(t) /\ Sides(t) \cap S # {}

\* Mutant: a trade ends with the later of the two due days.
LaterExpiry(a, b) == 1 + IF DueDay[a] < DueDay[b] THEN DueDay[b] ELSE DueDay[a]

\* The first day on which a trade of chores a and b is over.
TradeExpiry(a, b) == 1 + IF DueDay[a] < DueDay[b] THEN DueDay[a] ELSE DueDay[b]

Lapsed(t, day) == Live(t) /\ trade[t].expires <= day

PastDue(c, day) == chore[c].status = "pending" /\ DueDay[c] < day

Closable(c) == chore[c].status \in {"pending", "overdue"}

HeldByParty(t, c) ==
  \/ c = trade[t].offered   /\ chore[c].assignee = trade[t].proposer
  \/ c = trade[t].requested /\ chore[c].assignee = trade[t].responder

-----------------------------------------------------------------------------
(* Updates. *)

Insert(t, m, n, a, b) ==
  /\ trade' = [trade EXCEPT ![t] =
                 [status |-> "proposed", proposer |-> m, responder |-> n,
                  offered |-> a, requested |-> b, expires |-> TradeExpiry(a, b)]]
  /\ reservation' = [c \in Chores |-> IF c \in {a, b} THEN t ELSE reservation[c]]

\* Mutant: the trigger frees the offered chore only.
FreedOffered(T) == {trade[t].offered : t \in T}

\* The rows the trigger deletes when the trades T leave 'proposed'.
Freed(T) == {c \in Chores : reservation[c] \in T}

Resolve(T, outcome) ==
  /\ trade' = [t \in Trades |-> IF t \in T THEN [trade[t] EXCEPT !.status = outcome]
                                           ELSE trade[t]]
  /\ reservation' = [c \in Chores |-> IF c \in Freed(T) THEN None ELSE reservation[c]]

Swap(t) ==
  chore' = [chore EXCEPT ![trade[t].offered].assignee = trade[t].responder,
                         ![trade[t].requested].assignee = trade[t].proposer]

MarkOverdue(S) ==
  chore' = [c \in Chores |-> IF c \in S THEN [chore[c] EXCEPT !.status = "overdue"]
                                        ELSE chore[c]]

-----------------------------------------------------------------------------
(* The atomic operations. *)

Propose ==
  \E t \in Trades, m, n \in Members, a, b \in Chores :
    /\ m # n /\ a # b
    /\ trade[t].status = "absent"
    /\ Tradeable(a) /\ chore[a].assignee = m
    /\ Tradeable(b) /\ chore[b].assignee = n
    /\ ~LiveOn({a, b})
    /\ Insert(t, m, n, a, b)
    /\ UNCHANGED <<now, chore>>

Accept ==
  \E t \in Trades :
    /\ Live(t)
    /\ \A c \in Sides(t) : Tradeable(c) /\ HeldByParty(t, c)
    /\ Swap(t)
    /\ Resolve({t}, "accepted")
    /\ UNCHANGED now

Refuse ==
  \E t \in Trades, outcome \in {"declined", "cancelled"} :
    /\ Live(t)
    /\ Resolve({t}, outcome)
    /\ UNCHANGED <<now, chore>>

Expire ==
  \E T \in SUBSET Trades :
    /\ \A t \in T : Lapsed(t, now)
    /\ Resolve(T, "expired")
    /\ UNCHANGED <<now, chore>>

GoOverdue ==
  \E S \in SUBSET Chores :
    /\ \A c \in S : PastDue(c, now)
    /\ MarkOverdue(S)
    /\ UNCHANGED <<now, trade, reservation>>

\* The assignee claims an assigned chore: no expiry, so for good.
ClaimChore(c) ==
  /\ Closable(c)
  /\ chore' = [chore EXCEPT ![c].claimed = TRUE]
  /\ UNCHANGED <<now, trade, reservation>>

CloseChore(c) ==
  /\ Closable(c)
  /\ \E how \in {"done", "skipped"} :
       chore' = [chore EXCEPT ![c].status = how, ![c].claimed = FALSE]
  /\ UNCHANGED <<now, trade, reservation>>

DayPasses == now < MaxTime /\ now' = now + 1 /\ UNCHANGED tables

BoardNext ==
  \/ Propose \/ Accept \/ Refuse \/ Expire \/ GoOverdue \/ DayPasses
  \/ \E c \in Chores : ClaimChore(c) \/ CloseChore(c)

BoardSpec == TablesInit /\ [][BoardNext]_<<now, tables>>
=============================================================================
