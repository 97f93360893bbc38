----------------------------- MODULE LedgerTables ----------------------------
(***************************************************************************)
(* The tables behind a household's points: the columns of member ledger,    *)
(* reward, reward_redemption and task_instance that the point economy reads *)
(* and writes, and the queries both the transactional model (PointLedger)   *)
(* and the atomic one (HouseholdLedger) ask of them.                        *)
(*                                                                         *)
(* Chores here are the claimable ones only (no assignee until claimed), so *)
(* assignee_id and claimed_by agree while a chore is open: they are the    *)
(* ones whose claims expire.                                               *)
(***************************************************************************)
EXTENDS Integers, FiniteSets

CONSTANTS
  Members,        \* member ids; claimants are charged in id order
  Rewards, Redemptions, Links, Chores,
  None,           \* SQL NULL
  Points,         \* Points[i]: recurring_task.points of chore i
  LinkReward,     \* LinkReward[l]: the reward the signed path of link l names
  Costs,          \* the prices a parent may set
  Quantities,     \* the stocks a parent may set (None: unlimited)
  OpeningBalance, \* OpeningBalance[m]: points earned before the run
  ClaimWindow,    \* domain.ClaimWindow, in ticks of the clock
  MaxTime         \* bound on the clock

ASSUME SetsAssumption ==
  /\ Members \subseteq Nat
  /\ None \notin Members \cup Rewards \cup Redemptions \cup Links \cup Chores
  /\ None \notin Int
\* A household has finitely many members.
ASSUME FiniteAssumption == IsFiniteSet(Members)
ASSUME PointsAssumption == Points \in [Chores -> Nat]
ASSUME LinkAssumption == LinkReward \in [Links -> Rewards]
ASSUME CatalogAssumption ==
  /\ Costs \subseteq Nat \ {0}
  /\ Quantities \subseteq Nat \cup {None}
ASSUME OpeningAssumption == OpeningBalance \in [Members -> Nat]
ASSUME TimeAssumption == ClaimWindow \in Nat \ {0} /\ MaxTime \in Nat

VARIABLES
  now,         \* the wall clock
  bal,         \* bal[m]: SUM(points) of m's committed ledger rows
  reward,      \* the reward table
  redemption,  \* the reward_redemption table
  debit,       \* debit[r]: magnitude of r's 'redemption' ledger row (0: none)
  refund,      \* refund[r]: total of r's 'redemption_refund' ledger rows
  chore,       \* the task_instance table
  awarded,     \* chores with a 'task_instance' ledger row
  charged,     \* <<chore, claimed_at>> with a 'claim_expiry' ledger row
  pardoned     \* <<chore, claimed_at>> ended with a zero penalty and no row

tables == <<bal, reward, redemption, debit, refund, chore, awarded, charged, pardoned>>

-----------------------------------------------------------------------------
(* Rows. *)

Statuses == {"pending", "fulfilled", "denied", "cancelled"}

RewardRecord == [exists : BOOLEAN, active : BOOLEAN, cost : Nat, qty : Nat \cup {None}]
RedemptionRecord ==
  [status : Statuses \cup {"absent"}, member : Members \cup {None},
   reward : Rewards \cup {None}, link : Links \cup {None}]
ChoreRecord ==
  [status : {"pending", "done", "skipped"}, claimant : Members \cup {None},
   claimedAt : Nat \cup {None}, expires : Nat \cup {None}]

\* The rows the migrations start from: nothing listed, redeemed or claimed.
NoChore == [status |-> "pending", claimant |-> None, claimedAt |-> None, expires |-> None]
NoReward == [exists |-> FALSE, active |-> FALSE, cost |-> 0, qty |-> None]
NoRedemption == [status |-> "absent", member |-> None, reward |-> None, link |-> None]

TablesInit ==
  /\ now = 0
  /\ bal = OpeningBalance
  /\ reward = [w \in Rewards |-> NoReward]
  /\ redemption = [r \in Redemptions |-> NoRedemption]
  /\ debit = [r \in Redemptions |-> 0]
  /\ refund = [r \in Redemptions |-> 0]
  /\ chore = [i \in Chores |-> NoChore]
  /\ awarded = {} /\ charged = {} /\ pardoned = {}

\* Every column holds values of its type.
TablesOK ==
  /\ now \in Nat
  /\ bal \in [Members -> Int]
  /\ reward \in [Rewards -> RewardRecord]
  /\ redemption \in [Redemptions -> RedemptionRecord]
  /\ debit \in [Redemptions -> Nat]
  /\ refund \in [Redemptions -> Int]
  /\ chore \in [Chores -> ChoreRecord]
  /\ awarded \subseteq Chores
  /\ charged \subseteq Chores \X Nat
  /\ pardoned \subseteq Chores \X Nat

-----------------------------------------------------------------------------
(* Queries. *)

\* Redemptions that hold a unit of stock: status NOT IN (cancelled, denied).
Live(w) == {r \in Redemptions : /\ redemption[r].reward = w
                                /\ redemption[r].status \in {"pending", "fulfilled"}}

Open(i) == chore[i].status = "pending"
LapsedBy(i, at) == /\ Open(i)
                   /\ chore[i].expires # None
                   /\ chore[i].expires <= at

ClaimExpiryPenalty(points) == IF points \div 2 > 1 THEN points \div 2 ELSE 1

\* Mutant: a penalty is not capped by the balance.
First(a, b) == a

Least(a, b) == IF a <= b THEN a ELSE b

-----------------------------------------------------------------------------
(* The reward catalogue.  Each operation is one auto-committed statement;   *)
(* the modules that use it add when the statement may run.                  *)

OtherTables == <<now, bal, redemption, debit, refund, chore, awarded, charged, pardoned>>

CreateReward(w, c, q) ==
  /\ ~reward[w].exists
  /\ reward' = [reward EXCEPT ![w] = [exists |-> TRUE, active |-> TRUE, cost |-> c, qty |-> q]]
  /\ UNCHANGED OtherTables

UpdateReward(w, c, q) ==
  /\ reward[w].exists
  /\ reward' = [reward EXCEPT ![w].cost = c, ![w].qty = q]
  /\ UNCHANGED OtherTables

ArchiveReward(w) ==
  /\ reward[w].exists
  /\ reward' = [reward EXCEPT ![w].active = FALSE]
  /\ UNCHANGED OtherTables

\* ON DELETE RESTRICT: a reward with any redemption row stays.
DeleteReward(w) ==
  /\ reward[w].exists
  /\ \A r \in Redemptions : redemption[r].reward # w
  /\ reward' = [reward EXCEPT ![w] = NoReward]
  /\ UNCHANGED OtherTables

=============================================================================
