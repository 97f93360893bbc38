-------------------------- MODULE PointLedgerProofs --------------------------
(***************************************************************************)
(* Proofs about PointLedger for every household, catalogue, clock bound    *)
(* and number of connections.                                              *)
(*                                                                         *)
(* BalanceNeverNegative is not inductive: a commit publishes the delta of  *)
(* its transaction, so one has to know about transactions still in flight. *)
(* IInv says that an open transaction whose delta takes points from a      *)
(* member holds that member's lock and could commit now (Solvent), that    *)
(* what it read under a lock still holds (Redeeming, Charging), that the   *)
(* claims it is about to settle are still there (Settling), and that no    *)
(* lock has two holders (LockMutex).                                       *)
(***************************************************************************)
EXTENDS PointLedger, TLAPS

RedeemPCs == {"redeem: lock member", "redeem: lock reward", "redeem: read balance",
              "redeem: count stock", "redeem: insert", "redeem: commit"}
ResolvePCs == {"resolve: update", "resolve: refund", "resolve: commit"}
ClosePCs == {"close: check lapse", "close: update", "close: commit"}
ChargePCs == {"charge: lock", "charge: read", "charge: insert"}

\* The local variables a program point relies on have been assigned.
Assigned(r) ==
  /\ r.pc \in RedeemPCs =>
       r.member \in Members /\ r.reward \in Rewards /\ r.rid \in Redemptions
  /\ r.pc \in ResolvePCs => r.rid \in Redemptions /\ r.outcome \in {"denied", "cancelled"}
                             /\ redemption[r.rid].status # "absent"
  /\ r.pc \in {"resolve: refund", "resolve: commit"} => r.member \in Members
  /\ r.pc \in ClosePCs =>
       r.chore \in Chores /\ r.member \in Members /\ r.outcome \in {"done", "skipped"}
  /\ r.pc \in ChargePCs =>
       /\ r.debtor \in Members /\ r.chore \in r.todo
       /\ r.outcome \in {"done", "skipped", "reverted"}
       /\ r.outcome # "reverted" => r.member \in Members

\* The transaction could commit now, and only it can take from those it debits.
Solvent(r) ==
  \A m \in Members : /\ bal[m] + r.delta[m] >= 0
                     /\ r.delta[m] < 0 => MemberLock(m) \in r.locks

\* From the member lock on, the funds check of a redemption cannot go stale.
Redeeming(r) ==
  /\ r.pc \in {"redeem: lock reward", "redeem: read balance",
               "redeem: count stock", "redeem: insert"} =>
       MemberLock(r.member) \in r.locks
  /\ r.pc \in {"redeem: count stock", "redeem: insert"} =>
       bal[r.member] + r.delta[r.member] >= r.cost

\* From the debtor's lock on, the cap of a penalty cannot go stale.
Charging(r) ==
  /\ r.pc \in {"charge: read", "charge: insert"} => MemberLock(r.debtor) \in r.locks
  /\ r.pc = "charge: insert" => bal[r.debtor] + r.delta[r.debtor] >= r.fine

\* The claims being settled are locked and still in their table.
Settling(r) ==
  \A i \in r.todo \cup r.fined \cup r.spared :
    /\ ChoreRow(i) \in r.locks
    /\ chore[i].claimant \in Members /\ chore[i].claimedAt \in Nat

\* A closing transaction about to commit holds its chore.
Closing(r) == r.pc = "close: commit" => ChoreRow(r.chore) \in r.locks

SessionOK(r) ==
  /\ Assigned(r) /\ Solvent(r)
  /\ Redeeming(r) /\ Charging(r) /\ Settling(r) /\ Closing(r)

\* No resource is held by two transactions.
LockMutex == \A s, t \in Sessions : s # t => tx[s].locks \cap tx[t].locks = {}

\* The CHECK constraints and foreign keys that rows rely on.
RowsOK ==
  /\ \A r \in Redemptions : redemption[r].status # "absent" =>
       redemption[r].member \in Members
  /\ \A i \in Chores : chore[i].expires # None =>
       chore[i].claimant \in Members /\ chore[i].claimedAt \in Nat

IInv == /\ TypeOK
        /\ BalanceNeverNegative
        /\ RowsOK
        /\ LockMutex
        /\ \A s \in Sessions : SessionOK(tx[s])

-----------------------------------------------------------------------------
(* Lemmas about one session's step that leaves the tables alone. *)

\* What the invariant says of a session depends on its record, the balances,
\* the redemptions and the chores only.
LEMMA SessionStable ==
  ASSUME NEW r, SessionOK(r), NEW t \in Sessions, tx'[t] = r,
         bal' = bal, redemption' = redemption, chore' = chore
  PROVE  SessionOK(tx[t])'
<1>1. Assigned(tx[t])'
  BY DEF SessionOK, Assigned, RedeemPCs, ResolvePCs, ClosePCs, ChargePCs
<1>2. Solvent(tx[t])'
  BY DEF SessionOK, Solvent, MemberLock
<1>3. Redeeming(tx[t])' /\ Charging(tx[t])'
  BY DEF SessionOK, Redeeming, Charging, MemberLock
<1>4. Settling(tx[t])' /\ Closing(tx[t])'
  BY DEF SessionOK, Settling, Closing, ChoreRow
<1> QED BY <1>1, <1>2, <1>3, <1>4 DEF SessionOK

\* A session may move to any record that is itself in order and whose locks
\* nobody else holds.
LEMMA LocalStep ==
  ASSUME IInv, NEW s \in Sessions, NEW r \in TxState, SessionOK(r),
         \A t \in Sessions \ {s} : r.locks \cap tx[t].locks = {},
         tx' = [tx EXCEPT ![s] = r], UNCHANGED <<now, tables>>
  PROVE  IInv'
<1>1. TypeOK'
  BY DEF IInv, TypeOK, TablesOK, tables
<1>2. BalanceNeverNegative' /\ RowsOK'
  BY DEF IInv, BalanceNeverNegative, RowsOK, tables
<1>3. \A t \in Sessions : tx'[t] = IF t = s THEN r ELSE tx[t]
  BY DEF IInv, TypeOK
<1>4. LockMutex'
  BY <1>3 DEF IInv, LockMutex
<1>5. bal' = bal /\ redemption' = redemption /\ chore' = chore
  BY DEF tables
<1>6. \A t \in Sessions : SessionOK(tx[t])'
  BY <1>3, <1>5, SessionStable DEF IInv
<1> QED BY <1>1, <1>2, <1>4, <1>6 DEF IInv

\* Running on gives no lock away and takes none.
LEMMA RunStep ==
  ASSUME IInv, NEW s \in Sessions, NEW r \in TxState, SessionOK(r),
         r.locks \subseteq tx[s].locks, Run(s, r), UNCHANGED <<now, tables>>
  PROVE  IInv'
BY LocalStep DEF Run, IInv, LockMutex

\* Acquiring takes what the statement wants, which nobody else holds.
LEMMA AcquireStep ==
  ASSUME IInv, NEW s \in Sessions, NEW r \in TxState, r.locks = tx[s].locks,
         Wants(s) \subseteq Resources,
         SessionOK([r EXCEPT !.locks = @ \cup Wants(s)]),
         Acquire(s, r), UNCHANGED <<now, tables>>
  PROVE  IInv'
<1> DEFINE q == [r EXCEPT !.locks = @ \cup Wants(s)]
<1>1. q \in TxState /\ q.locks = tx[s].locks \cup Wants(s)
  BY DEF TxState
<1>2. \A t \in Sessions \ {s} : q.locks \cap tx[t].locks = {}
  BY <1>1 DEF Acquire, Run, Blockers, IInv, LockMutex
<1>3. tx' = [tx EXCEPT ![s] = q]
  BY DEF Acquire, Run
<1> QED BY <1>1, <1>2, <1>3, LocalStep

LEMMA SessionFacts ==
  ASSUME IInv, NEW s \in Sessions
  PROVE  tx[s] \in TxState /\ SessionOK(tx[s])
BY DEF IInv, TypeOK

\* Solvency: with no rows of its own; after taking c from a member it has locked
\* and that can afford it; after giving somebody c.
LEMMA NothingOwed ==
  ASSUME IInv, NEW r, \A m \in Members : r.delta[m] = 0
  PROVE  Solvent(r)
<1>1. \A m \in Members : bal[m] \in Int /\ bal[m] >= 0
  BY DEF IInv, TypeOK, TablesOK, BalanceNeverNegative
<1> QED BY <1>1 DEF Solvent

LEMMA Taking ==
  ASSUME IInv, NEW r, NEW q, Solvent(r), r.delta \in [Members -> Int],
         NEW d \in Members, NEW c \in Nat, bal[d] + r.delta[d] >= c,
         MemberLock(d) \in q.locks, r.locks \subseteq q.locks,
         \A m \in Members : q.delta[m] = IF m = d THEN r.delta[m] - c ELSE r.delta[m]
  PROVE  Solvent(q)
<1>1. \A m \in Members : bal[m] \in Int /\ r.delta[m] \in Int
  BY DEF IInv, TypeOK, TablesOK
<1> QED BY <1>1 DEF Solvent

LEMMA Giving ==
  ASSUME IInv, NEW r, NEW q, Solvent(r), r.delta \in [Members -> Int],
         NEW d \in Members, NEW c \in Nat, r.locks \subseteq q.locks,
         \A m \in Members : q.delta[m] = IF m = d THEN r.delta[m] + c ELSE r.delta[m]
  PROVE  Solvent(q)
<1>1. \A m \in Members : bal[m] \in Int /\ r.delta[m] \in Int
  BY DEF IInv, TypeOK, TablesOK
<1> QED BY <1>1 DEF Solvent

\* A transaction that has just begun holds and owes nothing.
LEMMA FreshSession ==
  ASSUME IInv, NEW r \in TxState, Assigned(r),
         \A m \in Members : r.delta[m] = 0,
         r.todo = {}, r.fined = {}, r.spared = {},
         r.pc \in {"idle", "redeem: lock member", "resolve: update",
                   "close: check lapse", "sweep: revert"}
  PROVE  SessionOK(r)
<1>1. Solvent(r)
  BY NothingOwed
<1>2. Redeeming(r) /\ Charging(r)
  BY DEF Redeeming, Charging
<1>3. Settling(r) /\ Closing(r)
  BY DEF Settling, Closing
<1> QED BY <1>1, <1>2, <1>3 DEF SessionOK

\* The program counters, each on its own.
LEMMA PCNames ==
  /\ "idle" \in PCs
  /\ "redeem: lock member" \in PCs
  /\ "redeem: lock reward" \in PCs
  /\ "redeem: read balance" \in PCs
  /\ "redeem: count stock" \in PCs
  /\ "redeem: insert" \in PCs
  /\ "redeem: commit" \in PCs
  /\ "resolve: update" \in PCs
  /\ "resolve: refund" \in PCs
  /\ "resolve: commit" \in PCs
  /\ "close: check lapse" \in PCs
  /\ "close: update" \in PCs
  /\ "close: commit" \in PCs
  /\ "sweep: revert" \in PCs
  /\ "sweep: commit" \in PCs
  /\ "charge: lock" \in PCs
  /\ "charge: read" \in PCs
  /\ "charge: insert" \in PCs
BY DEF PCs

\* A record that differs from one of a transaction's in its program counter.
LEMMA Moved ==
  ASSUME NEW q \in TxState, NEW pc \in PCs
  PROVE  [q EXCEPT !.pc = pc] \in TxState /\ [q EXCEPT !.pc = pc].locks = q.locks
BY DEF TxState

LEMMA IdleSession == IdleTx \in TxState /\ Assigned(IdleTx) /\ IdleTx.locks = {}
<1>1. IdleTx \in TxState
  BY DEF IdleTx, TxState, PCs, Outcomes
<1>2. Assigned(IdleTx) /\ IdleTx.locks = {}
  BY DEF Assigned, IdleTx, RedeemPCs, ResolvePCs, ClosePCs, ChargePCs
<1> QED BY <1>1, <1>2

LEMMA RollbackStep ==
  ASSUME IInv, NEW s \in Sessions, tx' = [tx EXCEPT ![s] = IdleTx],
         UNCHANGED <<now, tables>>
  PROVE  IInv'
<1>1. SessionOK(IdleTx)
  BY IdleSession, FreshSession DEF IdleTx
<1> QED BY <1>1, IdleSession, LocalStep

-----------------------------------------------------------------------------
(* Redeeming. *)

LEMMA RedeemBeginStep ==
  ASSUME IInv, NEW s \in Sessions, RedeemBegin(s)
  PROVE  IInv'
<1>1. PICK m \in Members, w \in Rewards, l \in Links \cup {None}, rid \in Redemptions :
        /\ Run(s, [IdleTx EXCEPT !.pc = "redeem: lock member", !.member = m,
                                 !.reward = w, !.link = l, !.rid = rid])
        /\ UNCHANGED <<now, tables>>
  BY DEF RedeemBegin
<1> DEFINE r == [IdleTx EXCEPT !.pc = "redeem: lock member", !.member = m,
                               !.reward = w, !.link = l, !.rid = rid]
<1>2. r \in TxState /\ r.locks = {}
  BY IdleSession, PCNames DEF TxState
<1>3. Assigned(r)
  BY IdleSession DEF TxState, Assigned, RedeemPCs, ResolvePCs, ClosePCs, ChargePCs
<1>4. SessionOK(r)
  BY <1>2, <1>3, FreshSession DEF IdleTx
<1> QED BY <1>1, <1>2, <1>4, RunStep

LEMMA RedeemLockMemberStep ==
  ASSUME IInv, NEW s \in Sessions, RedeemLockMember(s)
  PROVE  IInv'
<1> DEFINE r == [tx[s] EXCEPT !.pc = "redeem: lock reward"]
           q == [r EXCEPT !.locks = @ \cup Wants(s)]
<1>1. tx[s] \in TxState /\ SessionOK(tx[s]) /\ tx[s].pc = "redeem: lock member"
  BY SessionFacts DEF RedeemLockMember
<1>2. Wants(s) = {MemberLock(tx[s].member)}
  BY <1>1 DEF Wants
<1>3. Wants(s) \subseteq Resources
  BY <1>1, <1>2 DEF SessionOK, Assigned, RedeemPCs, Resources
<1>4. r \in TxState /\ r.locks = tx[s].locks
  BY <1>1, PCNames, Moved
<1>5. SessionOK(q)
  <2>1. Assigned(q)
    BY <1>1 DEF TxState, SessionOK, Assigned, RedeemPCs, ResolvePCs, ClosePCs, ChargePCs
  <2>2. Solvent(q)
    BY <1>1 DEF TxState, SessionOK, Solvent
  <2>3. Redeeming(q) /\ Charging(q)
    BY <1>1, <1>2 DEF TxState, Redeeming, Charging
  <2>4. Settling(q) /\ Closing(q)
    BY <1>1 DEF TxState, SessionOK, Settling, Closing
  <2> QED BY <2>1, <2>2, <2>3, <2>4 DEF SessionOK
<1> QED BY <1>3, <1>4, <1>5, AcquireStep DEF RedeemLockMember

LEMMA RedeemLockRewardStep ==
  ASSUME IInv, NEW s \in Sessions, RedeemLockReward(s)
  PROVE  IInv'
<1> DEFINE w == reward[tx[s].reward]
           r == [tx[s] EXCEPT !.pc = "redeem: read balance", !.cost = w.cost, !.qty = w.qty]
           q == [r EXCEPT !.locks = @ \cup Wants(s)]
<1>1. tx[s] \in TxState /\ SessionOK(tx[s]) /\ tx[s].pc = "redeem: lock reward"
  BY SessionFacts DEF RedeemLockReward
<1>2. CASE Acquire(s, r) /\ UNCHANGED <<now, tables>>
  <2>1. tx[s].reward \in Rewards /\ w \in RewardRecord
    BY <1>1 DEF SessionOK, Assigned, RedeemPCs, IInv, TypeOK, TablesOK
  <2>2. Wants(s) = {RewardRow(tx[s].reward)}
    BY <1>1 DEF Wants
  <2>3. Wants(s) \subseteq Resources
    BY <2>1, <2>2 DEF Resources
  <2>4. r \in TxState /\ r.locks = tx[s].locks
    BY <1>1, <2>1, PCNames, ZenonT(60) DEF TxState, RewardRecord
  <2>5. SessionOK(q)
    <3>1. Assigned(q)
      BY <1>1 DEF TxState, SessionOK, Assigned, RedeemPCs, ResolvePCs, ClosePCs, ChargePCs
    <3>2. Solvent(q)
      BY <1>1 DEF TxState, SessionOK, Solvent
    <3>3. Redeeming(q) /\ Charging(q)
      BY <1>1 DEF TxState, SessionOK, Redeeming, Charging
    <3>4. Settling(q) /\ Closing(q)
      BY <1>1 DEF TxState, SessionOK, Settling, Closing
    <3> QED BY <3>1, <3>2, <3>3, <3>4 DEF SessionOK
  <2> QED BY <1>2, <2>3, <2>4, <2>5, AcquireStep
<1>3. CASE Rollback(s)
  BY <1>3, RollbackStep DEF Rollback, Run
<1> QED BY <1>2, <1>3 DEF RedeemLockReward

\* The funds check, the stock count: steps that only move the program point.
LEMMA RedeemReadBalanceStep ==
  ASSUME IInv, NEW s \in Sessions, RedeemReadBalance(s)
  PROVE  IInv'
<1> DEFINE r == [tx[s] EXCEPT !.pc = "redeem: count stock"]
<1>1. tx[s] \in TxState /\ SessionOK(tx[s]) /\ tx[s].pc = "redeem: read balance"
  BY SessionFacts DEF RedeemReadBalance
<1>2. CASE Visible(s, tx[s].member) >= tx[s].cost /\ Run(s, r) /\ UNCHANGED <<now, tables>>
  <2>1. r \in TxState /\ r.locks = tx[s].locks
    BY <1>1, PCNames, Moved
  <2>2. SessionOK(r)
    <3>1. Assigned(r)
      BY <1>1 DEF TxState, SessionOK, Assigned, RedeemPCs, ResolvePCs, ClosePCs, ChargePCs
    <3>2. Solvent(r)
      BY <1>1 DEF TxState, SessionOK, Solvent
    <3>3. Redeeming(r) /\ Charging(r)
      BY <1>1, <1>2 DEF TxState, SessionOK, Redeeming, Charging, Visible
    <3>4. Settling(r) /\ Closing(r)
      BY <1>1 DEF TxState, SessionOK, Settling, Closing
    <3> QED BY <3>1, <3>2, <3>3, <3>4 DEF SessionOK
  <2> QED BY <1>2, <2>1, <2>2, RunStep
<1>3. CASE Rollback(s)
  BY <1>3, RollbackStep DEF Rollback, Run
<1> QED BY <1>2, <1>3 DEF RedeemReadBalance

LEMMA RedeemCountStockStep ==
  ASSUME IInv, NEW s \in Sessions, RedeemCountStock(s)
  PROVE  IInv'
<1> DEFINE r == [tx[s] EXCEPT !.pc = "redeem: insert"]
<1>1. tx[s] \in TxState /\ SessionOK(tx[s]) /\ tx[s].pc = "redeem: count stock"
  BY SessionFacts DEF RedeemCountStock
<1>2. CASE Run(s, r) /\ UNCHANGED <<now, tables>>
  <2>1. r \in TxState /\ r.locks = tx[s].locks
    BY <1>1, PCNames, Moved
  <2>2. SessionOK(r)
    <3>1. Assigned(r)
      BY <1>1 DEF TxState, SessionOK, Assigned, RedeemPCs, ResolvePCs, ClosePCs, ChargePCs
    <3>2. Solvent(r)
      BY <1>1 DEF TxState, SessionOK, Solvent
    <3>3. Redeeming(r) /\ Charging(r)
      BY <1>1 DEF TxState, SessionOK, Redeeming, Charging
    <3>4. Settling(r) /\ Closing(r)
      BY <1>1 DEF TxState, SessionOK, Settling, Closing
    <3> QED BY <3>1, <3>2, <3>3, <3>4 DEF SessionOK
  <2> QED BY <1>2, <2>1, <2>2, RunStep
<1>3. CASE Rollback(s)
  BY <1>3, RollbackStep DEF Rollback, Run
<1> QED BY <1>2, <1>3 DEF RedeemCountStock

\* The debit is covered: the funds check still holds under the member lock.
LEMMA RedeemInsertStep ==
  ASSUME IInv, NEW s \in Sessions, RedeemInsert(s)
  PROVE  IInv'
<1> DEFINE r == [tx[s] EXCEPT !.pc = "redeem: commit",
                              !.delta[tx[s].member] = @ - tx[s].cost]
           q == [r EXCEPT !.locks = @ \cup Wants(s)]
<1>1. tx[s] \in TxState /\ SessionOK(tx[s]) /\ tx[s].pc = "redeem: insert"
  BY SessionFacts DEF RedeemInsert
<1>2. CASE Acquire(s, r) /\ UNCHANGED <<now, tables>>
  <2>1. Wants(s) \subseteq Resources
    <3>1. tx[s].link \in Links \cup {None}
      BY <1>1 DEF TxState
    <3>2. Wants(s) = IF tx[s].link # None THEN {LinkKey(tx[s].link)} ELSE {}
      BY <1>1 DEF Wants
    <3> QED BY <3>1, <3>2 DEF Resources
  <2>2. tx[s].member \in Members /\ tx[s].cost \in Nat /\ tx[s].delta \in [Members -> Int]
    BY <1>1 DEF SessionOK, Assigned, RedeemPCs, TxState
  <2>3. r \in TxState /\ r.locks = tx[s].locks
    <3>1. [tx[s].delta EXCEPT ![tx[s].member] = @ - tx[s].cost] \in [Members -> Int]
      BY <2>2
    <3> QED BY <1>1, <3>1, PCNames, ZenonT(60) DEF TxState
  <2>4. SessionOK(q)
    <3>1. Assigned(q)
      BY <1>1 DEF TxState, SessionOK, Assigned, RedeemPCs, ResolvePCs, ClosePCs, ChargePCs
    <3>2. \A m \in Members : q.delta[m] = IF m = tx[s].member THEN tx[s].delta[m] - tx[s].cost
                                                            ELSE tx[s].delta[m]
      BY <1>1, <2>2 DEF TxState
    <3>3. tx[s].locks \subseteq q.locks
      BY <1>1 DEF TxState
    <3>4. /\ bal[tx[s].member] + tx[s].delta[tx[s].member] >= tx[s].cost
          /\ MemberLock(tx[s].member) \in tx[s].locks /\ Solvent(tx[s])
      BY <1>1 DEF SessionOK, Redeeming
    <3>5. Solvent(q)
      <4> HIDE DEF q
      <4> QED BY <2>2, <3>2, <3>3, <3>4, Taking
    <3>6. Redeeming(q) /\ Charging(q)
      BY <1>1 DEF TxState, Redeeming, Charging
    <3>7. Settling(q) /\ Closing(q)
      BY <1>1 DEF TxState, SessionOK, Settling, Closing
    <3> QED BY <3>1, <3>5, <3>6, <3>7 DEF SessionOK
  <2> QED BY <1>2, <2>1, <2>3, <2>4, AcquireStep
<1>3. CASE Rollback(s)
  BY <1>3, RollbackStep DEF Rollback, Run
<1> QED BY <1>2, <1>3 DEF RedeemInsert

-----------------------------------------------------------------------------
(* Denying and cancelling. *)

LEMMA ResolveBeginStep ==
  ASSUME IInv, NEW s \in Sessions, ResolveBegin(s)
  PROVE  IInv'
<1>1. PICK rid \in Redemptions, o \in {"denied", "cancelled"} :
        /\ redemption[rid].status # "absent"
        /\ Run(s, [IdleTx EXCEPT !.pc = "resolve: update", !.rid = rid, !.outcome = o])
        /\ UNCHANGED <<now, tables>>
  BY ZenonT(60) DEF ResolveBegin
<1> DEFINE r == [IdleTx EXCEPT !.pc = "resolve: update", !.rid = rid, !.outcome = o]
<1>2. r \in TxState /\ r.locks = {}
  <2>1. o \in Outcomes
    BY DEF Outcomes
  <2>2. "resolve: update" \in PCs
    BY PCNames
  <2> QED BY <2>1, <2>2, IdleSession, ZenonT(60) DEF TxState
<1>3. Assigned(r)
  BY <1>1, IdleSession DEF TxState, Assigned, RedeemPCs, ResolvePCs, ClosePCs, ChargePCs
<1>4. SessionOK(r)
  BY <1>2, <1>3, FreshSession DEF IdleTx
<1> QED BY <1>1, <1>2, <1>4, RunStep

LEMMA ResolveUpdateStep ==
  ASSUME IInv, NEW s \in Sessions, ResolveUpdate(s)
  PROVE  IInv'
<1> DEFINE r == [tx[s] EXCEPT !.pc = "resolve: refund",
                              !.member = redemption[tx[s].rid].member]
           q == [r EXCEPT !.locks = @ \cup Wants(s)]
<1>1. tx[s] \in TxState /\ SessionOK(tx[s]) /\ tx[s].pc = "resolve: update"
  BY SessionFacts DEF ResolveUpdate
<1>2. CASE /\ redemption[tx[s].rid].status = "pending"
           /\ Acquire(s, r) /\ UNCHANGED <<now, tables>>
  <2>1. tx[s].rid \in Redemptions /\ redemption[tx[s].rid].member \in Members
    BY <1>1, <1>2 DEF SessionOK, Assigned, ResolvePCs, IInv, RowsOK
  <2>2. Wants(s) = {RedemptionRow(tx[s].rid)}
    BY <1>1, <1>2 DEF Wants
  <2>3. Wants(s) \subseteq Resources
    BY <2>1, <2>2 DEF Resources
  <2>4. r \in TxState /\ r.locks = tx[s].locks
    BY <1>1, <2>1, PCNames, ZenonT(60) DEF TxState
  <2>5. SessionOK(q)
    <3>1. Assigned(q)
      BY <1>1, <2>1 DEF TxState, SessionOK, Assigned, RedeemPCs, ResolvePCs, ClosePCs, ChargePCs
    <3>2. Solvent(q)
      BY <1>1 DEF TxState, SessionOK, Solvent
    <3>3. Redeeming(q) /\ Charging(q)
      BY <1>1 DEF TxState, SessionOK, Redeeming, Charging
    <3>4. Settling(q) /\ Closing(q)
      BY <1>1 DEF TxState, SessionOK, Settling, Closing
    <3> QED BY <3>1, <3>2, <3>3, <3>4 DEF SessionOK
  <2> QED BY <1>2, <2>3, <2>4, <2>5, AcquireStep
<1>3. CASE Rollback(s)
  BY <1>3, RollbackStep DEF Rollback, Run
<1> QED BY <1>2, <1>3 DEF ResolveUpdate

LEMMA ResolveRefundStep ==
  ASSUME IInv, NEW s \in Sessions, ResolveRefund(s)
  PROVE  IInv'
<1> DEFINE r == [tx[s] EXCEPT !.pc = "resolve: commit",
                              !.delta[tx[s].member] = @ + RefundAmount(s)]
<1>1. tx[s] \in TxState /\ SessionOK(tx[s]) /\ tx[s].pc = "resolve: refund"
  BY SessionFacts DEF ResolveRefund
<1>2. /\ tx[s].rid \in Redemptions /\ tx[s].member \in Members
      /\ tx[s].delta \in [Members -> Int]
  BY <1>1 DEF TxState, SessionOK, Assigned, ResolvePCs
<1>3. RefundAmount(s) \in Nat
  BY <1>2 DEF RefundAmount, IInv, TypeOK, TablesOK
<1>4. r \in TxState /\ r.locks = tx[s].locks
  <2>1. [tx[s].delta EXCEPT ![tx[s].member] = @ + RefundAmount(s)] \in [Members -> Int]
    BY <1>2, <1>3
  <2> QED BY <1>1, <2>1, PCNames, ZenonT(60) DEF TxState
<1>5. SessionOK(r)
  <2>1. Assigned(r)
    BY <1>1, <1>2 DEF TxState, SessionOK, Assigned, RedeemPCs, ResolvePCs, ClosePCs, ChargePCs
  <2>2. \A m \in Members : r.delta[m] = IF m = tx[s].member THEN tx[s].delta[m] + RefundAmount(s)
                                                          ELSE tx[s].delta[m]
    BY <1>1, <1>2 DEF TxState
  <2>3. Solvent(tx[s])
    BY <1>1 DEF SessionOK
  <2>4. Solvent(r)
    <3> HIDE DEF r
    <3> QED BY <1>2, <1>3, <1>4, <2>2, <2>3, Giving
  <2>5. Redeeming(r) /\ Charging(r)
    BY <1>1 DEF TxState, Redeeming, Charging
  <2>6. Settling(r) /\ Closing(r)
    BY <1>1 DEF TxState, SessionOK, Settling, Closing
  <2> QED BY <2>1, <2>4, <2>5, <2>6 DEF SessionOK
<1> QED BY <1>4, <1>5, RunStep DEF ResolveRefund

-----------------------------------------------------------------------------
(* Closing a chore. *)

LEMMA CloseBeginStep ==
  ASSUME IInv, NEW s \in Sessions, CloseBegin(s)
  PROVE  IInv'
<1>1. PICK i \in Chores, m \in Members, o \in {"done", "skipped"}, g \in BOOLEAN :
        /\ Run(s, [IdleTx EXCEPT !.pc = "close: check lapse", !.at = now, !.chore = i,
                                 !.member = m, !.outcome = o, !.asAssignee = g])
        /\ UNCHANGED <<now, tables>>
  BY DEF CloseBegin
<1> DEFINE r == [IdleTx EXCEPT !.pc = "close: check lapse", !.at = now, !.chore = i,
                               !.member = m, !.outcome = o, !.asAssignee = g]
<1>2. r \in TxState /\ r.locks = {}
  <2>1. o \in Outcomes
    BY DEF Outcomes
  <2>2. now \in Nat
    BY DEF IInv, TypeOK, TablesOK
  <2>3. "close: check lapse" \in PCs
    BY PCNames
  <2> QED BY <2>1, <2>2, <2>3, IdleSession, ZenonT(60) DEF TxState
<1>3. Assigned(r)
  BY IdleSession, ZenonT(60) DEF TxState, Assigned, RedeemPCs, ResolvePCs, ClosePCs, ChargePCs
<1>4. SessionOK(r)
  BY <1>2, <1>3, FreshSession DEF IdleTx
<1> QED BY <1>1, <1>2, <1>4, RunStep

\* A lapsed claim has a claimant, and its row is locked before it is charged.
LEMMA CloseCheckLapseStep ==
  ASSUME IInv, NEW s \in Sessions, CloseCheckLapse(s)
  PROVE  IInv'
<1> DEFINE i == tx[s].chore
           r == [tx[s] EXCEPT !.pc = "charge: lock", !.todo = {i},
                              !.debtor = chore[i].claimant]
           q == [r EXCEPT !.locks = @ \cup Wants(s)]
           r2 == [tx[s] EXCEPT !.pc = "close: update"]
<1>1. tx[s] \in TxState /\ SessionOK(tx[s]) /\ tx[s].pc = "close: check lapse"
  BY SessionFacts DEF CloseCheckLapse
<1>2. i \in Chores
  BY <1>1 DEF SessionOK, Assigned, ClosePCs
<1>3. CASE Lapsed(s) /\ Acquire(s, r) /\ UNCHANGED <<now, tables>>
  <2>1. chore[i].claimant \in Members /\ chore[i].claimedAt \in Nat
    BY <1>2, <1>3 DEF Lapsed, LapsedBy, IInv, RowsOK
  <2>2. Wants(s) = {ChoreRow(i)}
    BY <1>1, <1>3 DEF Wants
  <2>3. Wants(s) \subseteq Resources
    BY <1>2, <2>2 DEF Resources
  <2>4. r \in TxState /\ r.locks = tx[s].locks
    BY <1>1, <1>2, <2>1, PCNames, ZenonT(60) DEF TxState
  <2>5. SessionOK(q)
    <3>1. Assigned(q)
      BY <1>1, <2>1 DEF TxState, SessionOK, Assigned, RedeemPCs, ResolvePCs, ClosePCs, ChargePCs
    <3>2. Solvent(q)
      BY <1>1 DEF TxState, SessionOK, Solvent
    <3>3. Redeeming(q) /\ Charging(q)
      BY <1>1 DEF TxState, SessionOK, Redeeming, Charging
    <3>4. Settling(q) /\ Closing(q)
      BY <1>1, <1>2, <2>1, <2>2 DEF TxState, SessionOK, Settling, Closing
    <3> QED BY <3>1, <3>2, <3>3, <3>4 DEF SessionOK
  <2> QED BY <1>3, <2>3, <2>4, <2>5, AcquireStep
<1>4. CASE Run(s, r2) /\ UNCHANGED <<now, tables>>
  <2>1. r2 \in TxState /\ r2.locks = tx[s].locks
    BY <1>1, PCNames, Moved
  <2>2. SessionOK(r2)
    <3>1. Assigned(r2)
      BY <1>1 DEF TxState, SessionOK, Assigned, RedeemPCs, ResolvePCs, ClosePCs, ChargePCs
    <3>2. Solvent(r2)
      BY <1>1 DEF TxState, SessionOK, Solvent
    <3>3. Redeeming(r2) /\ Charging(r2)
      BY <1>1 DEF TxState, SessionOK, Redeeming, Charging
    <3>4. Settling(r2) /\ Closing(r2)
      BY <1>1 DEF TxState, SessionOK, Settling, Closing
    <3> QED BY <3>1, <3>2, <3>3, <3>4 DEF SessionOK
  <2> QED BY <1>4, <2>1, <2>2, RunStep
<1> QED BY <1>3, <1>4 DEF CloseCheckLapse

LEMMA CloseUpdateStep ==
  ASSUME IInv, NEW s \in Sessions, CloseUpdate(s)
  PROVE  IInv'
<1> DEFINE i == tx[s].chore
           r == [tx[s] EXCEPT !.pc = "close: commit", !.delta[tx[s].member] = @ + Award(s)]
           q == [r EXCEPT !.locks = @ \cup Wants(s)]
<1>1. tx[s] \in TxState /\ SessionOK(tx[s]) /\ tx[s].pc = "close: update"
  BY SessionFacts DEF CloseUpdate
<1>2. /\ i \in Chores /\ tx[s].member \in Members
      /\ tx[s].delta \in [Members -> Int]
  BY <1>1 DEF TxState, SessionOK, Assigned, ClosePCs
<1>3. CASE Closable(s) /\ Acquire(s, r) /\ UNCHANGED <<now, tables>>
  <2>1. Award(s) \in Nat
    BY <1>2, PointsAssumption DEF PointsAssumption, Award
  <2>2. Wants(s) = {ChoreRow(i)}
    BY <1>1, <1>3 DEF Wants
  <2>3. Wants(s) \subseteq Resources
    BY <1>2, <2>2 DEF Resources
  <2>4. r \in TxState /\ r.locks = tx[s].locks
    <3>1. [tx[s].delta EXCEPT ![tx[s].member] = @ + Award(s)] \in [Members -> Int]
      BY <1>2, <2>1
    <3> QED BY <1>1, <3>1, PCNames, ZenonT(60) DEF TxState
  <2>5. SessionOK(q)
    <3>1. Assigned(q)
      BY <1>1, <1>2 DEF TxState, SessionOK, Assigned, RedeemPCs, ResolvePCs, ClosePCs, ChargePCs
    <3>2. \A m \in Members : q.delta[m] = IF m = tx[s].member THEN tx[s].delta[m] + Award(s)
                                                            ELSE tx[s].delta[m]
      BY <1>1, <1>2 DEF TxState
    <3>3. Solvent(tx[s]) /\ tx[s].locks \subseteq q.locks
      BY <1>1 DEF TxState, SessionOK
    <3>4. Solvent(q)
      <4>1. /\ Award(s) \in Nat /\ tx[s].member \in Members
            /\ tx[s].delta \in [Members -> Int]
        BY <1>2, <2>1
      <4> HIDE DEF q
      <4> QED BY <4>1, <3>2, <3>3, Giving
    <3>5. Redeeming(q) /\ Charging(q)
      BY <1>1 DEF TxState, Redeeming, Charging
    <3>6. Settling(q) /\ Closing(q)
      BY <1>1, <2>2 DEF TxState, SessionOK, Settling, Closing
    <3> QED BY <3>1, <3>4, <3>5, <3>6 DEF SessionOK
  <2> QED BY <1>3, <2>3, <2>4, <2>5, AcquireStep
<1>4. CASE Rollback(s)
  BY <1>4, RollbackStep DEF Rollback, Run
<1> QED BY <1>3, <1>4 DEF CloseUpdate

-----------------------------------------------------------------------------
(* Sweeping, and charging a lapsed claim. *)

LEMMA SweepBeginStep ==
  ASSUME IInv, NEW s \in Sessions, SweepBegin(s)
  PROVE  IInv'
<1> DEFINE r == [IdleTx EXCEPT !.pc = "sweep: revert", !.at = now]
<1>1. r \in TxState /\ r.locks = {}
  <2>1. now \in Nat
    BY DEF IInv, TypeOK, TablesOK
  <2>2. "sweep: revert" \in PCs
    BY DEF PCs
  <2> QED BY <2>1, <2>2, IdleSession, ZenonT(60) DEF TxState
<1>2. Assigned(r)
  BY IdleSession DEF TxState, Assigned, RedeemPCs, ResolvePCs, ClosePCs, ChargePCs
<1>3. SessionOK(r)
  BY <1>1, <1>2, FreshSession DEF IdleTx
<1> QED BY <1>1, <1>3, RunStep DEF SweepBegin

\* SKIP LOCKED: the rows it takes are nobody else's.
LEMMA SweepRevertStep ==
  ASSUME IInv, NEW s \in Sessions, SweepRevert(s)
  PROVE  IInv'
<1> DEFINE S == {i \in Chores : LapsedBy(i, tx[s].at) /\ ~Unavailable(ChoreRow(i), s)}
<1>1. /\ tx[s] \in TxState /\ SessionOK(tx[s])
      /\ tx[s].pc = "sweep: revert"
  BY SessionFacts DEF SweepRevert
<1>2. CASE \E i \in ChargeNext(S) :
             /\ Run(s, [tx[s] EXCEPT !.pc = "charge: lock", !.chore = i, !.todo = S,
                                     !.outcome = "reverted", !.debtor = chore[i].claimant,
                                     !.locks = @ \cup {ChoreRow(j) : j \in S}])
             /\ UNCHANGED <<now, tables>>
  <2>1. PICK i \in ChargeNext(S) :
          /\ Run(s, [tx[s] EXCEPT !.pc = "charge: lock", !.chore = i, !.todo = S,
                                  !.outcome = "reverted", !.debtor = chore[i].claimant,
                                  !.locks = @ \cup {ChoreRow(j) : j \in S}])
          /\ UNCHANGED <<now, tables>>
    BY <1>2
  <2> DEFINE r == [tx[s] EXCEPT !.pc = "charge: lock", !.chore = i, !.todo = S,
                                !.outcome = "reverted", !.debtor = chore[i].claimant,
                                !.locks = @ \cup {ChoreRow(j) : j \in S}]
  <2>2. i \in S
    BY DEF ChargeNext
  <2>3. \A j \in S : /\ j \in Chores /\ chore[j].claimant \in Members
                     /\ chore[j].claimedAt \in Nat
    BY DEF LapsedBy, IInv, RowsOK
  <2>4. \A j \in S, t \in Sessions \ {s} : ChoreRow(j) \notin tx[t].locks
    BY DEF Unavailable
  <2>5. S \in SUBSET Chores
    OBVIOUS
  <2> HIDE DEF S
  <2>6. {ChoreRow(j) : j \in S} \subseteq Resources
    BY <2>3 DEF Resources
  <2>7. r \in TxState
    <3>1. "charge: lock" \in PCs /\ "reverted" \in Outcomes
      BY PCNames DEF Outcomes
    <3>2. i \in Chores /\ chore[i].claimant \in Members
      BY <2>2, <2>3
    <3>3. tx[s] \in TxState
      BY <1>1
    <3> DEFINE held == tx[s].locks \cup {ChoreRow(j) : j \in S}
               debtor == chore[i].claimant
    <3>4. held \subseteq Resources
      BY <3>3, <2>6 DEF TxState
    <3>5. r = [tx[s] EXCEPT !.pc = "charge: lock", !.chore = i, !.todo = S,
                            !.outcome = "reverted", !.debtor = debtor, !.locks = held]
      OBVIOUS
    <3> HIDE DEF r, held, debtor
    <3> QED BY <3>1, <3>2, <3>3, <3>4, <3>5, <2>5, ZenonT(60) DEF TxState, debtor
  <2>8. r.locks = tx[s].locks \cup {ChoreRow(j) : j \in S}
    BY <1>1 DEF TxState
  <2>9. \A t \in Sessions \ {s} : r.locks \cap tx[t].locks = {}
    BY <2>4, <2>8 DEF IInv, LockMutex
  <2>10. SessionOK(r)
    <3>1. Assigned(r)
      BY <1>1, <2>2, <2>3 DEF TxState, SessionOK, Assigned, RedeemPCs, ResolvePCs, ClosePCs, ChargePCs
    <3>2. Solvent(r)
      BY <1>1 DEF TxState, SessionOK, Solvent
    <3>3. Redeeming(r) /\ Charging(r)
      BY <1>1 DEF TxState, SessionOK, Redeeming, Charging
    <3>4. r.todo = S /\ r.fined = tx[s].fined /\ r.spared = tx[s].spared
      BY <1>1 DEF TxState
    <3>5. Settling(r)
      BY <1>1, <2>3, <2>8, <3>4 DEF SessionOK, Settling
    <3>6. Closing(r)
      BY <1>1 DEF TxState, Closing
    <3> QED BY <3>1, <3>2, <3>3, <3>5, <3>6 DEF SessionOK
  <2>11. tx' = [tx EXCEPT ![s] = r]
    BY <2>1 DEF Run
  <2> QED BY <2>1, <2>7, <2>9, <2>10, <2>11, LocalStep
<1>3. CASE Rollback(s)
  BY <1>3, RollbackStep DEF Rollback, Run
<1> QED BY <1>2, <1>3, ZenonT(60) DEF SweepRevert

LEMMA ChargeLockStep ==
  ASSUME IInv, NEW s \in Sessions, ChargeLock(s)
  PROVE  IInv'
<1> DEFINE r == [tx[s] EXCEPT !.pc = "charge: read"]
           q == [r EXCEPT !.locks = @ \cup Wants(s)]
<1>1. tx[s] \in TxState /\ SessionOK(tx[s]) /\ tx[s].pc = "charge: lock"
  BY SessionFacts DEF ChargeLock
<1>2. Wants(s) = {MemberLock(tx[s].debtor)}
  BY <1>1 DEF Wants
<1>3. Wants(s) \subseteq Resources
  BY <1>1, <1>2 DEF SessionOK, Assigned, ChargePCs, Resources
<1>4. r \in TxState /\ r.locks = tx[s].locks
  BY <1>1, PCNames, Moved
<1>5. SessionOK(q)
  <2>1. Assigned(q)
    BY <1>1 DEF TxState, SessionOK, Assigned, RedeemPCs, ResolvePCs, ClosePCs, ChargePCs
  <2>2. Solvent(q)
    BY <1>1 DEF TxState, SessionOK, Solvent
  <2>3. Redeeming(q) /\ Charging(q)
    BY <1>1, <1>2 DEF TxState, Redeeming, Charging
  <2>4. Settling(q) /\ Closing(q)
    BY <1>1 DEF TxState, SessionOK, Settling, Closing
  <2> QED BY <2>1, <2>2, <2>3, <2>4 DEF SessionOK
<1> QED BY <1>3, <1>4, <1>5, AcquireStep DEF ChargeLock

\* Going on to the next claim, or past the last one, when r differs from the
\* session's record only in what it has charged so far.
LEMMA ChargeDoneStep ==
  ASSUME IInv, NEW s \in Sessions, NEW r \in TxState,
         tx[s].pc \in {"charge: read", "charge: insert"},
         r.locks = tx[s].locks, r.todo = tx[s].todo, r.outcome = tx[s].outcome,
         r.member = tx[s].member, r.chore = tx[s].chore, Solvent(r),
         r.fined \subseteq tx[s].fined \cup {tx[s].chore},
         r.spared \subseteq tx[s].spared \cup {tx[s].chore},
         ChargeDone(s, r), UNCHANGED <<now, tables>>
  PROVE  IInv'
<1> DEFINE left == tx[s].todo \ {tx[s].chore}
<1>1. /\ tx[s] \in TxState /\ Assigned(tx[s]) /\ Settling(tx[s])
      /\ tx[s].chore \in tx[s].todo
      /\ tx[s].outcome \in {"done", "skipped", "reverted"}
      /\ tx[s].outcome # "reverted" => tx[s].member \in Members
      /\ left \in SUBSET Chores /\ left \subseteq tx[s].todo
  BY SessionFacts DEF SessionOK, Assigned, ChargePCs, TxState
<1>2. \A i \in tx[s].todo \cup r.fined \cup r.spared :
        /\ ChoreRow(i) \in r.locks
        /\ chore[i].claimant \in Members /\ chore[i].claimedAt \in Nat
  BY <1>1 DEF Settling
<1> HIDE DEF left
<1> DEFINE then == IF tx[s].outcome = "reverted" THEN "sweep: commit" ELSE "close: update"
<1>3. CASE Run(s, [r EXCEPT !.todo = left, !.pc = then])
  <2> DEFINE q == [r EXCEPT !.todo = left, !.pc = then]
  <2>1. q \in TxState /\ q.locks = tx[s].locks
    <3>1. then \in PCs
      BY DEF PCs
    <3>2. left \in SUBSET Chores
      BY <1>1
    <3> HIDE DEF then
    <3>3. q \in TxState
      BY <3>1, <3>2 DEF TxState
    <3>4. q.locks = r.locks
      BY DEF TxState
    <3> QED BY <3>3, <3>4
  <2>2. Assigned(q)
    BY <1>1, ZenonT(60) DEF TxState, Assigned, RedeemPCs, ResolvePCs, ClosePCs, ChargePCs
  <2>3. Solvent(q)
    BY DEF TxState, Solvent
  <2>4. Redeeming(q) /\ Charging(q)
    BY DEF TxState, Redeeming, Charging
  <2>5. Settling(q) /\ Closing(q)
    BY <1>1, <1>2, ZenonT(60) DEF TxState, Settling, Closing
  <2>6. SessionOK(q)
    BY <2>2, <2>3, <2>4, <2>5 DEF SessionOK
  <2> QED BY <1>3, <2>1, <2>6, RunStep
<1>4. ASSUME NEW i \in left,
             Run(s, [r EXCEPT !.todo = left, !.pc = "charge: lock", !.chore = i,
                              !.debtor = chore[i].claimant])
      PROVE  IInv'
  <2> DEFINE q == [r EXCEPT !.todo = left, !.pc = "charge: lock", !.chore = i,
                            !.debtor = chore[i].claimant]
  <2>1. i \in Chores /\ chore[i].claimant \in Members
    BY <1>1, <1>2
  <2>2. q \in TxState /\ q.locks = tx[s].locks
    <3>1. "charge: lock" \in PCs
      BY DEF PCs
    <3>2. left \in SUBSET Chores
      BY <1>1
    <3>3. q \in TxState
      BY <2>1, <3>1, <3>2, ZenonT(60) DEF TxState
    <3>4. q.locks = r.locks
      BY DEF TxState
    <3> QED BY <3>3, <3>4
  <2>3. Assigned(q)
    BY <1>1, <2>1, ZenonT(60) DEF TxState, Assigned, RedeemPCs, ResolvePCs, ClosePCs, ChargePCs
  <2>4. Solvent(q)
    BY DEF TxState, Solvent
  <2>5. Redeeming(q) /\ Charging(q)
    BY DEF TxState, Redeeming, Charging
  <2>6. Settling(q)
    <3>1. q.todo \subseteq tx[s].todo /\ q.locks = r.locks
      BY <1>1 DEF TxState
    <3>2. q.fined = r.fined /\ q.spared = r.spared
      BY DEF TxState
    <3> QED BY <1>2, <3>1, <3>2 DEF Settling
  <2>7. Closing(q)
    BY DEF TxState, Closing
  <2>8. SessionOK(q)
    BY <2>3, <2>4, <2>5, <2>6, <2>7 DEF SessionOK
  <2> QED BY <1>4, <2>2, <2>8, RunStep
<1> QED BY <1>3, <1>4, ZenonT(60) DEF ChargeDone, ChargeNext, left

\* The penalty is capped by the balance read under the debtor's lock.
LEMMA ChargeReadStep ==
  ASSUME IInv, NEW s \in Sessions, ChargeRead(s)
  PROVE  IInv'
<1> DEFINE i == tx[s].chore
           balance == Visible(s, tx[s].debtor)
           fine == Least(ClaimExpiryPenalty(Points[i]), balance)
           r == [tx[s] EXCEPT !.pc = "charge: insert", !.fine = fine]
           q == [tx[s] EXCEPT !.spared = @ \cup {i}]
<1>1. tx[s] \in TxState /\ SessionOK(tx[s]) /\ tx[s].pc = "charge: read"
  BY SessionFacts DEF ChargeRead
<1>2. i \in Chores /\ i \in tx[s].todo /\ tx[s].debtor \in Members
  BY <1>1 DEF SessionOK, Assigned, ChargePCs, TxState
<1>3. CASE balance > 0 /\ Run(s, r) /\ UNCHANGED <<now, tables>>
  <2>1. balance \in Int /\ Points[i] \in Nat
    <3>1. bal[tx[s].debtor] \in Int /\ tx[s].delta[tx[s].debtor] \in Int
      BY <1>1, <1>2 DEF TxState, IInv, TypeOK, TablesOK
    <3>2. Points[i] \in Nat
      BY <1>2, PointsAssumption DEF PointsAssumption
    <3> QED BY <3>1, <3>2 DEF Visible
  <2>2. fine \in Nat /\ fine <= balance
    <3>1. ClaimExpiryPenalty(Points[i]) \in Nat
      BY <2>1 DEF ClaimExpiryPenalty
    <3> QED BY <1>3, <2>1, <3>1 DEF Least
  <2> HIDE DEF fine
  <2>3. r \in TxState /\ r.locks = tx[s].locks
    <3>1. "charge: insert" \in PCs
      BY PCNames
    <3>2. tx[s] \in TxState
      BY <1>1
    <3> QED BY <2>2, <3>1, <3>2, ZenonT(60) DEF TxState
  <2>4. SessionOK(r)
    <3>1. Assigned(r)
      BY <1>1 DEF TxState, SessionOK, Assigned, RedeemPCs, ResolvePCs, ClosePCs, ChargePCs
    <3>2. Solvent(r)
      BY <1>1 DEF TxState, SessionOK, Solvent
    <3>3. Redeeming(r)
      BY <1>1 DEF TxState, Redeeming
    <3>4. Charging(r)
      BY <1>1, <2>1, <2>2 DEF TxState, SessionOK, Charging, Visible
    <3>5. Settling(r) /\ Closing(r)
      BY <1>1 DEF TxState, SessionOK, Settling, Closing
    <3> QED BY <3>1, <3>2, <3>3, <3>4, <3>5 DEF SessionOK
  <2> QED BY <1>3, <2>3, <2>4, RunStep
<1>4. CASE ChargeDone(s, q) /\ UNCHANGED <<now, tables>>
  <2>1. /\ q \in TxState /\ q.locks = tx[s].locks /\ q.todo = tx[s].todo
        /\ q.outcome = tx[s].outcome /\ q.member = tx[s].member /\ q.chore = i
        /\ q.fined = tx[s].fined /\ q.spared = tx[s].spared \cup {i}
    BY <1>1, <1>2, ZenonT(60) DEF TxState
  <2>2. Solvent(q)
    BY <1>1 DEF TxState, SessionOK, Solvent
  <2> HIDE DEF q
  <2> QED BY <1>1, <1>4, <2>1, <2>2, ChargeDoneStep
<1> QED BY <1>3, <1>4 DEF ChargeRead

LEMMA ChargeInsertStep ==
  ASSUME IInv, NEW s \in Sessions, ChargeInsert(s)
  PROVE  IInv'
<1> DEFINE i == tx[s].chore
           d == tx[s].debtor
           new == <<i, chore[i].claimedAt>> \notin charged
           q == [tx[s] EXCEPT !.fined = @ \cup {i},
                              !.delta[d] = IF new THEN @ - tx[s].fine ELSE @]
<1>1. tx[s] \in TxState /\ SessionOK(tx[s]) /\ tx[s].pc = "charge: insert"
  BY SessionFacts DEF ChargeInsert
<1>2. /\ i \in Chores /\ i \in tx[s].todo /\ d \in Members
      /\ tx[s].delta \in [Members -> Int] /\ tx[s].fine \in Nat
  BY <1>1 DEF SessionOK, Assigned, ChargePCs, TxState
<1>3. /\ MemberLock(d) \in tx[s].locks /\ Solvent(tx[s])
      /\ bal[d] + tx[s].delta[d] >= tx[s].fine
  BY <1>1 DEF SessionOK, Charging
<1> DEFINE c == IF new THEN tx[s].fine ELSE 0
<1>4. c \in Nat /\ bal[d] + tx[s].delta[d] >= c
  <2>1. bal[d] \in Int /\ tx[s].delta[d] \in Int /\ bal[d] + tx[s].delta[d] >= 0
    BY <1>2, <1>3 DEF Solvent, IInv, TypeOK, TablesOK
  <2> QED BY <1>2, <1>3, <2>1
<1>5. q \in TxState
  <2>1. [tx[s].delta EXCEPT ![d] = IF new THEN @ - tx[s].fine ELSE @] \in [Members -> Int]
    BY <1>2
  <2> QED BY <1>1, <1>2, <2>1, ZenonT(60) DEF TxState
<1>6. \A m \in Members : q.delta[m] = IF m = d THEN tx[s].delta[m] - c ELSE tx[s].delta[m]
  <2>1. q.delta = [tx[s].delta EXCEPT ![d] = IF new THEN @ - tx[s].fine ELSE @]
    BY <1>1 DEF TxState
  <2> HIDE DEF q, new
  <2> QED BY <1>2, <2>1
<1>7. /\ q.locks = tx[s].locks /\ q.todo = tx[s].todo
      /\ q.outcome = tx[s].outcome /\ q.member = tx[s].member /\ q.chore = i
      /\ q.fined = tx[s].fined \cup {i} /\ q.spared = tx[s].spared
  BY <1>1 DEF TxState
<1>8. ChargeDone(s, q) /\ UNCHANGED <<now, tables>>
  BY DEF ChargeInsert
<1> HIDE DEF q, c
<1>9. Solvent(q)
  BY <1>2, <1>3, <1>4, <1>6, <1>7, Taking
<1> QED BY <1>1, <1>5, <1>7, <1>8, <1>9, ChargeDoneStep

-----------------------------------------------------------------------------
(* Steps that change the tables. *)

\* What a session relies on survives the steps of others: nobody else takes
\* from a member it has locked or touches a chore it has locked, and no
\* redemption disappears.
LEMMA OtherSession ==
  ASSUME IInv, NEW t \in Sessions, tx'[t] = tx[t],
         \A m \in Members : /\ bal'[m] \in Int /\ bal'[m] + tx[t].delta[m] >= 0
                            /\ MemberLock(m) \in tx[t].locks => bal'[m] >= bal[m],
         \A i \in Chores : ChoreRow(i) \in tx[t].locks => chore'[i] = chore[i],
         \A r \in Redemptions : redemption[r].status # "absent" =>
           redemption'[r].status # "absent"
  PROVE  SessionOK(tx[t])'
<1>1. tx[t] \in TxState /\ SessionOK(tx[t])
  BY SessionFacts
<1>2. \A m \in Members : bal[m] \in Int /\ tx[t].delta[m] \in Int
  BY <1>1 DEF IInv, TypeOK, TablesOK, TxState
<1>3. Assigned(tx[t])'
  BY <1>1 DEF SessionOK, Assigned, RedeemPCs, ResolvePCs, ClosePCs, ChargePCs
<1>4. Solvent(tx[t])'
  BY <1>1 DEF SessionOK, Solvent, MemberLock
<1>5. Redeeming(tx[t])'
  <2>1. tx[t].pc \in RedeemPCs => tx[t].member \in Members
    BY <1>1 DEF SessionOK, Assigned
  <2>2. tx[t].cost \in Nat
    BY <1>1 DEF TxState
  <2>3. Redeeming(tx[t])
    BY <1>1 DEF SessionOK
  <2> DEFINE checked == tx[t].pc \in {"redeem: count stock", "redeem: insert"}
  <2>4. checked => /\ tx[t].member \in Members /\ MemberLock(tx[t].member) \in tx[t].locks
                   /\ bal[tx[t].member] + tx[t].delta[tx[t].member] >= tx[t].cost
    BY <2>1, <2>3 DEF Redeeming, RedeemPCs
  <2> HIDE DEF checked
  <2>5. ASSUME checked
        PROVE  bal'[tx[t].member] + tx[t].delta[tx[t].member] >= tx[t].cost
    <3>1. /\ bal'[tx[t].member] \in Int /\ bal'[tx[t].member] >= bal[tx[t].member]
          /\ bal[tx[t].member] \in Int /\ tx[t].delta[tx[t].member] \in Int
      BY <1>2, <2>4, <2>5
    <3> QED BY <2>2, <2>4, <2>5, <3>1
  <2> USE DEF checked
  <2> QED BY <2>3, <2>5 DEF Redeeming, MemberLock
<1>6. Charging(tx[t])'
  <2>1. tx[t].pc \in ChargePCs => tx[t].debtor \in Members
    BY <1>1 DEF SessionOK, Assigned
  <2>2. tx[t].fine \in Nat
    BY <1>1 DEF TxState
  <2>3. Charging(tx[t])
    BY <1>1 DEF SessionOK
  <2> DEFINE checked == tx[t].pc = "charge: insert"
  <2>4. checked => /\ tx[t].debtor \in Members /\ MemberLock(tx[t].debtor) \in tx[t].locks
                   /\ bal[tx[t].debtor] + tx[t].delta[tx[t].debtor] >= tx[t].fine
    BY <2>1, <2>3 DEF Charging, ChargePCs
  <2> HIDE DEF checked
  <2>5. ASSUME checked
        PROVE  bal'[tx[t].debtor] + tx[t].delta[tx[t].debtor] >= tx[t].fine
    <3>1. /\ bal'[tx[t].debtor] \in Int /\ bal'[tx[t].debtor] >= bal[tx[t].debtor]
          /\ bal[tx[t].debtor] \in Int /\ tx[t].delta[tx[t].debtor] \in Int
      BY <1>2, <2>4, <2>5
    <3> QED BY <2>2, <2>4, <2>5, <3>1
  <2> USE DEF checked
  <2> QED BY <2>3, <2>5 DEF Charging, MemberLock
<1>7. Settling(tx[t])'
  BY <1>1 DEF SessionOK, Settling, ChoreRow, TxState
<1>8. Closing(tx[t])'
  BY <1>1 DEF SessionOK, Closing, ChoreRow
<1> QED BY <1>3, <1>4, <1>5, <1>6, <1>7, <1>8 DEF SessionOK

\* A statement outside any transaction, or the clock.
LEMMA TableStep ==
  ASSUME IInv, TypeOK', RowsOK', UNCHANGED <<bal, tx>>,
         \A t \in Sessions, i \in Chores : ChoreRow(i) \in tx[t].locks => chore'[i] = chore[i],
         \A r \in Redemptions : redemption[r].status # "absent" =>
           redemption'[r].status # "absent"
  PROVE  IInv'
<1>1. BalanceNeverNegative' /\ LockMutex'
  BY DEF IInv, BalanceNeverNegative, LockMutex
<1>2. \A t \in Sessions : SessionOK(tx[t])'
  <2> SUFFICES ASSUME NEW t \in Sessions PROVE SessionOK(tx[t])'
    OBVIOUS
  <2>1. \A m \in Members : /\ bal'[m] \in Int /\ bal'[m] + tx[t].delta[m] >= 0
                           /\ MemberLock(m) \in tx[t].locks => bal'[m] >= bal[m]
    BY SessionFacts DEF SessionOK, Solvent, IInv, TypeOK, TablesOK
  <2> QED BY <2>1, OtherSession
<1> QED BY <1>1, <1>2 DEF IInv

\* A commit publishes its delta: it covers its own debits, and takes only from
\* members no other transaction has locked.
LEMMA CommitStep ==
  ASSUME IInv, NEW s \in Sessions, TypeOK', RowsOK', Publish(s),
         tx' = [tx EXCEPT ![s] = IdleTx],
         \A i \in Chores : chore'[i] # chore[i] => ChoreRow(i) \in tx[s].locks,
         \A r \in Redemptions : redemption[r].status # "absent" =>
           redemption'[r].status # "absent"
  PROVE  IInv'
<1>1. /\ bal \in [Members -> Int] /\ tx \in [Sessions -> TxState]
      /\ \A m \in Members : bal[m] >= 0
  BY DEF IInv, TypeOK, TablesOK, BalanceNeverNegative
<1>2. \A t \in Sessions, m \in Members :
        /\ tx[t].delta[m] \in Int /\ bal[m] + tx[t].delta[m] >= 0
        /\ tx[t].delta[m] < 0 => MemberLock(m) \in tx[t].locks
  BY <1>1 DEF TxState, IInv, SessionOK, Solvent
<1>3. \A m \in Members : bal'[m] = bal[m] + tx[s].delta[m]
  BY DEF Publish
<1>4. \A m \in Members : bal'[m] \in Int /\ bal'[m] >= 0
  BY <1>1, <1>2, <1>3
<1>5. BalanceNeverNegative'
  BY <1>4 DEF BalanceNeverNegative
<1>6. \A t \in Sessions : tx'[t] = IF t = s THEN IdleTx ELSE tx[t]
  BY <1>1
<1>7. LockMutex'
  BY <1>6, IdleSession DEF LockMutex, IInv
<1>8. \A t \in Sessions \ {s} : tx[s].locks \cap tx[t].locks = {}
  BY DEF IInv, LockMutex
<1>9. ASSUME NEW t \in Sessions \ {s} PROVE SessionOK(tx[t])'
  <2>1. \A m \in Members : MemberLock(m) \in tx[t].locks => tx[s].delta[m] >= 0
    BY <1>2, <1>8
  <2>2. \A m \in Members : /\ bal'[m] \in Int /\ bal'[m] + tx[t].delta[m] >= 0
                           /\ MemberLock(m) \in tx[t].locks => bal'[m] >= bal[m]
    <3> SUFFICES ASSUME NEW m \in Members
                 PROVE  /\ bal'[m] \in Int /\ bal'[m] + tx[t].delta[m] >= 0
                        /\ MemberLock(m) \in tx[t].locks => bal'[m] >= bal[m]
      OBVIOUS
    <3>1. /\ bal[m] \in Int /\ bal[m] >= 0 /\ tx[s].delta[m] \in Int /\ tx[t].delta[m] \in Int
          /\ bal[m] + tx[t].delta[m] >= 0 /\ bal[m] + tx[s].delta[m] >= 0
          /\ bal'[m] = bal[m] + tx[s].delta[m]
      BY <1>1, <1>2, <1>3
    <3>2. CASE MemberLock(m) \in tx[t].locks
      BY <2>1, <3>1, <3>2
    <3>3. CASE MemberLock(m) \notin tx[t].locks
      <4>1. tx[t].delta[m] >= 0
        BY <1>2, <3>1, <3>3
      <4> QED BY <3>1, <3>3, <4>1
    <3> QED BY <3>2, <3>3
  <2>3. \A i \in Chores : ChoreRow(i) \in tx[t].locks => chore'[i] = chore[i]
    BY <1>8
  <2>4. tx'[t] = tx[t]
    BY <1>6
  <2> QED BY <2>2, <2>3, <2>4, OtherSession
<1>10. SessionOK(tx[s])'
  <2>1. /\ tx'[s].pc = "idle" /\ tx'[s].delta = [m \in Members |-> 0]
        /\ tx'[s].todo = {} /\ tx'[s].fined = {} /\ tx'[s].spared = {}
    BY <1>6 DEF IdleTx
  <2>2. Assigned(tx[s])'
    BY <2>1 DEF Assigned, RedeemPCs, ResolvePCs, ClosePCs, ChargePCs
  <2>3. \A m \in Members : tx'[s].delta[m] = 0
    BY <2>1
  <2>4. Solvent(tx[s])'
    BY <1>4, <2>3 DEF Solvent, MemberLock
  <2>5. Redeeming(tx[s])' /\ Charging(tx[s])'
    BY <2>1 DEF Redeeming, Charging
  <2>6. Settling(tx[s])' /\ Closing(tx[s])'
    BY <2>1 DEF Settling, Closing
  <2> QED BY <2>2, <2>4, <2>5, <2>6 DEF SessionOK
<1> QED BY <1>5, <1>7, <1>9, <1>10 DEF IInv

LEMMA IdleTyped ==
  ASSUME IInv, NEW s \in Sessions, tx' = [tx EXCEPT ![s] = IdleTx]
  PROVE  tx' \in [Sessions -> TxState]
BY IdleSession DEF IInv, TypeOK

LEMMA PublishTyped ==
  ASSUME IInv, NEW s \in Sessions, Publish(s)
  PROVE  bal' \in [Members -> Int]
<1>1. bal \in [Members -> Int] /\ tx[s].delta \in [Members -> Int]
  BY SessionFacts DEF IInv, TypeOK, TablesOK, TxState
<1> QED BY <1>1 DEF Publish

LEMMA RedeemCommitStep ==
  ASSUME IInv, NEW s \in Sessions, RedeemCommit(s)
  PROVE  IInv'
<1> DEFINE row == [status |-> "pending", member |-> tx[s].member,
                   reward |-> tx[s].reward, link |-> tx[s].link]
<1>1. /\ tx[s] \in TxState /\ tx[s].cost \in Nat
      /\ tx[s].member \in Members /\ tx[s].rid \in Redemptions
      /\ row \in RedemptionRecord
  BY SessionFacts
     DEF RedeemCommit, SessionOK, Assigned, RedeemPCs, TxState, RedemptionRecord, Statuses
<1>2. /\ Publish(s) /\ tx' = [tx EXCEPT ![s] = IdleTx]
      /\ redemption' = [redemption EXCEPT ![tx[s].rid] = row]
      /\ debit' = [debit EXCEPT ![tx[s].rid] = tx[s].cost]
      /\ UNCHANGED <<now, reward, refund, chore, awarded, charged, pardoned>>
  BY DEF RedeemCommit, Run
<1>3. row.status = "pending" /\ row.member \in Members
  BY <1>1
<1> HIDE DEF row
<1>4. TypeOK'
  BY <1>1, <1>2, IdleTyped, PublishTyped DEF IInv, TypeOK, TablesOK
<1>5. RowsOK' /\ \A r \in Redemptions : redemption[r].status # "absent" =>
                   redemption'[r].status # "absent"
  BY <1>1, <1>2, <1>3 DEF IInv, RowsOK, TypeOK, TablesOK
<1> QED BY <1>2, <1>4, <1>5, CommitStep

LEMMA ResolveCommitStep ==
  ASSUME IInv, NEW s \in Sessions, ResolveCommit(s)
  PROVE  IInv'
<1>1. /\ tx[s] \in TxState /\ tx[s].delta \in [Members -> Int]
      /\ tx[s].member \in Members /\ tx[s].rid \in Redemptions
      /\ tx[s].outcome \in {"denied", "cancelled"}
      /\ redemption[tx[s].rid].status # "absent"
  BY SessionFacts DEF ResolveCommit, SessionOK, Assigned, ResolvePCs, TxState
<1>2. /\ Publish(s) /\ tx' = [tx EXCEPT ![s] = IdleTx]
      /\ redemption' = [redemption EXCEPT ![tx[s].rid].status = tx[s].outcome]
      /\ refund' = [refund EXCEPT ![tx[s].rid] = @ + tx[s].delta[tx[s].member]]
      /\ UNCHANGED <<now, reward, debit, chore, awarded, charged, pardoned>>
  BY DEF ResolveCommit, Run
<1>3. redemption' \in [Redemptions -> RedemptionRecord]
  <2>1. tx[s].outcome \in Statuses
    BY <1>1 DEF Statuses
  <2>2. redemption \in [Redemptions -> RedemptionRecord] /\ tx[s].rid \in Redemptions
    BY <1>1 DEF IInv, TypeOK, TablesOK
  <2>3. redemption' = [redemption EXCEPT ![tx[s].rid].status = tx[s].outcome]
    BY <1>2
  <2> QED BY <2>1, <2>2, <2>3 DEF RedemptionRecord
<1>4. refund' \in [Redemptions -> Int]
  BY <1>1, <1>2 DEF IInv, TypeOK, TablesOK
<1>5. TypeOK'
  BY <1>2, <1>3, <1>4, IdleTyped, PublishTyped DEF IInv, TypeOK, TablesOK
<1>6. \A r \in Redemptions :
        /\ redemption'[r].member = redemption[r].member
        /\ redemption[r].status # "absent" => redemption'[r].status # "absent"
        /\ redemption[r].status = "absent" => redemption'[r].status = "absent"
  BY <1>1, <1>2 DEF IInv, TypeOK, TablesOK, RedemptionRecord
<1>7. RowsOK'
  BY <1>2, <1>6 DEF IInv, RowsOK
<1> QED BY <1>2, <1>5, <1>6, <1>7, CommitStep

\* The windows a transaction settles are real claims: it still holds them.
LEMMA SettleTyped ==
  ASSUME IInv, NEW s \in Sessions, SettleClaims(s)
  PROVE  charged' \subseteq Chores \X Nat /\ pardoned' \subseteq Chores \X Nat
<1>1. \A i \in tx[s].fined \cup tx[s].spared : i \in Chores /\ chore[i].claimedAt \in Nat
  BY SessionFacts DEF SessionOK, Settling, TxState
<1>2. Windows(tx[s].fined) \subseteq Chores \X Nat /\ Windows(tx[s].spared) \subseteq Chores \X Nat
  BY <1>1 DEF Windows
<1> QED BY <1>2 DEF SettleClaims, IInv, TypeOK, TablesOK

LEMMA CloseCommitStep ==
  ASSUME IInv, NEW s \in Sessions, CloseCommit(s)
  PROVE  IInv'
<1> DEFINE i == tx[s].chore
           row == [NoChore EXCEPT !.status = tx[s].outcome]
<1>1. /\ i \in Chores /\ tx[s].outcome \in {"done", "skipped"}
      /\ ChoreRow(i) \in tx[s].locks
  BY SessionFacts DEF CloseCommit, SessionOK, Assigned, ClosePCs, Closing
<1>2. /\ Publish(s) /\ SettleClaims(s) /\ tx' = [tx EXCEPT ![s] = IdleTx]
      /\ chore' = [chore EXCEPT ![i] = row]
      /\ awarded' = IF tx[s].outcome = "done" /\ Points[i] > 0
                    THEN awarded \cup {i} ELSE awarded
      /\ UNCHANGED <<now, reward, redemption, debit, refund>>
  BY DEF CloseCommit, Run
<1>3. row \in ChoreRecord /\ row.expires = None
  BY <1>1 DEF NoChore, ChoreRecord
<1>4. awarded' \subseteq Chores
  BY <1>1, <1>2 DEF IInv, TypeOK, TablesOK
<1> HIDE DEF row
<1>5. TypeOK'
  BY <1>1, <1>2, <1>3, <1>4, IdleTyped, PublishTyped, SettleTyped DEF IInv, TypeOK, TablesOK
<1>6. RowsOK'
  BY <1>1, <1>2, <1>3 DEF IInv, RowsOK, TypeOK, TablesOK
<1>7. \A j \in Chores : chore'[j] # chore[j] => ChoreRow(j) \in tx[s].locks
  BY <1>1, <1>2 DEF IInv, TypeOK, TablesOK
<1> QED BY <1>2, <1>5, <1>6, <1>7, CommitStep

LEMMA SweepCommitStep ==
  ASSUME IInv, NEW s \in Sessions, SweepCommit(s)
  PROVE  IInv'
<1> DEFINE S == tx[s].fined \cup tx[s].spared
<1>1. /\ Publish(s) /\ SettleClaims(s) /\ tx' = [tx EXCEPT ![s] = IdleTx]
      /\ chore' = [i \in Chores |-> IF i \in S THEN NoChore ELSE chore[i]]
      /\ UNCHANGED <<now, reward, redemption, debit, refund, awarded>>
  BY DEF SweepCommit, Run
<1>2. NoChore \in ChoreRecord /\ NoChore.expires = None
  BY DEF NoChore, ChoreRecord
<1>3. \A i \in S : ChoreRow(i) \in tx[s].locks
  BY SessionFacts DEF SessionOK, Settling
<1> HIDE DEF S
<1>4. TypeOK'
  BY <1>1, <1>2, IdleTyped, PublishTyped, SettleTyped DEF IInv, TypeOK, TablesOK
<1>5. RowsOK'
  BY <1>1, <1>2 DEF IInv, RowsOK
<1>6. \A i \in Chores : chore'[i] # chore[i] => ChoreRow(i) \in tx[s].locks
  BY <1>1, <1>3
<1> QED BY <1>1, <1>4, <1>5, <1>6, CommitStep

LEMMA FulfillStep ==
  ASSUME IInv, NEW r \in Redemptions, Fulfill(r)
  PROVE  IInv'
<1>1. redemption' \in [Redemptions -> RedemptionRecord]
  BY ZenonT(60) DEF Fulfill, IInv, TypeOK, TablesOK, RedemptionRecord, Statuses
<1>2. TypeOK'
  BY <1>1 DEF Fulfill, IInv, TypeOK, TablesOK
<1>3. \A q \in Redemptions :
        /\ redemption'[q].member = redemption[q].member
        /\ redemption[q].status # "absent" <=> redemption'[q].status # "absent"
  BY DEF Fulfill, IInv, TypeOK, TablesOK, RedemptionRecord
<1>4. RowsOK'
  BY <1>3 DEF Fulfill, IInv, RowsOK
<1> QED BY <1>2, <1>3, <1>4, TableStep DEF Fulfill

LEMMA ClaimStep ==
  ASSUME IInv, NEW i \in Chores, NEW m \in Members, Claim(i, m)
  PROVE  IInv'
<1> DEFINE row == [status |-> "pending", claimant |-> m,
                   claimedAt |-> now, expires |-> now + ClaimWindow]
<1>1. row \in ChoreRecord /\ row.claimant \in Members /\ row.claimedAt \in Nat
  <2>1. now \in Nat /\ now + ClaimWindow \in Nat
    BY TimeAssumption DEF TimeAssumption, IInv, TypeOK, TablesOK
  <2> QED BY <2>1 DEF ChoreRecord
<1>2. /\ chore' = [chore EXCEPT ![i] = row]
      /\ \A t \in Sessions : ChoreRow(i) \notin tx[t].locks
      /\ UNCHANGED <<now, bal, reward, redemption, debit, refund, awarded, charged, pardoned, tx>>
  BY DEF Claim
<1> HIDE DEF row
<1>3. TypeOK' /\ RowsOK'
  BY <1>1, <1>2 DEF IInv, RowsOK, TypeOK, TablesOK
<1>4. \A t \in Sessions, j \in Chores : ChoreRow(j) \in tx[t].locks => chore'[j] = chore[j]
  BY <1>2 DEF IInv, TypeOK, TablesOK
<1> QED BY <1>2, <1>3, <1>4, TableStep

LEMMA CatalogStep ==
  ASSUME IInv, Catalog
  PROVE  IInv'
<1>1. PICK w \in Rewards :
        /\ UNCHANGED tx
        /\ \/ \E c \in Costs, q \in Quantities : CreateReward(w, c, q) \/ UpdateReward(w, c, q)
           \/ ArchiveReward(w)
           \/ DeleteReward(w)
  BY DEF Catalog
<1>2. reward \in [Rewards -> RewardRecord]
  BY DEF IInv, TypeOK, TablesOK
<1>3. \A c \in Costs : c \in Nat
  BY CatalogAssumption DEF CatalogAssumption
<1>4. \A q \in Quantities : q \in Nat \cup {None}
  BY CatalogAssumption DEF CatalogAssumption
<1>5. reward' \in [Rewards -> RewardRecord] /\ UNCHANGED OtherTables
  <2>1. ASSUME NEW c \in Costs, NEW q \in Quantities, CreateReward(w, c, q)
        PROVE  reward' \in [Rewards -> RewardRecord] /\ UNCHANGED OtherTables
    BY <1>2, <1>3, <1>4, <2>1 DEF CreateReward, RewardRecord
  <2>2. ASSUME NEW c \in Costs, NEW q \in Quantities, UpdateReward(w, c, q)
        PROVE  reward' \in [Rewards -> RewardRecord] /\ UNCHANGED OtherTables
    BY <1>2, <1>3, <1>4, <2>2, ZenonT(60) DEF UpdateReward, RewardRecord
  <2>3. CASE ArchiveReward(w)
    BY <1>2, <2>3, ZenonT(60) DEF ArchiveReward, RewardRecord
  <2>4. CASE DeleteReward(w)
    BY <1>2, <2>4 DEF DeleteReward, RewardRecord, NoReward
  <2> QED BY <1>1, <2>1, <2>2, <2>3, <2>4
<1>6. TypeOK' /\ RowsOK'
  BY <1>1, <1>5 DEF OtherTables, IInv, TypeOK, TablesOK, RowsOK
<1> QED BY <1>1, <1>5, <1>6, TableStep DEF OtherTables

LEMMA TickStep ==
  ASSUME IInv, Tick
  PROVE  IInv'
<1>1. TypeOK' /\ RowsOK'
  BY DEF Tick, tables, IInv, TypeOK, TablesOK, RowsOK
<1> QED BY <1>1, TableStep DEF Tick, tables

-----------------------------------------------------------------------------
(* The invariant holds. *)

LEMMA InitOK == Init => IInv
<1> SUFFICES ASSUME Init PROVE IInv
  OBVIOUS
<1>1. TablesOK
  BY OpeningAssumption, TimeAssumption
     DEF OpeningAssumption, Init, TablesInit, TablesOK, NoReward, NoRedemption, NoChore,
         RewardRecord, RedemptionRecord, ChoreRecord
<1>2. TypeOK
  BY <1>1, IdleSession DEF Init, TypeOK
<1>3. \A m \in Members : bal[m] \in Int /\ bal[m] >= 0
  BY OpeningAssumption DEF OpeningAssumption, Init, TablesInit
<1>4. BalanceNeverNegative
  BY <1>3 DEF BalanceNeverNegative
<1>5. RowsOK
  BY DEF Init, TablesInit, RowsOK, NoRedemption, NoChore
<1>6. LockMutex
  BY IdleSession DEF Init, LockMutex
<1>7. SessionOK(IdleTx)
  <2>1. \A m \in Members : IdleTx.delta[m] = 0
    BY DEF IdleTx
  <2>2. Solvent(IdleTx)
    BY <1>3, <2>1 DEF Solvent
  <2>3. Redeeming(IdleTx) /\ Charging(IdleTx)
    BY DEF IdleTx, Redeeming, Charging
  <2>4. Settling(IdleTx) /\ Closing(IdleTx)
    BY DEF IdleTx, Settling, Closing
  <2> QED BY <2>2, <2>3, <2>4, IdleSession DEF SessionOK
<1>8. \A s \in Sessions : SessionOK(tx[s])
  BY <1>7 DEF Init
<1> QED BY <1>2, <1>4, <1>5, <1>6, <1>8 DEF IInv

LEMMA NextOK == IInv /\ [Next]_vars => IInv'
<1> SUFFICES ASSUME IInv, [Next]_vars PROVE IInv'
  OBVIOUS
<1>1. CASE Tick
  BY <1>1, TickStep
<1>2. CASE Catalog
  BY <1>2, CatalogStep
<1>3. ASSUME NEW r \in Redemptions, Fulfill(r) PROVE IInv'
  BY <1>3, FulfillStep
<1>4. ASSUME NEW i \in Chores, NEW m \in Members, Claim(i, m) PROVE IInv'
  BY <1>4, ClaimStep
<1>5. ASSUME NEW s \in Sessions, Begin(s) PROVE IInv'
  BY <1>5, RedeemBeginStep, ResolveBeginStep, CloseBeginStep, SweepBeginStep DEF Begin
<1>6. ASSUME NEW s \in Sessions, Step(s) PROVE IInv'
  BY <1>6, RedeemLockMemberStep, RedeemLockRewardStep, RedeemReadBalanceStep,
     RedeemCountStockStep, RedeemInsertStep, RedeemCommitStep,
     ResolveUpdateStep, ResolveRefundStep, ResolveCommitStep,
     CloseCheckLapseStep, CloseUpdateStep, CloseCommitStep,
     SweepRevertStep, SweepCommitStep, ChargeLockStep, ChargeReadStep, ChargeInsertStep
     DEF Step
<1>7. ASSUME NEW s \in Sessions, Abort(s) PROVE IInv'
  BY <1>7, RollbackStep DEF Abort
<1>8. CASE UNCHANGED vars
  <2>1. UNCHANGED <<now, tables, tx>>
    BY <1>8 DEF vars, tables
  <2>2. TypeOK' /\ RowsOK'
    BY <2>1 DEF tables, IInv, TypeOK, TablesOK, RowsOK
  <2> QED BY <2>1, <2>2, TableStep DEF tables
<1> QED BY <1>1, <1>2, <1>3, <1>4, <1>5, <1>6, <1>7, <1>8 DEF Next

\* The strengthened invariant: open transactions can always commit.
THEOREM InFlightInvariant == Spec => []IInv
BY InitOK, NextOK, PTL DEF Spec

\* Whatever is stored, in a table or in a transaction's variables, has the type
\* of its column or variable.
THEOREM TypeCorrect == Spec => []TypeOK
<1>1. IInv => TypeOK
  BY DEF IInv
<1> QED BY <1>1, InFlightInvariant, PTL

\* However many connections redeem, refund, award and penalise at once, no
\* member's balance is ever negative (RedeemWithDebit, insertClaimExpiryPenalty).
THEOREM NoOverdraft == Spec => []BalanceNeverNegative
<1>1. IInv => BalanceNeverNegative
  BY DEF IInv
<1> QED BY <1>1, InFlightInvariant, PTL

=============================================================================
