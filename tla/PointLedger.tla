----------------------------- MODULE PointLedger -----------------------------
(***************************************************************************)
(* The point ledger of a household, at the grain of its SQL statements.    *)
(*                                                                         *)
(* A member's balance is SUM(points) over an append-only table that awards, *)
(* claim-expiry penalties, redemption debits and refunds all append to.    *)
(* Every writer is a READ COMMITTED transaction on its own connection, so  *)
(* a statement sees what is committed when it starts plus what its own     *)
(* transaction wrote; two writers interleave between any two statements    *)
(* and are kept apart only by the locks they take:                         *)
(*   - lockMemberBalance's transaction-scoped advisory lock;               *)
(*   - row locks on reward, reward_redemption and task_instance;           *)
(*   - the unique index on a deep link's signature hash.                   *)
(* A session is one connection.  Its transaction record holds what the Go  *)
(* function has in its local variables, the locks it was granted and the   *)
(* uncommitted ledger rows (delta).  Committing publishes them and drops   *)
(* every lock; any failure rolls back.                                     *)
(***************************************************************************)
EXTENDS LedgerTables

CONSTANT Sessions  \* database connections that may run a transaction

VARIABLE tx        \* tx[s]: the transaction of session s

vars == <<now, bal, reward, redemption, debit, refund, chore, awarded, charged, pardoned, tx>>

-----------------------------------------------------------------------------
(* Lockable resources. *)
MemberLock(m)    == <<"member", m>>
RewardRow(w)     == <<"reward", w>>
RedemptionRow(r) == <<"redemption", r>>
ChoreRow(i)      == <<"chore", i>>
LinkKey(l)       == <<"link", l>>

Resources ==
  {MemberLock(m) : m \in Members} \cup {RewardRow(w) : w \in Rewards}
  \cup {RedemptionRow(r) : r \in Redemptions} \cup {ChoreRow(i) : i \in Chores}
  \cup {LinkKey(l) : l \in Links}

PCs == {"idle",
        "redeem: lock member", "redeem: lock reward", "redeem: read balance",
        "redeem: count stock", "redeem: insert", "redeem: commit",
        "resolve: update", "resolve: refund", "resolve: commit",
        "close: check lapse", "close: update", "close: commit",
        "sweep: revert", "sweep: commit",
        "charge: lock", "charge: read", "charge: insert"}

Outcomes == {None, "denied", "cancelled", "done", "skipped", "reverted"}

TxState ==
  [pc : PCs, at : Nat, locks : SUBSET Resources,
   member : Members \cup {None},      \* redeemer, or who closes the chore
   reward : Rewards \cup {None}, rid : Redemptions \cup {None},
   link : Links \cup {None}, cost : Nat, qty : Nat \cup {None},
   outcome : Outcomes,
   asAssignee : BOOLEAN,              \* RequireAssignee was passed
   chore : Chores \cup {None}, todo : SUBSET Chores,
   debtor : Members \cup {None},      \* row.claimedBy of the chore being charged
   fine : Nat, fined : SUBSET Chores, spared : SUBSET Chores,
   delta : [Members -> Int]]          \* uncommitted ledger rows, summed

IdleTx ==
  [pc |-> "idle", at |-> 0, locks |-> {}, member |-> None, reward |-> None,
   rid |-> None, link |-> None, cost |-> 0, qty |-> None, outcome |-> None,
   asAssignee |-> FALSE, chore |-> None, todo |-> {}, debtor |-> None,
   fine |-> 0, fined |-> {}, spared |-> {}, delta |-> [m \in Members |-> 0]]

Init ==
  /\ TablesInit
  /\ tx = [s \in Sessions |-> IdleTx]

-----------------------------------------------------------------------------
(* Helpers. *)

\* What a balance query of session s returns: committed rows and its own.
Visible(s, m) == bal[m] + tx[s].delta[m]

Unavailable(res, s) == \E t \in Sessions \ {s} : res \in tx[t].locks

\* Mutant: only completing checks for a lapsed claim, skipping does not.
LapsedOnlyWhenDone(s) == tx[s].outcome = "done" /\ LapsedBy(tx[s].chore, tx[s].at)

\* The claim of the chore s closes had lapsed when its request started.
Lapsed(s) == LapsedBy(tx[s].chore, tx[s].at)

\* Mutant: the UPDATE has no guard on the status.
ClosableWhateverStatus(s) ==
  tx[s].asAssignee => chore[tx[s].chore].claimant = tx[s].member

\* Rows the guarded UPDATE of complete/skip matches.
Closable(s) == /\ Open(tx[s].chore)
               /\ tx[s].asAssignee => chore[tx[s].chore].claimant = tx[s].member

\* Mutant: the sweep charges its rows in the order the scan returned them.
ChargeUnsorted(S) == S

\* The chores a sweep may charge next: it sorts its rows by claimant.
ChargeNext(S) == {i \in S : \A j \in S : chore[i].claimant <= chore[j].claimant}

\* The resources the next statement of session s must be granted.
Wants(s) ==
  CASE tx[s].pc = "redeem: lock member" -> {MemberLock(tx[s].member)}
    [] tx[s].pc = "redeem: lock reward" -> {RewardRow(tx[s].reward)}
    [] tx[s].pc = "redeem: insert" /\ tx[s].link # None -> {LinkKey(tx[s].link)}
    [] tx[s].pc = "resolve: update" /\ redemption[tx[s].rid].status = "pending" ->
         {RedemptionRow(tx[s].rid)}
    [] tx[s].pc = "close: check lapse" /\ Lapsed(s) -> {ChoreRow(tx[s].chore)}
    [] tx[s].pc = "close: update" /\ Closable(s) -> {ChoreRow(tx[s].chore)}
    [] tx[s].pc = "charge: lock" -> {MemberLock(tx[s].debtor)}
    [] OTHER -> {}

Blockers(s) == {t \in Sessions \ {s} : Wants(s) \cap tx[t].locks # {}}

\* Session s waits for nobody and its transaction record becomes r.
Run(s, r) == /\ Blockers(s) = {}
             /\ tx' = [tx EXCEPT ![s] = r]

\* Mutant: a lock lasts for its own statement only.
AcquireForStatement(s, r) == Run(s, r)

\* As Run, and the wanted resources are held until the transaction ends.
Acquire(s, r) == Run(s, [r EXCEPT !.locks = @ \cup Wants(s)])

\* Mutant: the connection goes back to the pool with its transaction open.
ForgottenRollback(s) == Run(s, [tx[s] EXCEPT !.pc = "idle"]) /\ UNCHANGED <<now, tables>>

Rollback(s) == Run(s, IdleTx) /\ UNCHANGED <<now, tables>>

-----------------------------------------------------------------------------
(* RewardService.redeem and RedeemWithDebit. *)

\* The optimistic read of the service, then Begin.
RedeemBegin(s) ==
  \E m \in Members, w \in Rewards, l \in Links \cup {None}, r \in Redemptions :
    /\ tx[s].pc = "idle"
    /\ reward[w].exists /\ reward[w].active
    /\ l # None => LinkReward[l] = w
    /\ redemption[r].status = "absent"
    /\ \A t \in Sessions : tx[t].rid # r
    /\ Run(s, [IdleTx EXCEPT !.pc = "redeem: lock member", !.member = m,
                             !.reward = w, !.link = l, !.rid = r])
    /\ UNCHANGED <<now, tables>>

RedeemLockMember(s) ==
  /\ tx[s].pc = "redeem: lock member"
  /\ Acquire(s, [tx[s] EXCEPT !.pc = "redeem: lock reward"])
  /\ UNCHANGED <<now, tables>>

\* SELECT ... FOR UPDATE: the price, the stock and active are read under the
\* row lock, whatever the service read before.
RedeemLockReward(s) ==
  LET w == reward[tx[s].reward] IN
  /\ tx[s].pc = "redeem: lock reward"
  /\ \/ /\ w.exists /\ w.active
        /\ Acquire(s, [tx[s] EXCEPT !.pc = "redeem: read balance",
                                    !.cost = w.cost, !.qty = w.qty])
        /\ UNCHANGED <<now, tables>>
     \/ ~(w.exists /\ w.active) /\ Rollback(s)

RedeemReadBalance(s) ==
  /\ tx[s].pc = "redeem: read balance"
  /\ \/ /\ Visible(s, tx[s].member) >= tx[s].cost
        /\ Run(s, [tx[s] EXCEPT !.pc = "redeem: count stock"])
        /\ UNCHANGED <<now, tables>>
     \/ Visible(s, tx[s].member) < tx[s].cost /\ Rollback(s)

RedeemCountStock(s) ==
  LET room == tx[s].qty # None => Cardinality(Live(tx[s].reward)) < tx[s].qty IN
  /\ tx[s].pc = "redeem: count stock"
  /\ \/ /\ room
        /\ Run(s, [tx[s] EXCEPT !.pc = "redeem: insert"])
        /\ UNCHANGED <<now, tables>>
     \/ ~room /\ Rollback(s)

\* Mutant: no unique index on the signature hash.
LinkNeverUsed(l) == FALSE

LinkUsed(l) == l # None /\ \E r \in Redemptions : redemption[r].link = l

\* The redemption row, then its debit.  A link another open transaction has
\* inserted is waited for; one already committed is ErrDeepLinkAlreadyRedeemed.
RedeemInsert(s) ==
  /\ tx[s].pc = "redeem: insert"
  /\ \/ /\ ~LinkUsed(tx[s].link)
        /\ Acquire(s, [tx[s] EXCEPT !.pc = "redeem: commit",
                                    !.delta[tx[s].member] = @ - tx[s].cost])
        /\ UNCHANGED <<now, tables>>
     \/ LinkUsed(tx[s].link) /\ Rollback(s)

\* The ledger rows of the committing transaction become visible.
Publish(s) == bal' = [m \in Members |-> bal[m] + tx[s].delta[m]]

RedeemCommit(s) ==
  /\ tx[s].pc = "redeem: commit"
  /\ Run(s, IdleTx)
  /\ Publish(s)
  /\ redemption' = [redemption EXCEPT ![tx[s].rid] =
       [status |-> "pending", member |-> tx[s].member,
        reward |-> tx[s].reward, link |-> tx[s].link]]
  /\ debit' = [debit EXCEPT ![tx[s].rid] = tx[s].cost]
  /\ UNCHANGED <<now, reward, refund, chore, awarded, charged, pardoned>>

-----------------------------------------------------------------------------
(* Fulfill, Deny and Cancel. *)

\* One auto-committed statement, re-evaluated against the committed row.
Fulfill(r) ==
  /\ redemption[r].status = "pending"
  /\ \A s \in Sessions : RedemptionRow(r) \notin tx[s].locks
  /\ redemption' = [redemption EXCEPT ![r].status = "fulfilled"]
  /\ UNCHANGED <<now, bal, reward, debit, refund, chore, awarded, charged, pardoned, tx>>

\* Deny (a parent) or Cancel (the redeemer): the request names a redemption
\* that was pending when the page was rendered, not necessarily any more.
ResolveBegin(s) ==
  \E r \in Redemptions, o \in {"denied", "cancelled"} :
    /\ tx[s].pc = "idle"
    /\ redemption[r].status # "absent"
    /\ Run(s, [IdleTx EXCEPT !.pc = "resolve: update", !.rid = r, !.outcome = o])
    /\ UNCHANGED <<now, tables>>

ResolveUpdate(s) ==
  LET pending == redemption[tx[s].rid].status = "pending" IN
  /\ tx[s].pc = "resolve: update"
  /\ \/ /\ pending
        /\ Acquire(s, [tx[s] EXCEPT !.pc = "resolve: refund",
                                    !.member = redemption[tx[s].rid].member])
        /\ UNCHANGED <<now, tables>>
     \/ ~pending /\ Rollback(s)

\* Mutant: the refund is the reward's price of today.
RefundTodaysPrice(s) == reward[redemption[tx[s].rid].reward].cost

\* Read back from the original debit row, never from the reward.
RefundAmount(s) == debit[tx[s].rid]

ResolveRefund(s) ==
  /\ tx[s].pc = "resolve: refund"
  /\ Run(s, [tx[s] EXCEPT !.pc = "resolve: commit",
                          !.delta[tx[s].member] = @ + RefundAmount(s)])
  /\ UNCHANGED <<now, tables>>

ResolveCommit(s) ==
  /\ tx[s].pc = "resolve: commit"
  /\ Run(s, IdleTx)
  /\ Publish(s)
  /\ redemption' = [redemption EXCEPT ![tx[s].rid].status = tx[s].outcome]
  /\ refund' = [refund EXCEPT ![tx[s].rid] = @ + tx[s].delta[tx[s].member]]
  /\ UNCHANGED <<now, reward, debit, chore, awarded, charged, pardoned>>

-----------------------------------------------------------------------------
(* Claims, and the two transactions that end one: closing the chore         *)
(* (CompleteAndAward, Skip) and the expiry sweep.                           *)

\* One auto-committed statement.  Re-asserting one's own claim changes nothing.
Claim(i, m) ==
  /\ Open(i) /\ chore[i].claimant = None
  /\ \A s \in Sessions : ChoreRow(i) \notin tx[s].locks
  /\ chore' = [chore EXCEPT ![i] = [status |-> "pending", claimant |-> m,
                 claimedAt |-> now, expires |-> now + ClaimWindow]]
  /\ UNCHANGED <<now, bal, reward, redemption, debit, refund, awarded, charged, pardoned, tx>>

\* Completion was refused already if the service read a terminal row; `at` is
\* taken once, when the request starts.
CloseBegin(s) ==
  \E i \in Chores, m \in Members, o \in {"done", "skipped"}, g \in BOOLEAN :
    /\ tx[s].pc = "idle"
    /\ o = "done" => Open(i)
    /\ Run(s, [IdleTx EXCEPT !.pc = "close: check lapse", !.at = now, !.chore = i,
                             !.member = m, !.outcome = o, !.asAssignee = g])
    /\ UNCHANGED <<now, tables>>

\* penalizeLapsedClaim's SELECT ... FOR UPDATE matches only a lapsed claim.
CloseCheckLapse(s) ==
  LET i == tx[s].chore IN
  /\ tx[s].pc = "close: check lapse"
  /\ \/ /\ Lapsed(s)
        /\ Acquire(s, [tx[s] EXCEPT !.pc = "charge: lock", !.todo = {i},
                                    !.debtor = chore[i].claimant])
     \/ /\ ~Lapsed(s)
        /\ Run(s, [tx[s] EXCEPT !.pc = "close: update"])
  /\ UNCHANGED <<now, tables>>

\* Points are paid for a completion, once (ON CONFLICT DO NOTHING).
Award(s) == IF tx[s].outcome = "done" /\ tx[s].chore \notin awarded
            THEN Points[tx[s].chore] ELSE 0

\* The guarded UPDATE and the award.  Zero rows: rollback, the penalty included.
CloseUpdate(s) ==
  /\ tx[s].pc = "close: update"
  /\ \/ /\ Closable(s)
        /\ Acquire(s, [tx[s] EXCEPT !.pc = "close: commit",
                                    !.delta[tx[s].member] = @ + Award(s)])
        /\ UNCHANGED <<now, tables>>
     \/ ~Closable(s) /\ Rollback(s)

\* Mutant: claimed_at as RETURNING gives it, after the row was reverted.
WindowsAfterUpdate(S) == {<<i, chore'[i].claimedAt>> : i \in S}

\* The claim windows the transaction charged, and those it found penniless.
Windows(S) == {<<i, chore[i].claimedAt>> : i \in S}
SettleClaims(s) ==
  /\ charged' = charged \cup Windows(tx[s].fined)
  /\ pardoned' = pardoned \cup Windows(tx[s].spared)

CloseCommit(s) ==
  LET i == tx[s].chore IN
  /\ tx[s].pc = "close: commit"
  /\ Run(s, IdleTx)
  /\ Publish(s)
  /\ chore' = [chore EXCEPT ![i] = [NoChore EXCEPT !.status = tx[s].outcome]]
  /\ SettleClaims(s)
  /\ awarded' = IF tx[s].outcome = "done" /\ Points[i] > 0 THEN awarded \cup {i} ELSE awarded
  /\ UNCHANGED <<now, reward, redemption, debit, refund>>

SweepBegin(s) ==
  /\ tx[s].pc = "idle"
  /\ Run(s, [IdleTx EXCEPT !.pc = "sweep: revert", !.at = now])
  /\ UNCHANGED <<now, tables>>

\* FOR UPDATE SKIP LOCKED: rows another transaction holds are passed over.
SweepRevert(s) ==
  LET S == {i \in Chores : LapsedBy(i, tx[s].at) /\ ~Unavailable(ChoreRow(i), s)} IN
  /\ tx[s].pc = "sweep: revert"
  /\ \/ /\ S # {}
        /\ \E i \in ChargeNext(S) :
             Run(s, [tx[s] EXCEPT !.pc = "charge: lock", !.chore = i, !.todo = S,
                                  !.outcome = "reverted", !.debtor = chore[i].claimant,
                                  !.locks = @ \cup {ChoreRow(j) : j \in S}])
        /\ UNCHANGED <<now, tables>>
     \/ S = {} /\ Rollback(s)

SweepCommit(s) ==
  /\ tx[s].pc = "sweep: commit"
  /\ Run(s, IdleTx)
  /\ Publish(s)
  /\ chore' = [i \in Chores |-> IF i \in tx[s].fined \cup tx[s].spared
                                THEN NoChore ELSE chore[i]]
  /\ SettleClaims(s)
  /\ UNCHANGED <<now, reward, redemption, debit, refund, awarded>>

-----------------------------------------------------------------------------
(* insertClaimExpiryPenalty, for a closing transaction (one chore) or for   *)
(* each row of a sweep.                                                     *)

ChargeLock(s) ==
  /\ tx[s].pc = "charge: lock"
  /\ Acquire(s, [tx[s] EXCEPT !.pc = "charge: read"])
  /\ UNCHANGED <<now, tables>>

\* r is the record after tx[s].chore was settled: on to the next row, or on
\* to what the transaction does after charging.
ChargeDone(s, r) ==
  LET left == tx[s].todo \ {tx[s].chore} IN
  \/ /\ left = {}
     /\ Run(s, [r EXCEPT !.todo = left,
                         !.pc = IF tx[s].outcome = "reverted"
                                THEN "sweep: commit" ELSE "close: update"])
  \/ \E i \in ChargeNext(left) :
       Run(s, [r EXCEPT !.todo = left, !.pc = "charge: lock", !.chore = i,
                        !.debtor = chore[i].claimant])

\* The penalty is capped by the balance; with nothing to take, no row is added.
ChargeRead(s) ==
  LET i       == tx[s].chore
      wanted  == ClaimExpiryPenalty(Points[i])
      balance == Visible(s, tx[s].debtor)
  IN
  /\ tx[s].pc = "charge: read"
  /\ \/ /\ balance > 0
        /\ Run(s, [tx[s] EXCEPT !.pc = "charge: insert", !.fine = Least(wanted, balance)])
     \/ /\ balance <= 0
        /\ ChargeDone(s, [tx[s] EXCEPT !.spared = @ \cup {i}])
  /\ UNCHANGED <<now, tables>>

\* ON CONFLICT (source_id, claim_started_at) DO NOTHING.
ChargeInsert(s) ==
  LET i   == tx[s].chore
      new == <<i, chore[i].claimedAt>> \notin charged
  IN
  /\ tx[s].pc = "charge: insert"
  /\ ChargeDone(s, [tx[s] EXCEPT !.fined = @ \cup {i},
                      !.delta[tx[s].debtor] = IF new THEN @ - tx[s].fine ELSE @])
  /\ UNCHANGED <<now, tables>>

-----------------------------------------------------------------------------
(* The reward catalogue: single auto-committed statements, each of which    *)
(* waits for the row lock a redemption holds.                               *)

\* Mutant: redemptions read the reward without FOR UPDATE.
CatalogAlwaysFree(w) == TRUE

CatalogFree(w) == \A s \in Sessions : RewardRow(w) \notin tx[s].locks

Catalog ==
  \E w \in Rewards :
    /\ CatalogFree(w)
    /\ \/ \E c \in Costs, q \in Quantities :
            \/ CreateReward(w, c, q) /\ \A s \in Sessions : tx[s].reward # w  \* a fresh id
            \/ UpdateReward(w, c, q)
       \/ ArchiveReward(w)
       \/ DeleteReward(w)
    /\ UNCHANGED tx

-----------------------------------------------------------------------------
\* A lost connection, a cancelled context, a crash: the server rolls back.
Abort(s) == /\ tx[s].pc # "idle"
            /\ tx' = [tx EXCEPT ![s] = IdleTx]
            /\ UNCHANGED <<now, tables>>

Tick == /\ now < MaxTime
        /\ now' = now + 1
        /\ UNCHANGED <<tables, tx>>

\* The statements of an open transaction.
Step(s) ==
  \/ RedeemLockMember(s) \/ RedeemLockReward(s) \/ RedeemReadBalance(s)
  \/ RedeemCountStock(s) \/ RedeemInsert(s) \/ RedeemCommit(s)
  \/ ResolveUpdate(s) \/ ResolveRefund(s) \/ ResolveCommit(s)
  \/ CloseCheckLapse(s) \/ CloseUpdate(s) \/ CloseCommit(s)
  \/ SweepRevert(s) \/ SweepCommit(s)
  \/ ChargeLock(s) \/ ChargeRead(s) \/ ChargeInsert(s)

Begin(s) == RedeemBegin(s) \/ ResolveBegin(s) \/ CloseBegin(s) \/ SweepBegin(s)

Next ==
  \/ Tick
  \/ Catalog
  \/ \E r \in Redemptions : Fulfill(r)
  \/ \E i \in Chores, m \in Members : Claim(i, m)
  \/ \E s \in Sessions : Begin(s) \/ Step(s) \/ Abort(s)

Spec == Init /\ [][Next]_vars

\* A granted statement runs, and Postgres queues waiters of a lock in order.
FairSpec == Spec /\ \A s \in Sessions : SF_vars(Step(s))

-----------------------------------------------------------------------------
(* Correctness. *)

\* Every table, and every transaction's local variables, hold values of the
\* columns' and variables' types.
TypeOK ==
  /\ TablesOK
  /\ tx \in [Sessions -> TxState]

\* No interleaving of redemptions, penalties, refunds and awards takes a
\* member's committed balance below zero (RedeemWithDebit's funds check and
\* the cap of insertClaimExpiryPenalty, NES-205).
BalanceNeverNegative == \A m \in Members : bal[m] >= 0

\* What a redemption paid comes back exactly when it was denied or cancelled,
\* once, and at the price that was paid, whatever the reward costs by then
\* (refundRedemption).
RefundMatchesDebit ==
  \A r \in Redemptions :
    refund[r] = IF redemption[r].status \in {"denied", "cancelled"} THEN debit[r] ELSE 0

\* One signed deep link redeems at most once, by whichever member and through
\* whichever connection (reward_redemption_deep_link_signature_uniq).
LinkRedeemsOnce ==
  \A q, r \in Redemptions :
    redemption[q].link # None /\ redemption[q].link = redemption[r].link => q = r

\* Whenever a redemption commits, the reward is still there, active and priced
\* at what was debited, and had a unit left: nothing RedeemWithDebit read
\* under its locks is stale at the commit.
RedeemsAtCurrentTerms ==
  [][\A r \in Redemptions :
       redemption[r].status = "absent" /\ redemption'[r].status # "absent" =>
         LET w == redemption'[r].reward IN
         /\ reward[w].exists /\ reward[w].active
         /\ debit'[r] = reward[w].cost
         /\ reward[w].qty # None => Cardinality(Live(w)) < reward[w].qty
    ]_vars

\* A claim that had lapsed when the transaction that ends it started leaves a
\* settlement behind: the penalty, or a pardon because there was nothing to
\* take.  Neither completing nor skipping late escapes it (NES-199).
LapsedClaimsAreSettled ==
  [][\A i \in Chores, s \in Sessions :
       /\ chore[i].claimant # None /\ chore'[i].claimant = None
       /\ ChoreRow(i) \in tx[s].locks
       /\ LapsedBy(i, tx[s].at)
       => <<i, chore[i].claimedAt>> \in charged' \cup pardoned']_vars

\* No set of transactions wait for each other in a circle: members are charged
\* in id order and every path takes chore, member, reward, link in that order.
NoWaitCycle ==
  \A D \in SUBSET Sessions : D # {} => \E s \in D : Blockers(s) \cap D = {}

Household == INSTANCE HouseholdLedger WITH
    now <- now, bal <- bal, reward <- reward, redemption <- redemption,
    debit <- debit, refund <- refund, chore <- chore, awarded <- awarded,
    charged <- charged, pardoned <- pardoned

\* Each transaction takes effect at its commit as one indivisible request on
\* the tables as they are then, or not at all: the locks RedeemWithDebit,
\* Deny, CompleteAndAward, Skip and SweepExpiredClaims take make READ COMMITTED
\* serialisable for every balance, price, stock and claim they touch.
ImplementsHousehold == Household!Spec

\* Every transaction that is begun ends: nothing holds a lock for ever.
TransactionsEnd == \A s \in Sessions : tx[s].pc # "idle" ~> tx[s].pc = "idle"

=============================================================================
