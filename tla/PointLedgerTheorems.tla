------------------------- MODULE PointLedgerTheorems -------------------------
(***************************************************************************)
(* The properties of PointLedger that users and reviewers rely on, proved  *)
(* for every household, catalogue and number of connections.               *)
(*                                                                         *)
(* PointLedgerProofs says that an open transaction could commit.  The      *)
(* first part here, SerialOK, adds what it would commit: which locks it    *)
(* holds at each point, that what it read under them is what the rows      *)
(* still say, and what its uncommitted ledger rows are made of.  The       *)
(* second part draws the consequences: exact refunds, links that redeem    *)
(* once, current terms, settled windows, no deadlock, and that each step   *)
(* is a step of HouseholdLedger or changes no table.                       *)
(***************************************************************************)
EXTENDS PointLedgerProofs, FiniteSetTheorems, WellFoundedInduction, NaturalSets

\* Points at which a transaction has done nothing yet.
FirstPCs == {"idle", "redeem: lock member", "resolve: update", "close: check lapse",
             "sweep: revert"}

\* A transaction that has done nothing holds nothing and has settled nothing.
Unstarted(r) ==
  r.pc \in FirstPCs => /\ r.locks = {} /\ r.todo = {} /\ r.fined = {} /\ r.spared = {}
                       /\ \A m \in Members : r.delta[m] = 0

\* The redemption's row is still to be inserted; its locks are taken in order
\* and the debit is its only ledger row.
Buying(r) ==
  r.pc \in RedeemPCs =>
    /\ redemption[r.rid].status = "absent"
    /\ r.link # None => LinkReward[r.link] = r.reward
    /\ r.todo = {} /\ r.fined = {} /\ r.spared = {}
    /\ r.pc = "redeem: lock reward" => r.locks = {MemberLock(r.member)}
    /\ r.pc \in {"redeem: read balance", "redeem: count stock", "redeem: insert"} =>
         r.locks = {MemberLock(r.member), RewardRow(r.reward)}
    /\ \A m \in Members :
         r.delta[m] = IF r.pc = "redeem: commit" /\ m = r.member THEN - r.cost ELSE 0

\* What was read under the reward's row lock is what the row still says.
OfferStands(r) ==
  /\ r.pc \in {"redeem: read balance", "redeem: count stock", "redeem: insert", "redeem: commit"} =>
       /\ RewardRow(r.reward) \in r.locks
       /\ reward[r.reward].exists /\ reward[r.reward].active
       /\ r.cost = reward[r.reward].cost /\ r.qty = reward[r.reward].qty
  /\ r.pc \in {"redeem: insert", "redeem: commit"} =>
       (r.qty # None => Cardinality(Live(r.reward)) < r.qty)
  /\ r.pc = "redeem: commit" /\ r.link # None =>
       /\ LinkKey(r.link) \in r.locks
       /\ \A q \in Redemptions : redemption[q].link # r.link

\* The redemption being denied is still pending, and its debit is what the
\* refund gives back.
Refunding(r) ==
  r.pc \in {"resolve: refund", "resolve: commit"} =>
    /\ r.locks = {RedemptionRow(r.rid)}
    /\ r.todo = {} /\ r.fined = {} /\ r.spared = {}
    /\ redemption[r.rid].status = "pending" /\ redemption[r.rid].member = r.member
    /\ \A m \in Members :
         r.delta[m] = IF r.pc = "resolve: commit" /\ m = r.member THEN debit[r.rid] ELSE 0

\* The claims a transaction settles had lapsed when it started, and each is
\* settled one way.
Lapsing(r) ==
  /\ r.at <= now
  /\ \A i \in r.todo \cup r.fined \cup r.spared : LapsedBy(i, r.at)
  /\ r.fined \cap r.spared = {} /\ r.todo \cap (r.fined \cup r.spared) = {}

\* A sweep takes points only from claimants of chores it fined.
TakesFromFined(r) ==
  \A m \in Members : /\ r.delta[m] <= 0
                     /\ r.delta[m] < 0 => \E i \in r.fined : chore[i].claimant = m

\* Claims are charged in the order of their claimants.
InOrder(r) ==
  r.pc \in ChargePCs =>
    /\ r.debtor = chore[r.chore].claimant
    /\ \A j \in r.todo : r.debtor <= chore[j].claimant
    /\ \A x \in r.locks : \/ \E i \in Chores : x = ChoreRow(i)
                          \/ \E m \in Members : m <= r.debtor /\ x = MemberLock(m)
    /\ r.outcome # "reverted" => /\ r.todo = {r.chore} /\ r.fined = {} /\ r.spared = {}
                                 /\ \A m \in Members : r.delta[m] = 0
    /\ r.outcome = "reverted" => TakesFromFined(r)
    /\ r.pc = "charge: insert" => r.fine <= ClaimExpiryPenalty(Points[r.chore])

\* A closing transaction's ledger rows: the fine f and the award.
ClosesFor(r, award) ==
  \E f \in 0 .. ClaimExpiryPenalty(Points[r.chore]) :
    /\ r.fined = {} => f = 0
    /\ f > 0 => /\ chore[r.chore].claimant \in Members
                /\ MemberLock(chore[r.chore].claimant) \in r.locks
                /\ f <= bal[chore[r.chore].claimant]
    /\ \A m \in Members :
         r.delta[m] = (IF m = r.member THEN award ELSE 0)
                      - (IF f > 0 /\ m = chore[r.chore].claimant THEN f ELSE 0)

Finishing(r) ==
  /\ r.pc \in {"close: update", "close: commit"} =>
       /\ r.todo = {} /\ r.fined \cup r.spared \subseteq {r.chore}
       /\ LapsedBy(r.chore, r.at) => r.chore \in r.fined \cup r.spared
  /\ r.pc = "close: update" => /\ r.fined \cup r.spared = {} => r.locks = {}
                               /\ ClosesFor(r, 0)
  /\ r.pc = "close: commit" => /\ Open(r.chore)
                               /\ ClosesFor(r, IF r.outcome = "done" THEN Points[r.chore] ELSE 0)
  /\ r.pc = "sweep: commit" => TakesFromFined(r) /\ r.fined \cup r.spared # {}

Serial(r) == /\ Unstarted(r) /\ Buying(r) /\ OfferStands(r) /\ Refunding(r)
             /\ Lapsing(r) /\ InOrder(r) /\ Finishing(r)

DistinctRows == \A s, t \in Sessions :
  s # t /\ tx[s].pc \in RedeemPCs /\ tx[t].pc \in RedeemPCs => tx[s].rid # tx[t].rid

Records ==
  /\ \A r \in Redemptions : redemption[r].status = "absent" => redemption[r].link = None
  /\ \A w \in Rewards : IsFiniteSet(Live(w))
  /\ \A i \in awarded : chore[i].status = "done"

SerialOK == DistinctRows /\ Records /\ \A s \in Sessions : Serial(tx[s])

-----------------------------------------------------------------------------
(* What survives the steps of others. *)

\* The row of a chore whose claim had lapsed by the given time.
LapsedRow(row, at) == row.status = "pending" /\ row.expires # None /\ row.expires <= at

\* The fine a closing transaction has inserted can still be afforded, and the
\* claim it is for is still in the table.
LEMMA ClosesForFramed ==
  ASSUME NEW r, NEW award, ClosesFor(r, award), NEW t \in Sessions, tx'[t] = r,
         r.chore \in Chores, r.fined \subseteq {r.chore},
         \A m \in Members : bal[m] \in Int /\ bal'[m] \in Int,
         \A m \in Members : MemberLock(m) \in r.locks => bal'[m] >= bal[m],
         \A i \in r.fined : chore'[i] = chore[i],
         Points[r.chore] \in Nat
  PROVE  ClosesFor(r, award)'
<1> DEFINE debtor == chore[r.chore].claimant
<1>1. ClaimExpiryPenalty(Points[r.chore]) \in Nat
  BY DEF ClaimExpiryPenalty
<1> DEFINE top == ClaimExpiryPenalty(Points[r.chore])
<1>2. PICK f \in 0 .. top :
        /\ r.fined = {} => f = 0
        /\ f > 0 => /\ debtor \in Members /\ MemberLock(debtor) \in r.locks
                    /\ f <= bal[debtor]
        /\ \A m \in Members :
             r.delta[m] = (IF m = r.member THEN award ELSE 0)
                          - (IF f > 0 /\ m = debtor THEN f ELSE 0)
  BY DEF ClosesFor
<1>3. f > 0 => /\ chore'[r.chore].claimant = debtor
               /\ f <= bal'[debtor]
  <2> SUFFICES ASSUME f > 0 PROVE chore'[r.chore].claimant = debtor /\ f <= bal'[debtor]
    OBVIOUS
  <2>1. r.chore \in r.fined
    BY <1>2
  <2>2. /\ debtor \in Members /\ bal[debtor] \in Int /\ bal'[debtor] \in Int
        /\ bal'[debtor] >= bal[debtor] /\ f <= bal[debtor] /\ f \in Int
    BY <1>1, <1>2
  <2> QED BY <2>1, <2>2
<1> HIDE DEF debtor, top
<1>4. \A m \in Members :
        (f > 0 /\ m = debtor) <=> (f > 0 /\ m = chore'[r.chore].claimant)
  BY <1>3
<1> QED BY <1>2, <1>3, <1>4 DEF ClosesFor, MemberLock, ClaimExpiryPenalty, top

\* A session's record keeps making sense while others leave alone what it has
\* locked, do not take its redemption's row, and lapse no claim retroactively.
LEMMA Framed ==
  ASSUME NEW r \in TxState, SessionOK(r), Serial(r), NEW t \in Sessions, tx'[t] = r,
         now \in Int /\ now' \in Int /\ now <= now',
         \A m \in Members : bal[m] \in Int /\ bal'[m] \in Int,
         \A m \in Members : MemberLock(m) \in r.locks => bal'[m] >= bal[m],
         \A w \in Rewards : RewardRow(w) \in r.locks =>
           reward'[w] = reward[w] /\ IsFiniteSet(Live(w)) /\ Live(w)' \subseteq Live(w),
         r.pc \in {"resolve: refund", "resolve: commit"} =>
           redemption'[r.rid] = redemption[r.rid] /\ debit'[r.rid] = debit[r.rid],
         r.pc \in RedeemPCs => redemption'[r.rid].status = "absent",
         \A l \in Links : LinkKey(l) \in r.locks => \A q \in Redemptions :
           redemption'[q].link = l => redemption[q].link = l,
         \A i \in Chores : ChoreRow(i) \in r.locks => chore'[i] = chore[i],
         \A i \in Chores : LapsedRow(chore'[i], r.at) => chore'[i] = chore[i]
  PROVE  Serial(tx[t])'
<1>1. /\ Assigned(r) /\ Settling(r) /\ Closing(r)
      /\ Unstarted(r) /\ Buying(r) /\ OfferStands(r) /\ Refunding(r)
      /\ Lapsing(r) /\ InOrder(r) /\ Finishing(r)
  BY DEF SessionOK, Serial
<1>2. /\ r.at \in Nat /\ r.qty \in Nat \cup {None} /\ r.todo \subseteq Chores
      /\ r.fined \subseteq Chores /\ r.spared \subseteq Chores /\ r.link \in Links \cup {None}
  BY DEF TxState
<1>3. \A i \in r.todo \cup r.fined \cup r.spared : chore'[i] = chore[i]
  BY <1>1, <1>2 DEF Settling
<1>4. Unstarted(tx[t])'
  BY <1>1 DEF Unstarted
<1>5. Buying(tx[t])'
  BY <1>1 DEF Buying, MemberLock, RewardRow
<1>6. OfferStands(tx[t])'
  <2> DEFINE w == r.reward
             sold == r.pc \in {"redeem: insert", "redeem: commit"} /\ r.qty # None
  <2>1. r.pc \in {"redeem: read balance", "redeem: count stock", "redeem: insert", "redeem: commit"}
          => w \in Rewards /\ RewardRow(w) \in r.locks
    BY <1>1 DEF OfferStands, Assigned, RedeemPCs
  <2>2. ASSUME sold PROVE Cardinality(Live(w)') < r.qty
    <3>1. IsFiniteSet(Live(w)) /\ Live(w)' \subseteq Live(w) /\ Cardinality(Live(w)) < r.qty
      BY <2>1, <2>2, <1>1 DEF OfferStands
    <3>2. /\ Cardinality(Live(w)') <= Cardinality(Live(w)) /\ IsFiniteSet(Live(w)')
      BY <3>1, FS_Subset
    <3>3. Cardinality(Live(w)') \in Nat /\ Cardinality(Live(w)) \in Nat
      BY <3>1, <3>2, FS_CardinalityType
    <3>4. r.qty \in Nat
      BY <1>2, <2>2
    <3> HIDE DEF w
    <3> QED BY ONLY <3>1, <3>2, <3>3, <3>4
  <2>3. r.pc = "redeem: commit" /\ r.link # None =>
          \A q \in Redemptions : redemption'[q].link # r.link
    BY <1>1, <1>2 DEF OfferStands
  <2>4. Live(tx[t].reward)' = Live(w)'
    OBVIOUS
  <2>5. sold => Cardinality(Live(tx[t].reward))' < r.qty
    BY <2>2
  <2> HIDE DEF w
  <2> QED BY <1>1, <2>1, <2>3, <2>5 DEF OfferStands, RewardRow, LinkKey, w
<1>7. Refunding(tx[t])'
  BY <1>1 DEF Refunding, RedemptionRow
<1>8. Lapsing(tx[t])'
  <2>1. r.at <= now'
    <3>1. r.at <= now
      BY ONLY <1>1 DEF Lapsing
    <3>2. r.at \in Nat
      BY <1>2
    <3>3. now \in Int /\ now' \in Int /\ now <= now'
      OBVIOUS
    <3> QED BY ONLY <3>1, <3>2, <3>3
  <2>2. \A i \in r.todo \cup r.fined \cup r.spared : LapsedRow(chore'[i], r.at)
    BY ONLY <1>1, <1>3 DEF Lapsing, LapsedBy, Open, LapsedRow
  <2>3. tx'[t] = r
    OBVIOUS
  <2>4. /\ r.fined \cap r.spared = {} /\ r.todo \cap (r.fined \cup r.spared) = {}
    BY ONLY <1>1 DEF Lapsing
  <2>5. /\ tx'[t].at <= now'
        /\ \A i \in tx'[t].todo \cup tx'[t].fined \cup tx'[t].spared :
             chore'[i].status = "pending" /\ chore'[i].expires # None
             /\ chore'[i].expires <= tx'[t].at
    BY ONLY <2>1, <2>2, <2>3 DEF LapsedRow
  <2>6. /\ tx'[t].fined \cap tx'[t].spared = {}
        /\ tx'[t].todo \cap (tx'[t].fined \cup tx'[t].spared) = {}
    BY ONLY <2>3, <2>4
  <2> QED BY ONLY <2>5, <2>6 DEF Lapsing, LapsedBy, Open
<1>9. TakesFromFined(r) => TakesFromFined(tx[t])'
  <2>1. tx'[t] = r
    OBVIOUS
  <2>2. \A i \in r.fined : chore'[i] = chore[i]
    BY <1>3
  <2> QED BY ONLY <2>1, <2>2 DEF TakesFromFined
<1>10. InOrder(tx[t])'
  <2>1. r.pc \in ChargePCs => r.chore \in r.todo
    BY <1>1 DEF Assigned
  <2> QED BY <1>1, <1>3, <1>9, <2>1, ZenonT(60) DEF InOrder, ChoreRow, MemberLock
<1>11. Finishing(tx[t])'
  <2>1. r.pc \in {"close: update", "close: commit"} =>
          r.chore \in Chores /\ r.fined \subseteq {r.chore} /\ Points[r.chore] \in Nat
    BY <1>1, PointsAssumption DEF Assigned, ClosePCs, Finishing, PointsAssumption
  <2>2. r.pc = "close: update" => ClosesFor(tx[t], 0)'
    BY <1>1, <1>3, <2>1, ClosesForFramed, ZenonT(60) DEF Finishing
  <2>3. r.pc = "close: commit" =>
          ClosesFor(tx[t], IF r.outcome = "done" THEN Points[r.chore] ELSE 0)'
    BY <1>1, <1>3, <2>1, ClosesForFramed, ZenonT(60) DEF Finishing
  <2>4. r.pc \in {"close: update", "close: commit"} =>
          (LapsedRow(chore'[r.chore], r.at) => LapsedBy(r.chore, r.at))
    BY <2>1 DEF LapsedRow, LapsedBy, Open
  <2>5. r.pc = "close: commit" => chore'[r.chore] = chore[r.chore]
    BY <1>1, <2>1 DEF Closing
  <2> QED BY <1>1, <1>9, <2>2, <2>3, <2>4, <2>5 DEF Finishing, Open, LapsedBy, LapsedRow
<1> QED BY <1>4, <1>5, <1>6, <1>7, <1>8, <1>10, <1>11 DEF Serial

-----------------------------------------------------------------------------
(* Steps of one session that leave the tables alone. *)

LEMMA SerialFacts ==
  ASSUME IInv, SerialOK, NEW s \in Sessions
  PROVE  tx[s] \in TxState /\ SessionOK(tx[s]) /\ Serial(tx[s])
BY SessionFacts DEF SerialOK

LEMMA SerialStable ==
  ASSUME NEW r, Serial(r), NEW t \in Sessions, tx'[t] = r, UNCHANGED <<now, tables>>
  PROVE  Serial(tx[t])'
<1>1. UNCHANGED <<now, bal, reward, redemption, debit, chore>>
  BY DEF tables
<1>2. \A w : Live(w)' = Live(w)
  BY <1>1 DEF Live
<1>3. \A i, at : LapsedBy(i, at)' <=> LapsedBy(i, at)
  BY <1>1 DEF LapsedBy, Open
<1>4. Unstarted(tx[t])' /\ Buying(tx[t])'
  BY <1>1 DEF Serial, Unstarted, Buying, MemberLock, RewardRow
<1>5. OfferStands(tx[t])'
  BY <1>1, <1>2 DEF Serial, OfferStands, RewardRow, LinkKey
<1>6. Refunding(tx[t])' /\ Lapsing(tx[t])'
  BY <1>1, <1>3 DEF Serial, Refunding, Lapsing, RedemptionRow
<1>7. InOrder(tx[t])'
  BY <1>1 DEF Serial, InOrder, TakesFromFined, ChoreRow, MemberLock
<1>8. Finishing(tx[t])'
  <2>1. \A award : ClosesFor(r, award) => ClosesFor(tx[t], award)'
    BY <1>1 DEF ClosesFor, MemberLock
  <2>2. TakesFromFined(r) => TakesFromFined(tx[t])'
    BY <1>1 DEF TakesFromFined
  <2> QED BY <1>1, <1>3, <2>1, <2>2 DEF Serial, Finishing, Open
<1> QED BY <1>4, <1>5, <1>6, <1>7, <1>8 DEF Serial

\* A session may move to any record in order, on a redemption's row of its own.
LEMMA OwnStep ==
  ASSUME IInv, SerialOK, NEW s \in Sessions, NEW r, Serial(r),
         tx' = [tx EXCEPT ![s] = r],
         r.pc \in RedeemPCs => \A t \in Sessions \ {s} :
           tx[t].pc \in RedeemPCs => tx[t].rid # r.rid,
         UNCHANGED <<now, tables>>
  PROVE  SerialOK'
<1>1. \A t \in Sessions : tx'[t] = IF t = s THEN r ELSE tx[t]
  BY DEF IInv, TypeOK
<1>2. DistinctRows'
  BY <1>1 DEF SerialOK, DistinctRows
<1>3. Records'
  <2>1. UNCHANGED <<redemption, chore, awarded>>
    BY DEF tables
  <2> QED BY <2>1 DEF SerialOK, Records, Live
<1>4. \A t \in Sessions : Serial(tx[t])'
  BY <1>1, SerialStable DEF SerialOK
<1> QED BY <1>2, <1>3, <1>4 DEF SerialOK

LEMMA NowTyped == ASSUME IInv PROVE now \in Nat
BY DEF IInv, TypeOK, TablesOK

LEMMA FreshSerial ==
  ASSUME NEW r, r.pc \in FirstPCs, r.locks = {}, r.todo = {}, r.fined = {}, r.spared = {},
         \A m \in Members : r.delta[m] = 0, r.at <= now,
         r.pc = "redeem: lock member" => /\ redemption[r.rid].status = "absent"
                                         /\ r.link # None => LinkReward[r.link] = r.reward
  PROVE  Serial(r)
<1>1. Unstarted(r) /\ Lapsing(r)
  BY DEF Unstarted, Lapsing
<1>2. Buying(r)
  BY DEF Buying, RedeemPCs, FirstPCs
<1>3. OfferStands(r) /\ Refunding(r) /\ InOrder(r) /\ Finishing(r)
  BY DEF FirstPCs, OfferStands, Refunding, InOrder, Finishing, ChargePCs
<1> QED BY <1>1, <1>2, <1>3 DEF Serial

LEMMA RollbackSerial ==
  ASSUME IInv, SerialOK, NEW s \in Sessions, tx' = [tx EXCEPT ![s] = IdleTx],
         UNCHANGED <<now, tables>>
  PROVE  SerialOK'
<1>1. /\ IdleTx.pc = "idle" /\ IdleTx.locks = {} /\ IdleTx.todo = {} /\ IdleTx.fined = {}
      /\ IdleTx.spared = {} /\ \A m \in Members : IdleTx.delta[m] = 0
      /\ IdleTx.at = 0
  BY DEF IdleTx
<1>2. Serial(IdleTx)
  <2>1. IdleTx.at <= now
    BY <1>1, NowTyped
  <2>2. IdleTx.pc \in FirstPCs /\ IdleTx.pc # "redeem: lock member"
    BY <1>1 DEF FirstPCs
  <2> QED BY <1>1, <2>1, <2>2, FreshSerial
<1>3. IdleTx.pc \notin RedeemPCs
  BY DEF IdleTx, RedeemPCs
<1> QED BY <1>2, <1>3, OwnStep

\* A step of a redemption already under way keeps its row.
LEMMA SameRow ==
  ASSUME SerialOK, NEW s \in Sessions, NEW r, r.rid = tx[s].rid,
         r.pc \in RedeemPCs => tx[s].pc \in RedeemPCs
  PROVE  r.pc \in RedeemPCs => \A t \in Sessions \ {s} :
           tx[t].pc \in RedeemPCs => tx[t].rid # r.rid
BY DEF SerialOK, DistinctRows

LEMMA RedeemBeginSerial ==
  ASSUME IInv, SerialOK, NEW s \in Sessions, RedeemBegin(s)
  PROVE  SerialOK'
<1>1. PICK m \in Members, w \in Rewards, l \in Links \cup {None}, rid \in Redemptions :
        /\ l # None => LinkReward[l] = w
        /\ redemption[rid].status = "absent" /\ \A t \in Sessions : tx[t].rid # rid
        /\ Run(s, [IdleTx EXCEPT !.pc = "redeem: lock member", !.member = m,
                                 !.reward = w, !.link = l, !.rid = rid])
        /\ UNCHANGED <<now, tables>>
  BY ZenonT(60) DEF RedeemBegin
<1> DEFINE r == [IdleTx EXCEPT !.pc = "redeem: lock member", !.member = m,
                               !.reward = w, !.link = l, !.rid = rid]
<1>2. /\ r.pc = "redeem: lock member" /\ r.locks = {} /\ r.todo = {} /\ r.fined = {}
      /\ r.spared = {} /\ r.at = 0 /\ (\A n \in Members : r.delta[n] = 0)
      /\ r.rid = rid /\ r.link = l /\ r.reward = w
  BY DEF IdleTx
<1>3. 0 <= now
  BY DEF IInv, TypeOK, TablesOK
<1>4. tx' = [tx EXCEPT ![s] = r]
  BY <1>1 DEF Run
<1> HIDE DEF r
<1>5. Serial(r)
  <2>1. r.pc \in FirstPCs /\ r.at <= now
    BY <1>2, <1>3 DEF FirstPCs
  <2>2. redemption[r.rid].status = "absent" /\ (r.link # None => LinkReward[r.link] = r.reward)
    BY <1>1, <1>2
  <2> QED BY <1>2, <2>1, <2>2, FreshSerial
<1> QED BY <1>1, <1>2, <1>4, <1>5, OwnStep

LEMMA RedeemLockMemberSerial ==
  ASSUME IInv, SerialOK, NEW s \in Sessions, RedeemLockMember(s)
  PROVE  SerialOK'
<1> DEFINE q == [tx[s] EXCEPT !.pc = "redeem: lock reward", !.locks = @ \cup Wants(s)]
<1>1. tx[s] \in TxState /\ Serial(tx[s]) /\ tx[s].pc = "redeem: lock member"
  BY SerialFacts DEF RedeemLockMember
<1>2. Wants(s) = {MemberLock(tx[s].member)} /\ tx[s].locks = {}
  BY <1>1 DEF Wants, Serial, Unstarted, FirstPCs
<1>3. /\ q.pc = "redeem: lock reward" /\ q.locks = {MemberLock(tx[s].member)}
      /\ q.at = tx[s].at /\ q.member = tx[s].member /\ q.reward = tx[s].reward
      /\ q.rid = tx[s].rid /\ q.link = tx[s].link /\ q.todo = tx[s].todo
      /\ q.fined = tx[s].fined /\ q.spared = tx[s].spared /\ q.delta = tx[s].delta
  BY <1>1, <1>2 DEF TxState
<1>4. tx' = [tx EXCEPT ![s] = q] /\ UNCHANGED <<now, tables>>
  BY <1>1 DEF RedeemLockMember, Acquire, Run, TxState
<1> HIDE DEF q
<1>5. Serial(q)
  <2>1. Buying(q)
    BY <1>1, <1>3 DEF Serial, Buying, RedeemPCs
  <2>2. Lapsing(q)
    BY <1>1, <1>3 DEF Serial, Lapsing
  <2>3. Unstarted(q) /\ OfferStands(q) /\ Refunding(q) /\ InOrder(q) /\ Finishing(q)
    BY <1>3 DEF Unstarted, FirstPCs, OfferStands, Refunding, InOrder, ChargePCs, Finishing
  <2> QED BY <2>1, <2>2, <2>3 DEF Serial
<1> QED BY <1>1, <1>3, <1>4, <1>5, OwnStep, SameRow, ZenonT(60) DEF RedeemPCs

LEMMA RedeemLockRewardSerial ==
  ASSUME IInv, SerialOK, NEW s \in Sessions, RedeemLockReward(s)
  PROVE  SerialOK'
<1> DEFINE w == reward[tx[s].reward]
           q == [tx[s] EXCEPT !.pc = "redeem: read balance", !.cost = w.cost, !.qty = w.qty,
                              !.locks = @ \cup Wants(s)]
<1>1. tx[s] \in TxState /\ Serial(tx[s]) /\ tx[s].pc = "redeem: lock reward"
  BY SerialFacts DEF RedeemLockReward
<1>2. CASE /\ w.exists /\ w.active
           /\ Acquire(s, [tx[s] EXCEPT !.pc = "redeem: read balance",
                                       !.cost = w.cost, !.qty = w.qty])
           /\ UNCHANGED <<now, tables>>
  <2>1. Wants(s) = {RewardRow(tx[s].reward)} /\ tx[s].locks = {MemberLock(tx[s].member)}
    BY <1>1 DEF Wants, Serial, Buying, RedeemPCs
  <2>2. /\ q.pc = "redeem: read balance"
        /\ q.locks = {MemberLock(tx[s].member), RewardRow(tx[s].reward)}
        /\ q.at = tx[s].at /\ q.member = tx[s].member /\ q.reward = tx[s].reward
        /\ q.rid = tx[s].rid /\ q.link = tx[s].link /\ q.todo = tx[s].todo
        /\ q.fined = tx[s].fined /\ q.spared = tx[s].spared /\ q.delta = tx[s].delta
        /\ q.cost = w.cost /\ q.qty = w.qty
    BY <1>1, <2>1 DEF TxState
  <2>3. tx' = [tx EXCEPT ![s] = q]
    BY <1>1, <1>2 DEF Acquire, Run, TxState
  <2> HIDE DEF q
  <2>4. Serial(q)
    <3>1. Buying(q)
      BY <1>1, <2>2 DEF Serial, Buying, RedeemPCs
    <3>2. Lapsing(q)
      BY <1>1, <2>2 DEF Serial, Lapsing
    <3>3. OfferStands(q)
      BY <1>2, <2>2 DEF OfferStands
    <3>4. Unstarted(q) /\ Refunding(q) /\ InOrder(q) /\ Finishing(q)
      BY <2>2 DEF Unstarted, FirstPCs, Refunding, InOrder, ChargePCs, Finishing
    <3> QED BY <3>1, <3>2, <3>3, <3>4 DEF Serial
  <2> QED BY <1>1, <1>2, <2>2, <2>3, <2>4, OwnStep, SameRow, ZenonT(60) DEF RedeemPCs
<1>3. CASE Rollback(s)
  BY <1>3, RollbackSerial DEF Rollback, Run
<1> QED BY <1>2, <1>3 DEF RedeemLockReward

LEMMA RedeemReadBalanceSerial ==
  ASSUME IInv, SerialOK, NEW s \in Sessions, RedeemReadBalance(s)
  PROVE  SerialOK'
<1> DEFINE q == [tx[s] EXCEPT !.pc = "redeem: count stock"]
<1>1. tx[s] \in TxState /\ Serial(tx[s]) /\ tx[s].pc = "redeem: read balance"
  BY SerialFacts DEF RedeemReadBalance
<1>2. CASE Run(s, q) /\ UNCHANGED <<now, tables>>
  <2>1. /\ q.pc = "redeem: count stock" /\ q.locks = tx[s].locks
        /\ q.at = tx[s].at /\ q.member = tx[s].member /\ q.reward = tx[s].reward
        /\ q.rid = tx[s].rid /\ q.link = tx[s].link /\ q.todo = tx[s].todo
        /\ q.fined = tx[s].fined /\ q.spared = tx[s].spared /\ q.delta = tx[s].delta
        /\ q.cost = tx[s].cost /\ q.qty = tx[s].qty
    BY <1>1 DEF TxState
  <2>2. tx' = [tx EXCEPT ![s] = q]
    BY <1>2 DEF Run
  <2> HIDE DEF q
  <2>3. Serial(q)
    <3>1. Buying(q)
      BY <1>1, <2>1 DEF Serial, Buying, RedeemPCs
    <3>2. Lapsing(q)
      BY <1>1, <2>1 DEF Serial, Lapsing
    <3>3. OfferStands(q)
      BY <1>1, <2>1 DEF Serial, OfferStands
    <3>4. Unstarted(q) /\ Refunding(q) /\ InOrder(q) /\ Finishing(q)
      BY <2>1 DEF Unstarted, FirstPCs, Refunding, InOrder, ChargePCs, Finishing
    <3> QED BY <3>1, <3>2, <3>3, <3>4 DEF Serial
  <2> QED BY <1>1, <1>2, <2>1, <2>2, <2>3, OwnStep, SameRow DEF RedeemPCs
<1>3. CASE Rollback(s)
  BY <1>3, RollbackSerial DEF Rollback, Run
<1> QED BY <1>2, <1>3 DEF RedeemReadBalance

LEMMA RedeemCountStockSerial ==
  ASSUME IInv, SerialOK, NEW s \in Sessions, RedeemCountStock(s)
  PROVE  SerialOK'
<1> DEFINE q == [tx[s] EXCEPT !.pc = "redeem: insert"]
           room == tx[s].qty # None => Cardinality(Live(tx[s].reward)) < tx[s].qty
<1>1. tx[s] \in TxState /\ Serial(tx[s]) /\ tx[s].pc = "redeem: count stock"
  BY SerialFacts DEF RedeemCountStock
<1>2. CASE room /\ Run(s, q) /\ UNCHANGED <<now, tables>>
  <2>1. /\ q.pc = "redeem: insert" /\ q.locks = tx[s].locks
        /\ q.at = tx[s].at /\ q.member = tx[s].member /\ q.reward = tx[s].reward
        /\ q.rid = tx[s].rid /\ q.link = tx[s].link /\ q.todo = tx[s].todo
        /\ q.fined = tx[s].fined /\ q.spared = tx[s].spared /\ q.delta = tx[s].delta
        /\ q.cost = tx[s].cost /\ q.qty = tx[s].qty
    BY <1>1 DEF TxState
  <2>2. tx' = [tx EXCEPT ![s] = q]
    BY <1>2 DEF Run
  <2> HIDE DEF q
  <2>3. Serial(q)
    <3>1. Buying(q)
      BY <1>1, <2>1 DEF Serial, Buying, RedeemPCs
    <3>2. Lapsing(q)
      BY <1>1, <2>1 DEF Serial, Lapsing
    <3>3. OfferStands(q)
      BY <1>1, <1>2, <2>1 DEF Serial, OfferStands
    <3>4. Unstarted(q) /\ Refunding(q) /\ InOrder(q) /\ Finishing(q)
      BY <2>1 DEF Unstarted, FirstPCs, Refunding, InOrder, ChargePCs, Finishing
    <3> QED BY <3>1, <3>2, <3>3, <3>4 DEF Serial
  <2> QED BY <1>1, <1>2, <2>1, <2>2, <2>3, OwnStep, SameRow DEF RedeemPCs
<1>3. CASE Rollback(s)
  BY <1>3, RollbackSerial DEF Rollback, Run
<1> QED BY <1>2, <1>3 DEF RedeemCountStock

LEMMA RedeemInsertSerial ==
  ASSUME IInv, SerialOK, NEW s \in Sessions, RedeemInsert(s)
  PROVE  SerialOK'
<1> DEFINE q == [tx[s] EXCEPT !.pc = "redeem: commit", !.delta[tx[s].member] = @ - tx[s].cost,
                              !.locks = @ \cup Wants(s)]
<1>1. /\ tx[s] \in TxState /\ SessionOK(tx[s]) /\ Serial(tx[s])
      /\ tx[s].pc = "redeem: insert"
  BY SerialFacts DEF RedeemInsert
<1>2. CASE /\ ~LinkUsed(tx[s].link)
           /\ Acquire(s, [tx[s] EXCEPT !.pc = "redeem: commit",
                                       !.delta[tx[s].member] = @ - tx[s].cost])
           /\ UNCHANGED <<now, tables>>
  <2>1. /\ tx[s].member \in Members /\ tx[s].cost \in Nat
        /\ \A m \in Members : tx[s].delta[m] = 0
        /\ tx[s].delta \in [Members -> Int]
    BY <1>1 DEF TxState, SessionOK, Assigned, Serial, Buying, RedeemPCs
  <2>2. /\ q.pc = "redeem: commit" /\ q.locks = tx[s].locks \cup Wants(s)
        /\ q.at = tx[s].at /\ q.member = tx[s].member /\ q.reward = tx[s].reward
        /\ q.rid = tx[s].rid /\ q.link = tx[s].link /\ q.todo = tx[s].todo
        /\ q.fined = tx[s].fined /\ q.spared = tx[s].spared
        /\ q.cost = tx[s].cost /\ q.qty = tx[s].qty
    BY <1>1 DEF TxState
  <2>3. \A m \in Members : q.delta[m] = IF m = q.member THEN - q.cost ELSE 0
    <3>1. q.delta = [tx[s].delta EXCEPT ![tx[s].member] = @ - tx[s].cost]
      BY <1>1 DEF TxState
    <3> HIDE DEF q
    <3>2. \A m \in Members : q.delta[m] = IF m = tx[s].member THEN 0 - tx[s].cost ELSE 0
      BY <2>1, <3>1
    <3>3. 0 - tx[s].cost = - tx[s].cost
      BY <2>1
    <3> QED BY <2>2, <3>2, <3>3
  <2>4. tx[s].link # None => LinkKey(tx[s].link) \in Wants(s)
    BY <1>1 DEF Wants
  <2>5. tx' = [tx EXCEPT ![s] = q]
    BY <1>1, <1>2 DEF Acquire, Run, TxState
  <2> HIDE DEF q
  <2>6. Serial(q)
    <3>1. Buying(q)
      BY <1>1, <2>2, <2>3 DEF Serial, Buying, RedeemPCs
    <3>2. Lapsing(q)
      BY <1>1, <2>2 DEF Serial, Lapsing
    <3>3. OfferStands(q)
      BY <1>1, <1>2, <2>2, <2>4, ZenonT(60) DEF Serial, OfferStands, LinkUsed
    <3>4. Unstarted(q) /\ Refunding(q) /\ InOrder(q) /\ Finishing(q)
      BY <2>2 DEF Unstarted, FirstPCs, Refunding, InOrder, ChargePCs, Finishing
    <3> QED BY <3>1, <3>2, <3>3, <3>4 DEF Serial
  <2> QED BY <1>1, <1>2, <2>2, <2>5, <2>6, OwnStep, SameRow, ZenonT(60) DEF RedeemPCs
<1>3. CASE Rollback(s)
  BY <1>3, RollbackSerial DEF Rollback, Run
<1> QED BY <1>2, <1>3 DEF RedeemInsert

LEMMA ResolveBeginSerial ==
  ASSUME IInv, SerialOK, NEW s \in Sessions, ResolveBegin(s)
  PROVE  SerialOK'
<1>1. PICK rid \in Redemptions, o \in {"denied", "cancelled"} :
        /\ Run(s, [IdleTx EXCEPT !.pc = "resolve: update", !.rid = rid, !.outcome = o])
        /\ UNCHANGED <<now, tables>>
  BY ZenonT(60) DEF ResolveBegin
<1> DEFINE r == [IdleTx EXCEPT !.pc = "resolve: update", !.rid = rid, !.outcome = o]
<1>2. /\ r.pc = "resolve: update" /\ r.locks = {} /\ r.todo = {} /\ r.fined = {}
      /\ r.spared = {} /\ r.at = 0 /\ (\A n \in Members : r.delta[n] = 0)
  BY DEF IdleTx
<1>3. tx' = [tx EXCEPT ![s] = r]
  BY <1>1 DEF Run
<1> HIDE DEF r
<1>4. r.pc \in FirstPCs /\ r.pc # "redeem: lock member" /\ r.pc \notin RedeemPCs
  BY <1>2 DEF FirstPCs, RedeemPCs
<1>at. r.at <= now
  <2>1. r.at \in {0, now} /\ now \in Nat
    BY <1>2, NowTyped
  <2> QED BY ONLY <2>1
<1>5. Serial(r)
  BY <1>2, <1>4, <1>at, FreshSerial
<1> QED BY <1>1, <1>3, <1>4, <1>5, OwnStep

LEMMA ResolveUpdateSerial ==
  ASSUME IInv, SerialOK, NEW s \in Sessions, ResolveUpdate(s)
  PROVE  SerialOK'
<1> DEFINE q == [tx[s] EXCEPT !.pc = "resolve: refund",
                              !.member = redemption[tx[s].rid].member,
                              !.locks = @ \cup Wants(s)]
<1>1. tx[s] \in TxState /\ Serial(tx[s]) /\ tx[s].pc = "resolve: update"
  BY SerialFacts DEF ResolveUpdate
<1>2. CASE /\ redemption[tx[s].rid].status = "pending"
           /\ Acquire(s, [tx[s] EXCEPT !.pc = "resolve: refund",
                                       !.member = redemption[tx[s].rid].member])
           /\ UNCHANGED <<now, tables>>
  <2>1. Wants(s) = {RedemptionRow(tx[s].rid)} /\ tx[s].locks = {}
    BY <1>1, <1>2 DEF Wants, Serial, Unstarted, FirstPCs
  <2>2. /\ q.pc = "resolve: refund" /\ q.locks = {RedemptionRow(tx[s].rid)}
        /\ q.at = tx[s].at /\ q.member = redemption[tx[s].rid].member
        /\ q.rid = tx[s].rid /\ q.todo = tx[s].todo
        /\ q.fined = tx[s].fined /\ q.spared = tx[s].spared /\ q.delta = tx[s].delta
    BY <1>1, <2>1 DEF TxState
  <2>3. tx' = [tx EXCEPT ![s] = q]
    BY <1>1, <1>2 DEF Acquire, Run, TxState
  <2> HIDE DEF q
  <2>4. Serial(q)
    <3>1. Refunding(q)
      BY <1>1, <1>2, <2>2 DEF Serial, Unstarted, FirstPCs, Refunding
    <3>2. Lapsing(q)
      BY <1>1, <2>2 DEF Serial, Lapsing
    <3>3. Unstarted(q) /\ Buying(q) /\ OfferStands(q) /\ InOrder(q) /\ Finishing(q)
      BY <2>2 DEF Unstarted, FirstPCs, Buying, RedeemPCs, OfferStands, InOrder, ChargePCs,
         Finishing
    <3> QED BY <3>1, <3>2, <3>3 DEF Serial
  <2>5. q.pc \notin RedeemPCs
    BY <2>2 DEF RedeemPCs
  <2> QED BY <1>2, <2>3, <2>4, <2>5, OwnStep
<1>3. CASE Rollback(s)
  BY <1>3, RollbackSerial DEF Rollback, Run
<1> QED BY <1>2, <1>3 DEF ResolveUpdate

LEMMA ResolveRefundSerial ==
  ASSUME IInv, SerialOK, NEW s \in Sessions, ResolveRefund(s)
  PROVE  SerialOK'
<1> DEFINE q == [tx[s] EXCEPT !.pc = "resolve: commit",
                              !.delta[tx[s].member] = @ + RefundAmount(s)]
<1>1. /\ tx[s] \in TxState /\ SessionOK(tx[s]) /\ Serial(tx[s])
      /\ tx[s].pc = "resolve: refund"
  BY SerialFacts DEF ResolveRefund
<1>2. /\ tx[s].member \in Members /\ tx[s].rid \in Redemptions
      /\ \A m \in Members : tx[s].delta[m] = 0
      /\ tx[s].delta \in [Members -> Int]
  BY <1>1 DEF TxState, SessionOK, Assigned, ResolvePCs, Serial, Refunding
<1>3. RefundAmount(s) = debit[tx[s].rid] /\ debit[tx[s].rid] \in Nat
  BY <1>2 DEF RefundAmount, IInv, TypeOK, TablesOK
<1>4. /\ q.pc = "resolve: commit" /\ q.locks = tx[s].locks
      /\ q.at = tx[s].at /\ q.member = tx[s].member
      /\ q.rid = tx[s].rid /\ q.todo = tx[s].todo
      /\ q.fined = tx[s].fined /\ q.spared = tx[s].spared
      /\ q.delta = [tx[s].delta EXCEPT ![tx[s].member] = @ + RefundAmount(s)]
  BY <1>1 DEF TxState
<1>5. tx' = [tx EXCEPT ![s] = q] /\ UNCHANGED <<now, tables>>
  BY DEF ResolveRefund, Run
<1> HIDE DEF q
<1>6. \A m \in Members : q.delta[m] = IF m = q.member THEN debit[q.rid] ELSE 0
  <2>1. \A m \in Members :
          q.delta[m] = IF m = tx[s].member THEN 0 + debit[tx[s].rid] ELSE 0
    BY <1>2, <1>3, <1>4
  <2>2. 0 + debit[tx[s].rid] = debit[tx[s].rid]
    BY <1>3
  <2> QED BY <1>4, <2>1, <2>2
<1>7. Serial(q)
  <2>1. Refunding(q)
    BY <1>1, <1>4, <1>6 DEF Serial, Refunding
  <2>2. Lapsing(q)
    BY <1>1, <1>4 DEF Serial, Lapsing
  <2>3. Unstarted(q) /\ Buying(q) /\ OfferStands(q) /\ InOrder(q) /\ Finishing(q)
    BY <1>4 DEF Unstarted, FirstPCs, Buying, RedeemPCs, OfferStands, InOrder, ChargePCs,
       Finishing
  <2> QED BY <2>1, <2>2, <2>3 DEF Serial
<1>8. q.pc \notin RedeemPCs
  BY <1>4 DEF RedeemPCs
<1> QED BY <1>5, <1>7, <1>8, OwnStep

LEMMA CloseBeginSerial ==
  ASSUME IInv, SerialOK, NEW s \in Sessions, CloseBegin(s)
  PROVE  SerialOK'
<1>1. PICK i \in Chores, m \in Members, o \in {"done", "skipped"}, g \in BOOLEAN :
        /\ Run(s, [IdleTx EXCEPT !.pc = "close: check lapse", !.at = now, !.chore = i,
                                 !.member = m, !.outcome = o, !.asAssignee = g])
        /\ UNCHANGED <<now, tables>>
  BY DEF CloseBegin
<1> DEFINE r == [IdleTx EXCEPT !.pc = "close: check lapse", !.at = now, !.chore = i,
                               !.member = m, !.outcome = o, !.asAssignee = g]
<1>2. /\ r.pc = "close: check lapse" /\ r.locks = {} /\ r.todo = {} /\ r.fined = {}
      /\ r.spared = {} /\ r.at = now /\ (\A n \in Members : r.delta[n] = 0)
  BY DEF IdleTx
<1>3. tx' = [tx EXCEPT ![s] = r]
  BY <1>1 DEF Run
<1> HIDE DEF r
<1>4. r.pc \in FirstPCs /\ r.pc # "redeem: lock member" /\ r.pc \notin RedeemPCs
  BY <1>2 DEF FirstPCs, RedeemPCs
<1>at. r.at <= now
  <2>1. r.at \in {0, now} /\ now \in Nat
    BY <1>2, NowTyped
  <2> QED BY ONLY <2>1
<1>5. Serial(r)
  BY <1>2, <1>4, <1>at, FreshSerial
<1> QED BY <1>1, <1>3, <1>4, <1>5, OwnStep

LEMMA SweepBeginSerial ==
  ASSUME IInv, SerialOK, NEW s \in Sessions, SweepBegin(s)
  PROVE  SerialOK'
<1> DEFINE r == [IdleTx EXCEPT !.pc = "sweep: revert", !.at = now]
<1>1. /\ r.pc = "sweep: revert" /\ r.locks = {} /\ r.todo = {} /\ r.fined = {}
      /\ r.spared = {} /\ r.at = now /\ (\A n \in Members : r.delta[n] = 0)
  BY DEF IdleTx
<1>2. tx' = [tx EXCEPT ![s] = r] /\ UNCHANGED <<now, tables>>
  BY DEF SweepBegin, Run
<1> HIDE DEF r
<1>3. r.pc \in FirstPCs /\ r.pc # "redeem: lock member" /\ r.pc \notin RedeemPCs
  BY <1>1 DEF FirstPCs, RedeemPCs
<1>at. r.at <= now
  <2>1. r.at = now /\ now \in Nat
    BY <1>1, NowTyped
  <2> QED BY ONLY <2>1
<1>4. Serial(r)
  BY <1>1, <1>3, <1>at, FreshSerial
<1> QED BY <1>2, <1>3, <1>4, OwnStep

LEMMA PenaltyTyped ==
  ASSUME NEW i \in Chores
  PROVE  Points[i] \in Nat /\ ClaimExpiryPenalty(Points[i]) \in Nat
<1>1. Points[i] \in Nat
  BY PointsAssumption DEF PointsAssumption
<1> QED BY <1>1 DEF ClaimExpiryPenalty

\* With no fine inserted, a closing transaction's rows are its award.
LEMMA ClosesUnfined ==
  ASSUME NEW r, NEW award \in Int, r.chore \in Chores,
         \A m \in Members : r.delta[m] = IF m = r.member THEN award ELSE 0
  PROVE  ClosesFor(r, award)
<1>1. 0 \in 0 .. ClaimExpiryPenalty(Points[r.chore])
  BY PenaltyTyped
<1>2. \A m \in Members : r.delta[m] = (IF m = r.member THEN award ELSE 0)
                                      - (IF 0 > 0 /\ m = chore[r.chore].claimant THEN 0 ELSE 0)
  OBVIOUS
<1>3. \E f \in 0 .. ClaimExpiryPenalty(Points[r.chore]) :
        /\ r.fined = {} => f = 0
        /\ f > 0 => /\ chore[r.chore].claimant \in Members
                    /\ MemberLock(chore[r.chore].claimant) \in r.locks
                    /\ f <= bal[chore[r.chore].claimant]
        /\ \A m \in Members :
             r.delta[m] = (IF m = r.member THEN award ELSE 0)
                          - (IF f > 0 /\ m = chore[r.chore].claimant THEN f ELSE 0)
  <2> WITNESS 0 \in 0 .. ClaimExpiryPenalty(Points[r.chore])
  <2> QED BY <1>2
<1> QED BY <1>3 DEF ClosesFor

\* Points outside the redeeming and refunding paths, past a transaction's start.
LaterPCs == {"close: update", "close: commit", "sweep: commit",
             "charge: lock", "charge: read", "charge: insert"}

LEMMA LaterSerial ==
  ASSUME NEW r, r.pc \in LaterPCs
  PROVE  Unstarted(r) /\ Buying(r) /\ OfferStands(r) /\ Refunding(r) /\ r.pc \notin RedeemPCs
BY DEF LaterPCs, Unstarted, FirstPCs, Buying, RedeemPCs, OfferStands, Refunding

LEMMA CloseCheckLapseSerial ==
  ASSUME IInv, SerialOK, NEW s \in Sessions, CloseCheckLapse(s)
  PROVE  SerialOK'
<1> DEFINE i == tx[s].chore
           q == [tx[s] EXCEPT !.pc = "charge: lock", !.todo = {i},
                              !.debtor = chore[i].claimant, !.locks = @ \cup Wants(s)]
           u == [tx[s] EXCEPT !.pc = "close: update"]
<1>1. /\ tx[s] \in TxState /\ SessionOK(tx[s]) /\ Serial(tx[s])
      /\ tx[s].pc = "close: check lapse" /\ UNCHANGED <<now, tables>>
  BY SerialFacts DEF CloseCheckLapse
<1>2. /\ i \in Chores /\ tx[s].outcome \in {"done", "skipped"}
      /\ tx[s].locks = {} /\ tx[s].fined = {} /\ tx[s].spared = {} /\ tx[s].todo = {}
      /\ \A m \in Members : tx[s].delta[m] = 0
  BY <1>1 DEF SessionOK, Assigned, ClosePCs, Serial, Unstarted, FirstPCs
<1>3. tx[s].at <= now
  BY <1>1 DEF Serial, Lapsing
<1>4. CASE /\ Lapsed(s)
           /\ Acquire(s, [tx[s] EXCEPT !.pc = "charge: lock", !.todo = {i},
                                       !.debtor = chore[i].claimant])
  <2>1. Wants(s) = {ChoreRow(i)}
    BY <1>1, <1>4 DEF Wants
  <2>2. /\ q.pc = "charge: lock" /\ q.locks = {ChoreRow(i)} /\ q.at = tx[s].at
        /\ q.chore = i /\ q.todo = {i} /\ q.fined = {} /\ q.spared = {}
        /\ q.debtor = chore[i].claimant /\ q.outcome = tx[s].outcome
        /\ q.delta = tx[s].delta
    BY <1>1, <1>2, <2>1 DEF TxState
  <2>3. tx' = [tx EXCEPT ![s] = q]
    BY <1>1, <1>4 DEF Acquire, Run, TxState
  <2>4. LapsedBy(i, tx[s].at) /\ chore[i].claimant \in Nat
    BY <1>2, <1>4, SetsAssumption DEF Lapsed, LapsedBy, IInv, RowsOK, SetsAssumption
  <2> HIDE DEF q, i
  <2>5. Lapsing(q)
    BY <1>3, <2>2, <2>4 DEF Lapsing
  <2>6. InOrder(q)
    <3>1. q.debtor = chore[q.chore].claimant /\ \A j \in q.todo : q.debtor <= chore[j].claimant
      <4>1. chore[i].claimant <= chore[i].claimant
        BY ONLY <2>4
      <4> QED BY <2>2, <4>1
    <3>2. \A x \in q.locks : \E j \in Chores : x = ChoreRow(j)
      BY <1>2, <2>2
    <3>3. q.outcome # "reverted" /\ \A m \in Members : q.delta[m] = 0
      BY <1>2, <2>2
    <3> QED BY <2>2, <3>1, <3>2, <3>3 DEF InOrder
  <2>7. Finishing(q)
    BY <2>2 DEF Finishing
  <2>pc. q.pc \in LaterPCs
    BY <2>2 DEF LaterPCs
  <2>8. Serial(q) /\ q.pc \notin RedeemPCs
    BY <2>pc, <2>5, <2>6, <2>7, LaterSerial DEF Serial
  <2> QED BY <1>1, <2>3, <2>8, OwnStep
<1>5. CASE ~Lapsed(s) /\ Run(s, u)
  <2>1. /\ u.pc = "close: update" /\ u.locks = {} /\ u.at = tx[s].at
        /\ u.chore = i /\ u.todo = {} /\ u.fined = {} /\ u.spared = {}
        /\ u.member = tx[s].member /\ u.delta = tx[s].delta
    BY <1>1, <1>2 DEF TxState
  <2>2. tx' = [tx EXCEPT ![s] = u]
    BY <1>5 DEF Run
  <2>3. ~LapsedBy(i, tx[s].at)
    BY <1>5 DEF Lapsed
  <2> HIDE DEF u, i
  <2>4. ClosesFor(u, 0)
    <3>1. \A m \in Members : u.delta[m] = IF m = u.member THEN 0 ELSE 0
      BY <1>2, <2>1
    <3>2. u.chore \in Chores
      <4>1. i \in Chores /\ u.chore = i
        BY <1>2, <2>1 DEF i
      <4> QED BY ONLY <4>1
    <3> QED BY <3>1, <3>2, ClosesUnfined
  <2>5. Lapsing(u)
    BY <1>3, <2>1 DEF Lapsing
  <2>6. Finishing(u)
    BY <2>1, <2>3, <2>4 DEF Finishing
  <2>7. InOrder(u)
    BY <2>1 DEF InOrder, ChargePCs
  <2>pc. u.pc \in LaterPCs
    BY <2>1 DEF LaterPCs
  <2>8. Serial(u) /\ u.pc \notin RedeemPCs
    BY <2>pc, <2>5, <2>6, <2>7, LaterSerial DEF Serial
  <2> QED BY <1>1, <2>2, <2>8, OwnStep
<1> QED BY <1>4, <1>5 DEF CloseCheckLapse

LEMMA CloseUpdateSerial ==
  ASSUME IInv, SerialOK, NEW s \in Sessions, CloseUpdate(s)
  PROVE  SerialOK'
<1> DEFINE q == [tx[s] EXCEPT !.pc = "close: commit",
                              !.delta[tx[s].member] = @ + Award(s),
                              !.locks = @ \cup Wants(s)]
           award == IF tx[s].outcome = "done" THEN Points[tx[s].chore] ELSE 0
<1>1. /\ tx[s] \in TxState /\ SessionOK(tx[s]) /\ Serial(tx[s])
      /\ tx[s].pc = "close: update"
  BY SerialFacts DEF CloseUpdate
<1>2. CASE /\ Closable(s)
           /\ Acquire(s, [tx[s] EXCEPT !.pc = "close: commit",
                                       !.delta[tx[s].member] = @ + Award(s)])
           /\ UNCHANGED <<now, tables>>
  <2>1. /\ tx[s].chore \in Chores /\ tx[s].member \in Members
        /\ tx[s].delta \in [Members -> Int]
    BY <1>1 DEF TxState, SessionOK, Assigned, ClosePCs
  <2>2. Open(tx[s].chore)
    BY <1>2 DEF Closable
  <2>3. Award(s) = award /\ award \in Nat
    <3>1. tx[s].chore \notin awarded
      BY <2>1, <2>2 DEF SerialOK, Records, Open
    <3> QED BY <2>1, <3>1, PenaltyTyped DEF Award
  <2>4. /\ q.pc = "close: commit" /\ tx[s].locks \subseteq q.locks /\ q.at = tx[s].at
        /\ q.chore = tx[s].chore /\ q.todo = tx[s].todo /\ q.fined = tx[s].fined
        /\ q.spared = tx[s].spared /\ q.member = tx[s].member
        /\ q.outcome = tx[s].outcome
        /\ q.delta = [tx[s].delta EXCEPT ![tx[s].member] = @ + Award(s)]
    BY <1>1 DEF TxState
  <2>5. tx' = [tx EXCEPT ![s] = q]
    BY <1>1, <1>2 DEF Acquire, Run, TxState
  <2> HIDE DEF q, award
  <2>6. ClosesFor(q, award)
    <3>1. ClosesFor(tx[s], 0)
      BY <1>1 DEF Serial, Finishing
    <3> DEFINE debtor == chore[tx[s].chore].claimant
               top == ClaimExpiryPenalty(Points[tx[s].chore])
    <3>2. PICK f \in 0 .. top :
            /\ tx[s].fined = {} => f = 0
            /\ f > 0 => /\ debtor \in Members /\ MemberLock(debtor) \in tx[s].locks
                        /\ f <= bal[debtor]
            /\ \A m \in Members :
                 tx[s].delta[m] = (IF m = tx[s].member THEN 0 ELSE 0)
                                  - (IF f > 0 /\ m = debtor THEN f ELSE 0)
      BY <3>1 DEF ClosesFor
    <3>3. f \in Nat
      BY <2>1, PenaltyTyped
    <3> HIDE DEF debtor, top
    <3>4. \A m \in Members :
            q.delta[m] = (IF m = q.member THEN award ELSE 0)
                         - (IF f > 0 /\ m = debtor THEN f ELSE 0)
      <4> SUFFICES ASSUME NEW m \in Members
                   PROVE  q.delta[m] = (IF m = q.member THEN award ELSE 0)
                                       - (IF f > 0 /\ m = debtor THEN f ELSE 0)
        OBVIOUS
      <4> DEFINE due == IF f > 0 /\ m = debtor THEN f ELSE 0
      <4>1. due \in Int /\ tx[s].delta[m] = 0 - due
        BY <3>2, <3>3
      <4>2. q.delta[m] = IF m = q.member THEN tx[s].delta[m] + award ELSE tx[s].delta[m]
        BY <2>1, <2>3, <2>4
      <4> HIDE DEF due
      <4>3. /\ tx[s].delta[m] + award = award - due
            /\ tx[s].delta[m] = 0 - due
        BY <2>3, <4>1
      <4>4. q.delta[m] = (IF m = q.member THEN award ELSE 0) - due
        BY <4>2, <4>3
      <4> QED BY <4>4 DEF due
    <3>5. /\ q.fined = {} => f = 0
          /\ f > 0 => /\ debtor \in Members /\ MemberLock(debtor) \in q.locks
                      /\ f <= bal[debtor]
      BY <2>4, <3>2
    <3>6. \E g \in 0 .. top :
            /\ q.fined = {} => g = 0
            /\ g > 0 => /\ debtor \in Members /\ MemberLock(debtor) \in q.locks
                        /\ g <= bal[debtor]
            /\ \A m \in Members :
                 q.delta[m] = (IF m = q.member THEN award ELSE 0)
                              - (IF g > 0 /\ m = debtor THEN g ELSE 0)
      <4> WITNESS f \in 0 .. top
      <4> QED BY <3>4, <3>5
    <3> QED BY <2>4, <3>6, ZenonT(60) DEF ClosesFor, debtor, top
  <2>7. Lapsing(q)
    BY <1>1, <2>4 DEF Serial, Lapsing
  <2>8. Finishing(q)
    BY <1>1, <2>2, <2>4, <2>6 DEF Serial, Finishing, award
  <2>9. InOrder(q)
    BY <2>4 DEF InOrder, ChargePCs
  <2>pc. q.pc \in LaterPCs
    BY <2>4 DEF LaterPCs
  <2>10. Serial(q) /\ q.pc \notin RedeemPCs
    BY <2>pc, <2>7, <2>8, <2>9, LaterSerial DEF Serial
  <2> QED BY <1>2, <2>5, <2>10, OwnStep
<1>3. CASE Rollback(s)
  BY <1>3, RollbackSerial DEF Rollback, Run
<1> QED BY <1>2, <1>3 DEF CloseUpdate

LEMMA SweepRevertSerial ==
  ASSUME IInv, SerialOK, NEW s \in Sessions, SweepRevert(s)
  PROVE  SerialOK'
<1> DEFINE S == {i \in Chores : LapsedBy(i, tx[s].at) /\ ~Unavailable(ChoreRow(i), s)}
<1>1. tx[s] \in TxState /\ Serial(tx[s]) /\ tx[s].pc = "sweep: revert"
  BY SerialFacts DEF SweepRevert
<1>2. ASSUME NEW i \in ChargeNext(S),
             Run(s, [tx[s] EXCEPT !.pc = "charge: lock", !.chore = i, !.todo = S,
                                  !.outcome = "reverted", !.debtor = chore[i].claimant,
                                  !.locks = @ \cup {ChoreRow(j) : j \in S}]),
             UNCHANGED <<now, tables>>
      PROVE  SerialOK'
  <2> DEFINE q == [tx[s] EXCEPT !.pc = "charge: lock", !.chore = i, !.todo = S,
                                !.outcome = "reverted", !.debtor = chore[i].claimant,
                                !.locks = @ \cup {ChoreRow(j) : j \in S}]
  <2>1. /\ tx[s].locks = {} /\ tx[s].fined = {} /\ tx[s].spared = {}
        /\ \A m \in Members : tx[s].delta[m] = 0
    BY <1>1 DEF Serial, Unstarted, FirstPCs
  <2>2. /\ q.pc = "charge: lock" /\ q.locks = {ChoreRow(j) : j \in S} /\ q.at = tx[s].at
        /\ q.chore = i /\ q.todo = S /\ q.fined = {} /\ q.spared = {}
        /\ q.debtor = chore[i].claimant /\ q.outcome = "reverted" /\ q.delta = tx[s].delta
    BY <1>1, <2>1 DEF TxState
  <2>3. tx' = [tx EXCEPT ![s] = q]
    BY <1>2 DEF Run
  <2>4. \A j \in S : j \in Chores /\ LapsedBy(j, tx[s].at)
    OBVIOUS
  <2>5. i \in S /\ \A j \in S : chore[i].claimant <= chore[j].claimant
    BY <1>2 DEF ChargeNext
  <2> HIDE DEF q, S
  <2>6. Lapsing(q)
    BY <1>1, <2>2, <2>4 DEF Serial, Lapsing
  <2>7. InOrder(q)
    <3>1. TakesFromFined(q)
      <4>1. \A m \in Members : q.delta[m] = 0
        BY <2>1, <2>2
      <4> QED BY <4>1 DEF TakesFromFined
    <3>2. \A x \in q.locks : \E j \in Chores : x = ChoreRow(j)
      BY <2>2, <2>4
    <3>3. q.debtor = chore[q.chore].claimant /\ \A j \in q.todo : q.debtor <= chore[j].claimant
      BY <2>2, <2>5
    <3> QED BY <2>2, <3>1, <3>2, <3>3 DEF InOrder
  <2>8. Finishing(q)
    BY <2>2 DEF Finishing
  <2>pc. q.pc \in LaterPCs
    BY <2>2 DEF LaterPCs
  <2>9. Serial(q) /\ q.pc \notin RedeemPCs
    BY <2>pc, <2>6, <2>7, <2>8, LaterSerial DEF Serial
  <2> QED BY <1>2, <2>3, <2>9, OwnStep
<1>3. CASE Rollback(s)
  BY <1>3, RollbackSerial DEF Rollback, Run
<1> QED BY <1>2, <1>3, ZenonT(60) DEF SweepRevert

\* A claim is settled: r is the session's record after it.
LEMMA ChargeDoneSerial ==
  ASSUME IInv, SerialOK, NEW s \in Sessions, NEW r \in TxState,
         tx[s].pc \in {"charge: read", "charge: insert"},
         r.locks = tx[s].locks, r.at = tx[s].at, r.todo = tx[s].todo,
         r.outcome = tx[s].outcome, r.member = tx[s].member, r.chore = tx[s].chore,
         r.fined \cup r.spared = tx[s].fined \cup tx[s].spared \cup {tx[s].chore},
         r.fined \cap r.spared = {},
         r.outcome = "reverted" => TakesFromFined(r),
         r.outcome # "reverted" => ClosesFor(r, 0),
         ChargeDone(s, r), UNCHANGED <<now, tables>>
  PROVE  SerialOK'
<1> DEFINE left == tx[s].todo \ {tx[s].chore}
           then == IF tx[s].outcome = "reverted" THEN "sweep: commit" ELSE "close: update"
<1>1. /\ tx[s] \in TxState /\ SessionOK(tx[s]) /\ Serial(tx[s]) /\ tx[s].pc \in ChargePCs
  BY SerialFacts DEF ChargePCs
<1>2. /\ tx[s].chore \in tx[s].todo /\ tx[s].todo \subseteq Chores /\ tx[s].debtor \in Members
      /\ \A i \in tx[s].todo : chore[i].claimant \in Members
  BY <1>1 DEF SessionOK, Assigned, Settling, TxState
<1>3. /\ tx[s].at <= now
      /\ \A i \in tx[s].todo \cup r.fined \cup r.spared : LapsedBy(i, tx[s].at)
      /\ left \cap (r.fined \cup r.spared) = {}
  BY <1>1, <1>2 DEF Serial, Lapsing
<1>4. r.outcome # "reverted" => left = {} /\ r.fined \cup r.spared = {r.chore}
  BY <1>1 DEF Serial, InOrder
<1>5. /\ tx[s].debtor = chore[tx[s].chore].claimant
      /\ \A j \in tx[s].todo : tx[s].debtor <= chore[j].claimant
      /\ \A x \in r.locks : \/ \E i \in Chores : x = ChoreRow(i)
                            \/ \E m \in Members : m <= tx[s].debtor /\ x = MemberLock(m)
  BY <1>1 DEF Serial, InOrder
<1>6. left \subseteq tx[s].todo
  OBVIOUS
<1>7. CASE left = {} /\ Run(s, [r EXCEPT !.todo = left, !.pc = then])
  <2> DEFINE q == [r EXCEPT !.todo = left, !.pc = then]
  <2>1. /\ q.pc = then /\ q.todo = {} /\ q.locks = r.locks /\ q.at = tx[s].at
        /\ q.outcome = r.outcome /\ q.member = r.member /\ q.chore = r.chore
        /\ q.fined = r.fined /\ q.spared = r.spared /\ q.delta = r.delta
    BY <1>7 DEF TxState
  <2>2. tx' = [tx EXCEPT ![s] = q]
    BY <1>7 DEF Run
  <2> HIDE DEF q, left
  <2>3. Lapsing(q)
    BY <1>3, <2>1 DEF Lapsing
  <2>4. /\ q.pc \in {"close: update", "sweep: commit"}
        /\ q.pc = "sweep: commit" <=> q.outcome = "reverted"
    BY <2>1
  <2>5. TakesFromFined(r) => TakesFromFined(q)
    BY <2>1 DEF TakesFromFined
  <2>6. ClosesFor(r, 0) => ClosesFor(q, 0)
    <3>1. /\ q.chore = r.chore /\ q.fined = r.fined /\ q.locks = r.locks
          /\ q.member = r.member /\ q.delta = r.delta
      BY <2>1
    <3> QED BY ONLY <3>1 DEF ClosesFor
  <2>7. Finishing(q)
    <3>1. CASE q.outcome = "reverted"
      <4>1. TakesFromFined(q) /\ q.fined \cup q.spared # {}
        BY <2>1, <2>5, <3>1
      <4> QED BY <2>4, <3>1, <4>1 DEF Finishing
    <3>2. CASE q.outcome # "reverted"
      <4>1. ClosesFor(q, 0) /\ q.fined \cup q.spared = {q.chore} /\ q.todo = {}
        BY <1>4, <2>1, <2>6, <3>2
      <4>2. q.pc = "close: update"
        BY <2>4, <3>2
      <4> QED BY <4>1, <4>2 DEF Finishing
    <3> QED BY <3>1, <3>2
  <2>8. q.pc \in LaterPCs /\ InOrder(q)
    BY <2>4 DEF InOrder, ChargePCs, LaterPCs
  <2>9. Serial(q) /\ q.pc \notin RedeemPCs
    BY <2>3, <2>7, <2>8, LaterSerial DEF Serial
  <2> QED BY <2>2, <2>9, OwnStep
<1>8. ASSUME NEW i \in ChargeNext(left),
             Run(s, [r EXCEPT !.todo = left, !.pc = "charge: lock", !.chore = i,
                              !.debtor = chore[i].claimant])
      PROVE  SerialOK'
  <2> DEFINE q == [r EXCEPT !.todo = left, !.pc = "charge: lock", !.chore = i,
                            !.debtor = chore[i].claimant]
  <2>1. /\ q.pc = "charge: lock" /\ q.todo = left /\ q.locks = r.locks /\ q.at = tx[s].at
        /\ q.outcome = r.outcome /\ q.chore = i /\ q.debtor = chore[i].claimant
        /\ q.fined = r.fined /\ q.spared = r.spared /\ q.delta = r.delta
    BY DEF TxState
  <2>2. tx' = [tx EXCEPT ![s] = q]
    BY <1>8 DEF Run
  <2>3. i \in left /\ \A j \in left : chore[i].claimant <= chore[j].claimant
    BY DEF ChargeNext
  <2> HIDE DEF q, left
  <2>4. Lapsing(q)
    BY <1>3, <1>6, <2>1 DEF Lapsing
  <2>5. InOrder(q)
    <3>1. q.outcome = "reverted" /\ TakesFromFined(q)
      <4>1. q.outcome = "reverted" /\ TakesFromFined(r)
        BY <1>4, <2>1, <2>3
      <4> QED BY <2>1, <4>1 DEF TakesFromFined
    <3>2. ASSUME NEW m \in Members, m <= tx[s].debtor
          PROVE  m <= q.debtor
      <4>1. m \in Nat /\ tx[s].debtor \in Nat /\ q.debtor \in Nat
        BY <1>2, <1>6, <2>1, <2>3, SetsAssumption DEF SetsAssumption
      <4>2. tx[s].debtor <= q.debtor
        <5>1. i \in tx[s].todo
          BY <1>6, <2>3
        <5>2. tx[s].debtor <= chore[i].claimant /\ q.debtor = chore[i].claimant
          BY <1>5, <2>1, <5>1
        <5> QED BY ONLY <5>2
      <4> QED BY ONLY <3>2, <4>1, <4>2
    <3>3. \A x \in q.locks : \/ \E j \in Chores : x = ChoreRow(j)
                             \/ \E m \in Members : m <= q.debtor /\ x = MemberLock(m)
      BY <1>5, <2>1, <3>2, ZenonT(60)
    <3>4. q.debtor = chore[q.chore].claimant /\ \A j \in q.todo : q.debtor <= chore[j].claimant
      BY <2>1, <2>3
    <3> QED BY <2>1, <3>1, <3>3, <3>4 DEF InOrder
  <2>6. q.pc \in LaterPCs /\ Finishing(q)
    BY <2>1 DEF Finishing, LaterPCs
  <2>7. Serial(q) /\ q.pc \notin RedeemPCs
    BY <2>4, <2>5, <2>6, LaterSerial DEF Serial
  <2> QED BY <2>2, <2>7, OwnStep
<1> QED BY <1>7, <1>8 DEF ChargeDone

LEMMA ChargeLockSerial ==
  ASSUME IInv, SerialOK, NEW s \in Sessions, ChargeLock(s)
  PROVE  SerialOK'
<1> DEFINE q == [tx[s] EXCEPT !.pc = "charge: read", !.locks = @ \cup Wants(s)]
<1>1. /\ tx[s] \in TxState /\ SessionOK(tx[s]) /\ Serial(tx[s])
      /\ tx[s].pc = "charge: lock"
  BY SerialFacts DEF ChargeLock
<1>2. Wants(s) = {MemberLock(tx[s].debtor)} /\ tx[s].debtor \in Members
  BY <1>1 DEF Wants, SessionOK, Assigned, ChargePCs
<1>3. /\ q.pc = "charge: read" /\ q.locks = tx[s].locks \cup {MemberLock(tx[s].debtor)}
      /\ q.at = tx[s].at /\ q.todo = tx[s].todo /\ q.outcome = tx[s].outcome
      /\ q.chore = tx[s].chore /\ q.debtor = tx[s].debtor
      /\ q.fined = tx[s].fined /\ q.spared = tx[s].spared /\ q.delta = tx[s].delta
  BY <1>1, <1>2 DEF TxState
<1>4. tx' = [tx EXCEPT ![s] = q] /\ UNCHANGED <<now, tables>>
  BY <1>1 DEF ChargeLock, Acquire, Run, TxState
<1> HIDE DEF q
<1>5. Lapsing(q)
  BY <1>1, <1>3 DEF Serial, Lapsing
<1>6. InOrder(q)
  <2>1. tx[s].pc \in ChargePCs /\ InOrder(tx[s])
    BY <1>1 DEF ChargePCs, Serial
  <2>2. tx[s].debtor <= tx[s].debtor
    <3>1. tx[s].debtor \in Nat
      BY <1>2, SetsAssumption DEF SetsAssumption
    <3> QED BY ONLY <3>1
  <2>3. \A x \in q.locks : \/ \E j \in Chores : x = ChoreRow(j)
                           \/ \E m \in Members : m <= q.debtor /\ x = MemberLock(m)
    BY <1>2, <1>3, <2>1, <2>2 DEF InOrder
  <2>4. TakesFromFined(tx[s]) => TakesFromFined(q)
    BY <1>3 DEF TakesFromFined
  <2> QED BY <1>3, <2>1, <2>3, <2>4 DEF InOrder
<1>7. q.pc \in LaterPCs /\ Finishing(q)
  BY <1>3 DEF Finishing, LaterPCs
<1>8. Serial(q) /\ q.pc \notin RedeemPCs
  BY <1>5, <1>6, <1>7, LaterSerial DEF Serial
<1> QED BY <1>4, <1>8, OwnStep

LEMMA ChargeReadSerial ==
  ASSUME IInv, SerialOK, NEW s \in Sessions, ChargeRead(s)
  PROVE  SerialOK'
<1> DEFINE i == tx[s].chore
           balance == Visible(s, tx[s].debtor)
           fine == Least(ClaimExpiryPenalty(Points[i]), balance)
           q == [tx[s] EXCEPT !.pc = "charge: insert", !.fine = fine]
           r == [tx[s] EXCEPT !.spared = @ \cup {i}]
<1>1. /\ tx[s] \in TxState /\ SessionOK(tx[s]) /\ Serial(tx[s])
      /\ tx[s].pc = "charge: read" /\ tx[s].pc \in ChargePCs
  BY SerialFacts DEF ChargeRead, ChargePCs
<1>2. /\ i \in Chores /\ i \in tx[s].todo /\ tx[s].debtor \in Members
      /\ tx[s].outcome # "reverted" => tx[s].member \in Members
  BY <1>1 DEF SessionOK, Assigned, TxState
<1>3. CASE balance > 0 /\ Run(s, q) /\ UNCHANGED <<now, tables>>
  <2>1. /\ q.pc = "charge: insert" /\ q.locks = tx[s].locks /\ q.fine = fine
        /\ q.at = tx[s].at /\ q.todo = tx[s].todo /\ q.outcome = tx[s].outcome
        /\ q.chore = tx[s].chore /\ q.debtor = tx[s].debtor
        /\ q.fined = tx[s].fined /\ q.spared = tx[s].spared /\ q.delta = tx[s].delta
    BY <1>1 DEF TxState
  <2>2. tx' = [tx EXCEPT ![s] = q]
    BY <1>3 DEF Run
  <2>3. fine <= ClaimExpiryPenalty(Points[i])
    <3>1. bal[tx[s].debtor] \in Int /\ tx[s].delta[tx[s].debtor] \in Int
      BY <1>1, <1>2 DEF TxState, IInv, TypeOK, TablesOK
    <3>2. ClaimExpiryPenalty(Points[i]) \in Nat /\ balance \in Int
      BY <1>2, <3>1, PenaltyTyped DEF Visible
    <3> HIDE DEF balance
    <3> QED BY <3>2 DEF Least
  <2> HIDE DEF q, fine
  <2>4. Lapsing(q)
    BY <1>1, <2>1 DEF Serial, Lapsing
  <2>5. InOrder(q)
    <3>1. TakesFromFined(tx[s]) => TakesFromFined(q)
      BY <2>1 DEF TakesFromFined
    <3>2. InOrder(tx[s])
      BY <1>1 DEF Serial
    <3>3. q.fine <= ClaimExpiryPenalty(Points[q.chore])
      BY <2>1, <2>3
    <3> HIDE DEF i, balance
    <3> QED BY <1>1, <2>1, <3>1, <3>2, <3>3 DEF InOrder
  <2>6. q.pc \in LaterPCs /\ Finishing(q)
    BY <2>1 DEF Finishing, LaterPCs
  <2>7. Serial(q) /\ q.pc \notin RedeemPCs
    BY <2>4, <2>5, <2>6, LaterSerial DEF Serial
  <2> QED BY <1>3, <2>2, <2>7, OwnStep
<1>4. CASE ChargeDone(s, r) /\ UNCHANGED <<now, tables>>
  <2>1. /\ r \in TxState /\ r.locks = tx[s].locks /\ r.at = tx[s].at
        /\ r.todo = tx[s].todo /\ r.outcome = tx[s].outcome
        /\ r.member = tx[s].member /\ r.chore = i
        /\ r.fined = tx[s].fined /\ r.spared = tx[s].spared \cup {i}
        /\ r.delta = tx[s].delta
    BY <1>1, <1>2, ZenonT(60) DEF TxState
  <2> HIDE DEF r
  <2>2. r.fined \cap r.spared = {}
    BY <1>1, <1>2, <2>1 DEF Serial, Lapsing
  <2>3. r.outcome = "reverted" => TakesFromFined(r)
    BY <1>1, <2>1 DEF Serial, InOrder, TakesFromFined
  <2>4. r.outcome # "reverted" => ClosesFor(r, 0)
    <3> SUFFICES ASSUME r.outcome # "reverted" PROVE ClosesFor(r, 0)
      OBVIOUS
    <3>1. \A m \in Members : r.delta[m] = IF m = r.member THEN 0 ELSE 0
      BY <1>1, <2>1 DEF Serial, InOrder
    <3>2. r.chore \in Chores
      BY <1>2, <2>1
    <3> QED BY <3>1, <3>2, ClosesUnfined
  <2> QED BY <1>1, <1>4, <2>1, <2>2, <2>3, <2>4, ChargeDoneSerial
<1> QED BY <1>3, <1>4 DEF ChargeRead

LEMMA ChargeInsertSerial ==
  ASSUME IInv, SerialOK, NEW s \in Sessions, ChargeInsert(s)
  PROVE  SerialOK'
<1> DEFINE i == tx[s].chore
           d == tx[s].debtor
           new == <<i, chore[i].claimedAt>> \notin charged
           c == IF new THEN tx[s].fine ELSE 0
           r == [tx[s] EXCEPT !.fined = @ \cup {i},
                              !.delta[d] = IF new THEN @ - tx[s].fine ELSE @]
<1>1. /\ tx[s] \in TxState /\ SessionOK(tx[s]) /\ Serial(tx[s])
      /\ tx[s].pc = "charge: insert" /\ tx[s].pc \in ChargePCs
  BY SerialFacts DEF ChargeInsert, ChargePCs
<1>2. /\ i \in Chores /\ i \in tx[s].todo /\ d \in Members
      /\ tx[s].outcome # "reverted" => tx[s].member \in Members
      /\ tx[s].delta \in [Members -> Int] /\ tx[s].fine \in Nat
  BY <1>1 DEF SessionOK, Assigned, TxState
<1>3. /\ MemberLock(d) \in tx[s].locks /\ d = chore[i].claimant
      /\ bal[d] + tx[s].delta[d] >= tx[s].fine
      /\ tx[s].fine <= ClaimExpiryPenalty(Points[i])
  BY <1>1 DEF SessionOK, Charging, Serial, InOrder
<1>4. c \in Nat /\ c <= tx[s].fine
  BY <1>2
<1>5. r \in TxState
  <2>1. [tx[s].delta EXCEPT ![d] = IF new THEN @ - tx[s].fine ELSE @] \in [Members -> Int]
    BY <1>2
  <2> QED BY <1>1, <1>2, <2>1, ZenonT(60) DEF TxState
<1>6. \A m \in Members : r.delta[m] = IF m = d THEN tx[s].delta[m] - c ELSE tx[s].delta[m]
  <2>1. r.delta = [tx[s].delta EXCEPT ![d] = IF new THEN @ - tx[s].fine ELSE @]
    BY <1>1 DEF TxState
  <2> HIDE DEF r, new
  <2> QED BY <1>2, <2>1
<1>7. /\ r.locks = tx[s].locks /\ r.at = tx[s].at /\ r.todo = tx[s].todo
      /\ r.outcome = tx[s].outcome /\ r.member = tx[s].member /\ r.chore = i
      /\ r.fined = tx[s].fined \cup {i} /\ r.spared = tx[s].spared
  BY <1>1 DEF TxState
<1>8. ChargeDone(s, r) /\ UNCHANGED <<now, tables>>
  BY DEF ChargeInsert
<1> HIDE DEF r, c
<1>9. r.fined \cap r.spared = {}
  BY <1>1, <1>2, <1>7 DEF Serial, Lapsing
<1>10. ASSUME r.outcome = "reverted" PROVE TakesFromFined(r)
  <2>1. TakesFromFined(tx[s])
    BY <1>1, <1>7, <1>10 DEF Serial, InOrder
  <2>2. ASSUME NEW m \in Members
        PROVE  /\ r.delta[m] <= 0
               /\ r.delta[m] < 0 => m = d \/ tx[s].delta[m] < 0
    <3>1. tx[s].delta[m] \in Int /\ tx[s].delta[m] <= 0
      BY <1>2, <2>1 DEF TakesFromFined
    <3> HIDE DEF d
    <3>2. r.delta[m] = IF m = d THEN tx[s].delta[m] - c ELSE tx[s].delta[m]
      BY <1>6
    <3> QED BY <1>4, <3>1, <3>2
  <2> QED BY <1>3, <1>7, <2>1, <2>2 DEF TakesFromFined
<1>11. ASSUME r.outcome # "reverted" PROVE ClosesFor(r, 0)
  <2>1. \A m \in Members : tx[s].delta[m] = 0
    BY <1>1, <1>7, <1>11 DEF Serial, InOrder
  <2>2. bal[d] \in Int /\ c <= bal[d] /\ c <= ClaimExpiryPenalty(Points[i])
    <3>1. bal[d] \in Int /\ tx[s].delta[d] = 0 /\ ClaimExpiryPenalty(Points[i]) \in Nat
      BY <1>2, <2>1, PenaltyTyped DEF IInv, TypeOK, TablesOK
    <3> HIDE DEF d, i
    <3> QED BY <1>2, <1>3, <1>4, <3>1
  <2>3. \A m \in Members : r.delta[m] = (IF m = r.member THEN 0 ELSE 0)
                                        - (IF c > 0 /\ m = d THEN c ELSE 0)
    <3> HIDE DEF d
    <3>1. \A m \in Members : r.delta[m] = IF m = d THEN 0 - c ELSE 0
      BY <1>6, <2>1
    <3> QED BY <1>4, <3>1
  <2> DEFINE top == ClaimExpiryPenalty(Points[r.chore])
             debtor == chore[r.chore].claimant
  <2>4. debtor = d /\ c \in 0 .. top
    BY <1>2, <1>3, <1>4, <1>7, <2>2, PenaltyTyped
  <2> HIDE DEF top, debtor, d
  <2>5. \E f \in 0 .. top :
          /\ r.fined = {} => f = 0
          /\ f > 0 => /\ debtor \in Members /\ MemberLock(debtor) \in r.locks
                      /\ f <= bal[debtor]
          /\ \A m \in Members :
               r.delta[m] = (IF m = r.member THEN 0 ELSE 0)
                            - (IF f > 0 /\ m = debtor THEN f ELSE 0)
    <3>1. r.fined # {}
      BY <1>7
    <3>2. debtor \in Members /\ MemberLock(debtor) \in r.locks /\ c <= bal[debtor]
      BY <1>2, <1>3, <1>7, <2>2, <2>4
    <3> c \in 0 .. top
      BY <2>4
    <3> WITNESS c \in 0 .. top
    <3> QED BY <2>3, <2>4, <3>1, <3>2
  <2> QED BY <2>5 DEF ClosesFor, top, debtor
<1> QED BY <1>1, <1>5, <1>7, <1>8, <1>9, <1>10, <1>11, ChargeDoneSerial

-----------------------------------------------------------------------------
(* Commits. *)

\* A commit that touches only rows nobody else relies on.
LEMMA CommitSerial ==
  ASSUME IInv, SerialOK, NEW s \in Sessions, Publish(s),
         tx' = [tx EXCEPT ![s] = IdleTx], UNCHANGED <<now, reward>>,
         \A t \in Sessions \ {s} :
           /\ \A w \in Rewards : RewardRow(w) \in tx[t].locks => Live(w)' \subseteq Live(w)
           /\ tx[t].pc \in {"resolve: refund", "resolve: commit"} =>
                /\ redemption'[tx[t].rid] = redemption[tx[t].rid]
                /\ debit'[tx[t].rid] = debit[tx[t].rid]
           /\ tx[t].pc \in RedeemPCs => redemption'[tx[t].rid].status = "absent"
           /\ \A l \in Links : LinkKey(l) \in tx[t].locks => \A q \in Redemptions :
                redemption'[q].link = l => redemption[q].link = l,
         \A i \in Chores : chore'[i] # chore[i] =>
           ChoreRow(i) \in tx[s].locks /\ chore'[i].expires = None,
         Records'
  PROVE  SerialOK'
<1>1. \A t \in Sessions : tx'[t] = IF t = s THEN IdleTx ELSE tx[t]
  BY DEF IInv, TypeOK
<1>2. DistinctRows'
  <2>1. IdleTx.pc \notin RedeemPCs
    <3>1. IdleTx.pc = "idle"
      BY DEF IdleTx
    <3> QED BY ONLY <3>1 DEF RedeemPCs
  <2>2. \A t \in Sessions : tx'[t].pc \in RedeemPCs => tx'[t] = tx[t]
    BY <1>1, <2>1
  <2>3. DistinctRows
    BY DEF SerialOK
  <2> QED BY ONLY <2>2, <2>3 DEF DistinctRows
<1>3. Serial(tx[s])'
  <2>1. /\ tx'[s].pc = "idle" /\ tx'[s].locks = {} /\ tx'[s].todo = {} /\ tx'[s].fined = {}
        /\ tx'[s].spared = {} /\ tx'[s].at = 0 /\ \A m \in Members : tx'[s].delta[m] = 0
    <3>1. tx'[s] = IdleTx
      BY <1>1
    <3> QED BY ONLY <3>1 DEF IdleTx
  <2>2. 0 <= now'
    <3>1. now' \in Nat
      BY NowTyped
    <3> QED BY ONLY <3>1
  <2>3. (Unstarted(tx[s]) /\ Buying(tx[s]))'
    BY <2>1 DEF Unstarted, Buying, RedeemPCs
  <2>4. (OfferStands(tx[s]) /\ Refunding(tx[s]) /\ InOrder(tx[s]) /\ Finishing(tx[s]))'
    BY <2>1 DEF OfferStands, Refunding, InOrder, ChargePCs, Finishing
  <2>5. Lapsing(tx[s])'
    BY <2>1, <2>2 DEF Lapsing
  <2> QED BY <2>3, <2>4, <2>5 DEF Serial
<1>4. ASSUME NEW t \in Sessions \ {s} PROVE Serial(tx[t])'
  <2>1. tx[t] \in TxState /\ SessionOK(tx[t]) /\ Serial(tx[t]) /\ tx'[t] = tx[t]
    BY <1>1, SerialFacts
  <2>2. now \in Int /\ now' \in Int /\ now <= now'
    <3>1. now \in Nat /\ now' = now
      BY NowTyped
    <3> QED BY ONLY <3>1
  <2>3. \A m \in Members : bal[m] \in Int /\ bal'[m] \in Int
    BY PublishTyped DEF IInv, TypeOK, TablesOK
  <2>4. tx[s].locks \cap tx[t].locks = {}
    BY DEF IInv, LockMutex
  <2>5. \A m \in Members : MemberLock(m) \in tx[t].locks => bal'[m] >= bal[m]
    <3> SUFFICES ASSUME NEW m \in Members, MemberLock(m) \in tx[t].locks
                 PROVE  bal'[m] >= bal[m]
      OBVIOUS
    <3>1. /\ tx[s].delta[m] \in Int
          /\ tx[s].delta[m] < 0 => MemberLock(m) \in tx[s].locks
      BY SerialFacts DEF TxState, SessionOK, Solvent
    <3>2. tx[s].delta[m] >= 0
      <4>1. ~(tx[s].delta[m] < 0)
        BY <2>4, <3>1
      <4> QED BY ONLY <3>1, <4>1
    <3>3. bal'[m] = bal[m] + tx[s].delta[m] /\ bal[m] \in Int
      BY <2>3 DEF Publish
    <3> QED BY ONLY <3>1, <3>2, <3>3
  <2>6. \A w \in Rewards : RewardRow(w) \in tx[t].locks =>
          reward'[w] = reward[w] /\ IsFiniteSet(Live(w)) /\ Live(w)' \subseteq Live(w)
    BY DEF SerialOK, Records
  <2>7. \A i \in Chores : ChoreRow(i) \in tx[t].locks => chore'[i] = chore[i]
    BY <2>4
  <2>8. \A i \in Chores : LapsedRow(chore'[i], tx[t].at) => chore'[i] = chore[i]
    BY DEF LapsedRow
  <2> DEFINE r == tx[t]
  <2>9. r \in TxState /\ SessionOK(r) /\ Serial(r) /\ tx'[t] = r
    BY <2>1
  <2>10. /\ r.pc \in {"resolve: refund", "resolve: commit"} =>
              /\ redemption'[r.rid] = redemption[r.rid]
              /\ debit'[r.rid] = debit[r.rid]
         /\ r.pc \in RedeemPCs => redemption'[r.rid].status = "absent"
         /\ \A l \in Links : LinkKey(l) \in r.locks => \A q \in Redemptions :
              redemption'[q].link = l => redemption[q].link = l
    OBVIOUS
  <2> QED BY <2>2, <2>3, <2>5, <2>6, <2>7, <2>8, <2>9, <2>10, Framed
<1> QED BY <1>2, <1>3, <1>4 DEF SerialOK

\* What a redemption about to commit relies on.
LEMMA RedeemCommitFacts ==
  ASSUME IInv, SerialOK, NEW s \in Sessions, tx[s].pc = "redeem: commit"
  PROVE  /\ tx[s].member \in Members /\ tx[s].reward \in Rewards /\ tx[s].rid \in Redemptions
         /\ tx[s].link \in Links \cup {None} /\ tx[s].cost \in Nat
         /\ redemption[tx[s].rid].status = "absent"
         /\ RewardRow(tx[s].reward) \in tx[s].locks
         /\ tx[s].link # None => /\ LinkReward[tx[s].link] = tx[s].reward
                                 /\ LinkKey(tx[s].link) \in tx[s].locks
                                 /\ \A q \in Redemptions : redemption[q].link # tx[s].link
         /\ reward[tx[s].reward].exists /\ reward[tx[s].reward].active
         /\ tx[s].cost = reward[tx[s].reward].cost
         /\ reward[tx[s].reward].qty # None =>
              Cardinality(Live(tx[s].reward)) < reward[tx[s].reward].qty
         /\ \A m \in Members : tx[s].delta[m] = IF m = tx[s].member THEN - tx[s].cost ELSE 0
<1>1. /\ tx[s] \in TxState /\ Assigned(tx[s]) /\ Buying(tx[s]) /\ OfferStands(tx[s])
      /\ tx[s].pc \in RedeemPCs
  BY SerialFacts DEF SessionOK, Serial, RedeemPCs
<1>2. /\ tx[s].member \in Members /\ tx[s].reward \in Rewards /\ tx[s].rid \in Redemptions
      /\ tx[s].link \in Links \cup {None} /\ tx[s].cost \in Nat
  BY <1>1 DEF Assigned, TxState
<1>3. /\ redemption[tx[s].rid].status = "absent"
      /\ tx[s].link # None => LinkReward[tx[s].link] = tx[s].reward
      /\ \A m \in Members : tx[s].delta[m] = IF m = tx[s].member THEN - tx[s].cost ELSE 0
  BY <1>1 DEF Buying
<1>4. /\ RewardRow(tx[s].reward) \in tx[s].locks
      /\ reward[tx[s].reward].exists /\ reward[tx[s].reward].active
      /\ tx[s].cost = reward[tx[s].reward].cost
      /\ reward[tx[s].reward].qty # None =>
           Cardinality(Live(tx[s].reward)) < reward[tx[s].reward].qty
      /\ tx[s].link # None => /\ LinkKey(tx[s].link) \in tx[s].locks
                              /\ \A q \in Redemptions : redemption[q].link # tx[s].link
  BY <1>1 DEF OfferStands
<1> QED BY <1>2, <1>3, <1>4

LEMMA RedeemCommitSerial ==
  ASSUME IInv, SerialOK, NEW s \in Sessions, RedeemCommit(s)
  PROVE  SerialOK'
<1> DEFINE rid == tx[s].rid
           row == [status |-> "pending", member |-> tx[s].member,
                   reward |-> tx[s].reward, link |-> tx[s].link]
<1>1. /\ Publish(s) /\ tx' = [tx EXCEPT ![s] = IdleTx] /\ tx[s].pc = "redeem: commit"
      /\ redemption' = [redemption EXCEPT ![rid] = row]
      /\ debit' = [debit EXCEPT ![rid] = tx[s].cost]
      /\ UNCHANGED <<now, reward, refund, chore, awarded, charged, pardoned>>
  BY DEF RedeemCommit, Run
<1>2. /\ rid \in Redemptions /\ redemption[rid].status = "absent"
      /\ RewardRow(tx[s].reward) \in tx[s].locks
      /\ tx[s].link \in Links => LinkKey(tx[s].link) \in tx[s].locks
  BY <1>1, RedeemCommitFacts, SetsAssumption DEF SetsAssumption
<1>3. \A q \in Redemptions : /\ redemption'[q] = IF q = rid THEN row ELSE redemption[q]
                             /\ q # rid => debit'[q] = debit[q]
  BY <1>1, <1>2 DEF IInv, TypeOK, TablesOK
<1>4. row.status = "pending" /\ row.reward = tx[s].reward /\ row.link = tx[s].link
  OBVIOUS
<1> HIDE DEF row
<1>5. \A w \in Rewards : /\ Live(w)' \subseteq Live(w) \cup {rid}
                         /\ w # tx[s].reward => Live(w)' \subseteq Live(w)
  BY <1>3, <1>4 DEF Live
<1>6. ASSUME NEW t \in Sessions \ {s}
      PROVE  /\ \A w \in Rewards : RewardRow(w) \in tx[t].locks => Live(w)' \subseteq Live(w)
             /\ tx[t].pc \in {"resolve: refund", "resolve: commit"} =>
                  /\ redemption'[tx[t].rid] = redemption[tx[t].rid]
                  /\ debit'[tx[t].rid] = debit[tx[t].rid]
             /\ tx[t].pc \in RedeemPCs => redemption'[tx[t].rid].status = "absent"
             /\ \A l \in Links : LinkKey(l) \in tx[t].locks => \A q \in Redemptions :
                  redemption'[q].link = l => redemption[q].link = l
  <2>1. tx[s].locks \cap tx[t].locks = {}
    BY DEF IInv, LockMutex
  <2>2. Assigned(tx[t]) /\ Buying(tx[t]) /\ Refunding(tx[t])
    BY SerialFacts DEF SessionOK, Serial
  <2>3. \A w \in Rewards : RewardRow(w) \in tx[t].locks => Live(w)' \subseteq Live(w)
    BY <1>2, <1>5, <2>1
  <2>4. ASSUME tx[t].pc \in {"resolve: refund", "resolve: commit"}
        PROVE  /\ redemption'[tx[t].rid] = redemption[tx[t].rid]
               /\ debit'[tx[t].rid] = debit[tx[t].rid]
    <3>1. tx[t].rid \in Redemptions /\ redemption[tx[t].rid].status = "pending"
      BY <2>2, <2>4 DEF Assigned, ResolvePCs, Refunding
    <3> QED BY <1>2, <1>3, <3>1
  <2>5. ASSUME tx[t].pc \in RedeemPCs PROVE redemption'[tx[t].rid].status = "absent"
    <3>1. tx[t].rid \in Redemptions /\ redemption[tx[t].rid].status = "absent"
      BY <2>2, <2>5 DEF Assigned, Buying
    <3>2. tx[s].pc \in RedeemPCs
      BY <1>1 DEF RedeemPCs
    <3>3. tx[t].rid # rid
      BY <2>5, <3>2 DEF SerialOK, DistinctRows
    <3> QED BY <1>3, <3>1, <3>3
  <2>6. ASSUME NEW l \in Links, LinkKey(l) \in tx[t].locks, NEW q \in Redemptions,
               redemption'[q].link = l
        PROVE  redemption[q].link = l
    BY <1>2, <1>3, <1>4, <2>1, <2>6
  <2> QED BY <2>3, <2>4, <2>5, <2>6
<1>7. Records'
  <2>1. \A q \in Redemptions : redemption'[q].status = "absent" => redemption'[q].link = None
    BY <1>3, <1>4 DEF SerialOK, Records
  <2>2. ASSUME NEW w \in Rewards PROVE IsFiniteSet(Live(w)')
    <3>1. IsFiniteSet(Live(w) \cup {rid})
      BY FS_AddElement DEF SerialOK, Records
    <3> QED BY <1>5, <3>1, FS_Subset
  <2>3. \A i \in awarded' : chore'[i].status = "done"
    BY <1>1 DEF SerialOK, Records
  <2> QED BY <2>1, <2>2, <2>3 DEF Records
<1>8. \A i \in Chores : chore'[i] = chore[i]
  BY <1>1
<1> QED BY <1>1, <1>6, <1>7, <1>8, CommitSerial

\* What a refund about to commit relies on.
LEMMA ResolveCommitFacts ==
  ASSUME IInv, SerialOK, NEW s \in Sessions, tx[s].pc = "resolve: commit"
  PROVE  /\ tx[s].member \in Members /\ tx[s].rid \in Redemptions
         /\ tx[s].outcome \in {"denied", "cancelled"}
         /\ tx[s].locks = {RedemptionRow(tx[s].rid)}
         /\ redemption[tx[s].rid].status = "pending"
         /\ redemption[tx[s].rid].member = tx[s].member
         /\ \A m \in Members :
              tx[s].delta[m] = IF m = tx[s].member THEN debit[tx[s].rid] ELSE 0
<1>1. Assigned(tx[s]) /\ Refunding(tx[s]) /\ tx[s].pc \in ResolvePCs
  BY SerialFacts DEF SessionOK, Serial, ResolvePCs
<1> QED BY <1>1 DEF Assigned, Refunding

LEMMA ResolveCommitSerial ==
  ASSUME IInv, SerialOK, NEW s \in Sessions, ResolveCommit(s)
  PROVE  SerialOK'
<1> DEFINE rid == tx[s].rid
<1>1. /\ Publish(s) /\ tx' = [tx EXCEPT ![s] = IdleTx] /\ tx[s].pc = "resolve: commit"
      /\ redemption' = [redemption EXCEPT ![rid].status = tx[s].outcome]
      /\ UNCHANGED <<now, reward, debit, chore, awarded, charged, pardoned>>
  BY DEF ResolveCommit, Run
<1>2. /\ rid \in Redemptions /\ redemption[rid].status = "pending"
      /\ tx[s].outcome \in {"denied", "cancelled"}
      /\ tx[s].locks = {RedemptionRow(rid)}
  BY <1>1, ResolveCommitFacts
<1>3. \A q \in Redemptions :
        /\ q # rid => redemption'[q] = redemption[q]
        /\ redemption'[q].link = redemption[q].link
        /\ redemption'[q].reward = redemption[q].reward
        /\ redemption'[q].status = IF q = rid THEN tx[s].outcome ELSE redemption[q].status
  BY <1>1, <1>2 DEF IInv, TypeOK, TablesOK, RedemptionRecord
<1>4. \A w \in Rewards : Live(w)' \subseteq Live(w)
  BY <1>2, <1>3 DEF Live
<1>5. ASSUME NEW t \in Sessions \ {s}
      PROVE  /\ tx[t].pc \in {"resolve: refund", "resolve: commit"} =>
                  redemption'[tx[t].rid] = redemption[tx[t].rid]
             /\ tx[t].pc \in RedeemPCs => redemption'[tx[t].rid].status = "absent"
  <2>1. tx[s].locks \cap tx[t].locks = {}
    BY DEF IInv, LockMutex
  <2>2. Assigned(tx[t]) /\ Buying(tx[t]) /\ Refunding(tx[t])
    BY SerialFacts DEF SessionOK, Serial
  <2>3. ASSUME tx[t].pc \in {"resolve: refund", "resolve: commit"}
        PROVE  redemption'[tx[t].rid] = redemption[tx[t].rid]
    <3>1. tx[t].rid \in Redemptions /\ tx[t].locks = {RedemptionRow(tx[t].rid)}
      BY <2>2, <2>3 DEF Assigned, ResolvePCs, Refunding
    <3> QED BY <1>2, <1>3, <2>1, <3>1
  <2>4. ASSUME tx[t].pc \in RedeemPCs PROVE redemption'[tx[t].rid].status = "absent"
    <3>1. tx[t].rid \in Redemptions /\ redemption[tx[t].rid].status = "absent"
      BY <2>2, <2>4 DEF Assigned, Buying
    <3> QED BY <1>2, <1>3, <3>1
  <2> QED BY <2>3, <2>4
<1>6. Records'
  <2>1. \A q \in Redemptions : redemption'[q].status = "absent" => redemption'[q].link = None
    BY <1>2, <1>3 DEF SerialOK, Records
  <2>2. ASSUME NEW w \in Rewards PROVE IsFiniteSet(Live(w)')
    BY <1>4, FS_Subset DEF SerialOK, Records
  <2>3. \A i \in awarded' : chore'[i].status = "done"
    BY <1>1 DEF SerialOK, Records
  <2> QED BY <2>1, <2>2, <2>3 DEF Records
<1>7. \A i \in Chores : chore'[i] = chore[i]
  BY <1>1
<1>8. \A q \in Redemptions : debit'[q] = debit[q]
  BY <1>1
<1>9. \A t \in Sessions \ {s} :
        /\ \A w \in Rewards : RewardRow(w) \in tx[t].locks => Live(w)' \subseteq Live(w)
        /\ tx[t].pc \in {"resolve: refund", "resolve: commit"} =>
             /\ redemption'[tx[t].rid] = redemption[tx[t].rid]
             /\ debit'[tx[t].rid] = debit[tx[t].rid]
        /\ tx[t].pc \in RedeemPCs => redemption'[tx[t].rid].status = "absent"
        /\ \A l \in Links : LinkKey(l) \in tx[t].locks => \A q \in Redemptions :
             redemption'[q].link = l => redemption[q].link = l
  BY <1>1, <1>3, <1>4, <1>5
<1> QED BY <1>1, <1>6, <1>7, <1>9, CommitSerial

\* Commits that leave the redemptions and the catalogue alone.
LEMMA SettleSerial ==
  ASSUME IInv, SerialOK, NEW s \in Sessions, Publish(s), tx' = [tx EXCEPT ![s] = IdleTx],
         UNCHANGED <<now, reward, redemption, debit>>,
         \A i \in Chores : chore'[i] # chore[i] =>
           ChoreRow(i) \in tx[s].locks /\ chore'[i].expires = None,
         \A i \in awarded' : chore'[i].status = "done"
  PROVE  SerialOK'
<1>1. \A w : Live(w)' = Live(w)
  BY DEF Live
<1>2. Records'
  BY <1>1 DEF SerialOK, Records
<1>3. \A t \in Sessions : tx[t].pc \in RedeemPCs => redemption'[tx[t].rid].status = "absent"
  <2> SUFFICES ASSUME NEW t \in Sessions, tx[t].pc \in RedeemPCs
               PROVE  redemption[tx[t].rid].status = "absent"
    OBVIOUS
  <2>1. Buying(tx[t])
    BY SerialFacts DEF Serial
  <2> QED BY <2>1 DEF Buying
<1>4. \A t \in Sessions \ {s} :
        /\ \A w \in Rewards : RewardRow(w) \in tx[t].locks => Live(w)' \subseteq Live(w)
        /\ tx[t].pc \in {"resolve: refund", "resolve: commit"} =>
             /\ redemption'[tx[t].rid] = redemption[tx[t].rid]
             /\ debit'[tx[t].rid] = debit[tx[t].rid]
        /\ tx[t].pc \in RedeemPCs => redemption'[tx[t].rid].status = "absent"
        /\ \A l \in Links : LinkKey(l) \in tx[t].locks => \A q \in Redemptions :
             redemption'[q].link = l => redemption[q].link = l
  BY <1>1, <1>3
<1> QED BY <1>2, <1>4, CommitSerial

LEMMA CloseCommitSerial ==
  ASSUME IInv, SerialOK, NEW s \in Sessions, CloseCommit(s)
  PROVE  SerialOK'
<1> DEFINE i == tx[s].chore
           row == [NoChore EXCEPT !.status = tx[s].outcome]
<1>1. /\ Publish(s) /\ tx' = [tx EXCEPT ![s] = IdleTx] /\ tx[s].pc = "close: commit"
      /\ chore' = [chore EXCEPT ![i] = row]
      /\ awarded' = IF tx[s].outcome = "done" /\ Points[i] > 0
                    THEN awarded \cup {i} ELSE awarded
      /\ UNCHANGED <<now, reward, redemption, debit>>
  BY DEF CloseCommit, Run
<1>2. i \in Chores /\ ChoreRow(i) \in tx[s].locks /\ Open(i)
  BY <1>1, SerialFacts DEF SessionOK, Assigned, ClosePCs, Closing, Serial, Finishing
<1>3. row.expires = None /\ row.status = tx[s].outcome
  BY DEF NoChore
<1> HIDE DEF row
<1>4. \A j \in Chores : chore'[j] = IF j = i THEN row ELSE chore[j]
  BY <1>1, <1>2 DEF IInv, TypeOK, TablesOK
<1>5. \A j \in awarded : j \in Chores /\ chore[j].status = "done" /\ j # i
  BY <1>2 DEF SerialOK, Records, Open, IInv, TypeOK, TablesOK
<1>6. \A j \in awarded' : chore'[j].status = "done"
  <2>1. \A j \in awarded' : j \in awarded \/ (j = i /\ tx[s].outcome = "done")
    BY <1>1
  <2> HIDE DEF i
  <2> QED BY <1>2, <1>3, <1>4, <1>5, <2>1
<1>7. \A j \in Chores : chore'[j] # chore[j] =>
        ChoreRow(j) \in tx[s].locks /\ chore'[j].expires = None
  BY <1>2, <1>3, <1>4
<1> QED BY <1>1, <1>6, <1>7, SettleSerial

LEMMA SweepCommitSerial ==
  ASSUME IInv, SerialOK, NEW s \in Sessions, SweepCommit(s)
  PROVE  SerialOK'
<1> DEFINE S == tx[s].fined \cup tx[s].spared
<1>1. /\ Publish(s) /\ tx' = [tx EXCEPT ![s] = IdleTx]
      /\ chore' = [i \in Chores |-> IF i \in S THEN NoChore ELSE chore[i]]
      /\ UNCHANGED <<now, reward, redemption, debit, awarded>>
  BY DEF SweepCommit, Run
<1>2. \A i \in S : ChoreRow(i) \in tx[s].locks /\ LapsedBy(i, tx[s].at)
  BY SerialFacts DEF SessionOK, Settling, Serial, Lapsing
<1>3. NoChore.expires = None
  BY DEF NoChore
<1> HIDE DEF S
<1>4. \A i \in awarded' : chore'[i].status = "done"
  <2>1. \A i \in awarded : i \in Chores /\ chore[i].status = "done" /\ i \notin S
    BY <1>2 DEF SerialOK, Records, LapsedBy, Open, IInv, TypeOK, TablesOK
  <2> QED BY <1>1, <2>1
<1>5. \A i \in Chores : chore'[i] # chore[i] =>
        ChoreRow(i) \in tx[s].locks /\ chore'[i].expires = None
  BY <1>1, <1>2, <1>3
<1> QED BY <1>1, <1>4, <1>5, SettleSerial

-----------------------------------------------------------------------------
(* Statements outside any transaction, and the clock. *)

LEMMA TableSerial ==
  ASSUME IInv, SerialOK, UNCHANGED <<bal, debit, tx>>, now' \in Nat, now <= now',
         \A t \in Sessions, w \in Rewards : RewardRow(w) \in tx[t].locks =>
           reward'[w] = reward[w] /\ Live(w)' \subseteq Live(w),
         \A t \in Sessions :
           tx[t].pc \in {"resolve: refund", "resolve: commit"} =>
             redemption'[tx[t].rid] = redemption[tx[t].rid],
         \A q \in Redemptions : /\ redemption'[q].link = redemption[q].link
                                /\ redemption'[q].status = "absent" <=>
                                     redemption[q].status = "absent",
         \A t \in Sessions, i \in Chores : ChoreRow(i) \in tx[t].locks => chore'[i] = chore[i],
         \A t \in Sessions, i \in Chores :
           LapsedRow(chore'[i], tx[t].at) => chore'[i] = chore[i],
         Records'
  PROVE  SerialOK'
<1>1. DistinctRows'
  BY DEF SerialOK, DistinctRows
<1>2. ASSUME NEW t \in Sessions PROVE Serial(tx[t])'
  <2> DEFINE r == tx[t]
  <2>1. r \in TxState /\ SessionOK(r) /\ Serial(r) /\ tx'[t] = r
    BY SerialFacts
  <2>2. now \in Int /\ now' \in Int /\ now <= now'
    <3>1. now \in Nat /\ now' \in Nat /\ now <= now'
      BY NowTyped
    <3> QED BY ONLY <3>1
  <2>3. /\ \A m \in Members : bal[m] \in Int /\ bal'[m] \in Int
        /\ \A m \in Members : MemberLock(m) \in r.locks => bal'[m] >= bal[m]
    <3>1. \A m \in Members : bal[m] \in Int /\ bal'[m] = bal[m]
      BY DEF IInv, TypeOK, TablesOK
    <3> QED BY ONLY <3>1
  <2>4. \A w \in Rewards : RewardRow(w) \in r.locks =>
          reward'[w] = reward[w] /\ IsFiniteSet(Live(w)) /\ Live(w)' \subseteq Live(w)
    BY DEF SerialOK, Records
  <2>5. r.pc \in {"resolve: refund", "resolve: commit"} =>
          redemption'[r.rid] = redemption[r.rid] /\ debit'[r.rid] = debit[r.rid]
    OBVIOUS
  <2>6. r.pc \in RedeemPCs => redemption'[r.rid].status = "absent"
    BY <2>1 DEF Serial, Buying, SessionOK, Assigned
  <2>7. /\ \A l \in Links : LinkKey(l) \in r.locks => \A q \in Redemptions :
              redemption'[q].link = l => redemption[q].link = l
        /\ \A i \in Chores : ChoreRow(i) \in r.locks => chore'[i] = chore[i]
        /\ \A i \in Chores : LapsedRow(chore'[i], r.at) => chore'[i] = chore[i]
    OBVIOUS
  <2> HIDE DEF r
  <2>8. Serial(tx[t])'
    BY <2>1, <2>2, <2>3, <2>4, <2>5, <2>6, <2>7, Framed
  <2> QED BY <2>8
<1> QED BY <1>1, <1>2 DEF SerialOK

LEMMA TickSerial ==
  ASSUME IInv, SerialOK, Tick
  PROVE  SerialOK'
<1>1. UNCHANGED <<bal, reward, redemption, debit, chore, awarded, tx>> /\ now' = now + 1
  BY DEF Tick, tables
<1>2. now' \in Nat /\ now <= now'
  BY <1>1, NowTyped
<1>3. \A w : Live(w)' = Live(w)
  BY <1>1 DEF Live
<1>4. Records'
  BY <1>1, <1>3 DEF SerialOK, Records
<1> QED BY <1>1, <1>2, <1>3, <1>4, TableSerial

LEMMA FulfillSerial ==
  ASSUME IInv, SerialOK, NEW r \in Redemptions, Fulfill(r)
  PROVE  SerialOK'
<1>1. /\ redemption[r].status = "pending"
      /\ \A t \in Sessions : RedemptionRow(r) \notin tx[t].locks
      /\ redemption' = [redemption EXCEPT ![r].status = "fulfilled"]
      /\ UNCHANGED <<now, bal, reward, debit, refund, chore, awarded, charged, pardoned, tx>>
  BY DEF Fulfill
<1>2. \A q \in Redemptions :
        /\ q # r => redemption'[q] = redemption[q]
        /\ redemption'[q].link = redemption[q].link
        /\ redemption'[q].reward = redemption[q].reward
        /\ redemption'[q].status = IF q = r THEN "fulfilled" ELSE redemption[q].status
  BY <1>1 DEF IInv, TypeOK, TablesOK, RedemptionRecord
<1>3. \A w : Live(w)' = Live(w)
  BY <1>1, <1>2 DEF Live
<1>4. \A q \in Redemptions : redemption'[q].status = "absent" <=>
                               redemption[q].status = "absent"
  BY <1>1, <1>2
<1>5. Records'
  BY <1>1, <1>2, <1>3, <1>4 DEF SerialOK, Records
<1>6. ASSUME NEW t \in Sessions, tx[t].pc \in {"resolve: refund", "resolve: commit"}
      PROVE  redemption'[tx[t].rid] = redemption[tx[t].rid]
  <2>1. tx[t].rid \in Redemptions /\ tx[t].locks = {RedemptionRow(tx[t].rid)}
    BY <1>6, SerialFacts DEF SessionOK, Assigned, ResolvePCs, Serial, Refunding
  <2> QED BY <1>1, <1>2, <2>1
<1>7. now' \in Nat /\ now <= now'
  <2>1. now \in Nat /\ now' = now
    BY <1>1, NowTyped
  <2> QED BY ONLY <2>1
<1>8. \A q \in Redemptions : redemption'[q].link = redemption[q].link
  BY <1>2
<1> QED BY <1>1, <1>3, <1>4, <1>5, <1>6, <1>7, <1>8, TableSerial

LEMMA ClaimSerial ==
  ASSUME IInv, SerialOK, NEW i \in Chores, NEW m \in Members, Claim(i, m)
  PROVE  SerialOK'
<1> DEFINE row == [status |-> "pending", claimant |-> m,
                   claimedAt |-> now, expires |-> now + ClaimWindow]
<1>1. /\ chore' = [chore EXCEPT ![i] = row] /\ Open(i)
      /\ \A t \in Sessions : ChoreRow(i) \notin tx[t].locks
      /\ UNCHANGED <<now, bal, reward, redemption, debit, refund, awarded, charged, pardoned, tx>>
  BY DEF Claim
<1>2. row.expires = now + ClaimWindow
  OBVIOUS
<1> HIDE DEF row
<1>3. \A j \in Chores : chore'[j] = IF j = i THEN row ELSE chore[j]
  BY <1>1 DEF IInv, TypeOK, TablesOK
<1>4. ASSUME NEW t \in Sessions, NEW j \in Chores, LapsedRow(chore'[j], tx[t].at)
      PROVE  chore'[j] = chore[j]
  <2>1. tx[t].at \in Nat /\ tx[t].at <= now
    BY SerialFacts DEF TxState, Serial, Lapsing
  <2>2. now \in Nat /\ ClaimWindow \in Nat /\ ClaimWindow # 0
    BY NowTyped, TimeAssumption DEF TimeAssumption
  <2>3. ~(now + ClaimWindow <= tx[t].at)
    BY ONLY <2>1, <2>2
  <2>4. j # i
    BY <1>2, <1>3, <1>4, <2>3 DEF LapsedRow
  <2> QED BY <1>3, <2>4
<1>5. \A w : Live(w)' = Live(w)
  BY <1>1 DEF Live
<1>6. Records'
  <2>1. \A j \in awarded : j \in Chores /\ chore[j].status = "done" /\ j # i
    BY <1>1 DEF SerialOK, Records, Open, IInv, TypeOK, TablesOK
  <2>2. \A j \in awarded' : chore'[j].status = "done"
    BY <1>1, <1>3, <2>1
  <2> QED BY <1>1, <1>5, <2>2 DEF SerialOK, Records
<1>7. now' \in Nat /\ now <= now'
  <2>1. now \in Nat /\ now' = now
    BY <1>1, NowTyped
  <2> QED BY ONLY <2>1
<1>8. \A t \in Sessions, j \in Chores : ChoreRow(j) \in tx[t].locks => chore'[j] = chore[j]
  BY <1>1, <1>3
<1> QED BY <1>1, <1>4, <1>5, <1>6, <1>7, <1>8, TableSerial

LEMMA CatalogSerial ==
  ASSUME IInv, SerialOK, Catalog
  PROVE  SerialOK'
<1>1. PICK w \in Rewards :
        /\ CatalogFree(w) /\ UNCHANGED tx
        /\ \/ \E c \in Costs, q \in Quantities : CreateReward(w, c, q) \/ UpdateReward(w, c, q)
           \/ ArchiveReward(w)
           \/ DeleteReward(w)
  BY DEF Catalog
<1>2. UNCHANGED OtherTables /\ \A v \in Rewards : v # w => reward'[v] = reward[v]
  BY <1>1 DEF CreateReward, UpdateReward, ArchiveReward, DeleteReward, IInv, TypeOK, TablesOK
<1>3. UNCHANGED <<now, bal, redemption, debit, refund, chore, awarded, charged, pardoned>>
  BY <1>2 DEF OtherTables
<1>4. \A v : Live(v)' = Live(v)
  BY <1>3 DEF Live
<1>5. Records'
  BY <1>3, <1>4 DEF SerialOK, Records
<1>6. now' \in Nat /\ now <= now'
  <2>1. now \in Nat /\ now' = now
    BY <1>3, NowTyped
  <2> QED BY ONLY <2>1
<1>7. \A t \in Sessions, v \in Rewards : RewardRow(v) \in tx[t].locks =>
        reward'[v] = reward[v] /\ Live(v)' \subseteq Live(v)
  BY <1>1, <1>2, <1>4 DEF CatalogFree
<1> QED BY <1>1, <1>3, <1>5, <1>6, <1>7, TableSerial

-----------------------------------------------------------------------------
(* The invariant holds. *)

LEMMA SerialInit == Init => SerialOK
<1> SUFFICES ASSUME Init PROVE SerialOK
  OBVIOUS
<1>1. IInv
  BY InitOK
<1>2. \A s \in Sessions : tx[s] = IdleTx
  BY DEF Init
<1>3. /\ IdleTx.pc = "idle" /\ IdleTx.locks = {} /\ IdleTx.todo = {} /\ IdleTx.fined = {}
      /\ IdleTx.spared = {} /\ IdleTx.at = 0 /\ \A m \in Members : IdleTx.delta[m] = 0
  BY DEF IdleTx
<1>4. IdleTx.pc \in FirstPCs /\ IdleTx.pc # "redeem: lock member" /\ IdleTx.pc \notin RedeemPCs
  BY <1>3 DEF FirstPCs, RedeemPCs
<1>5. Serial(IdleTx)
  <2>1. IdleTx.at <= now
    <3>1. now \in Nat /\ IdleTx.at = 0
      BY <1>1, <1>3, NowTyped
    <3> QED BY ONLY <3>1
  <2> QED BY <1>3, <1>4, <2>1, FreshSerial
<1>6. DistinctRows
  BY <1>2, <1>4 DEF DistinctRows
<1>7. Records
  <2>1. \A r \in Redemptions : redemption[r].status = "absent" /\ redemption[r].link = None
                                /\ redemption[r].reward = None
    BY DEF Init, TablesInit, NoRedemption
  <2>2. \A w \in Rewards : Live(w) = {}
    BY <2>1, SetsAssumption DEF SetsAssumption, Live
  <2>3. awarded = {}
    BY DEF Init, TablesInit
  <2> QED BY <2>1, <2>2, <2>3, FS_EmptySet DEF Records
<1> QED BY <1>2, <1>5, <1>6, <1>7 DEF SerialOK

LEMMA StepSerial ==
  ASSUME IInv, SerialOK, NEW s \in Sessions, Step(s)
  PROVE  SerialOK'
BY RedeemLockMemberSerial, RedeemLockRewardSerial, RedeemReadBalanceSerial,
   RedeemCountStockSerial, RedeemInsertSerial, RedeemCommitSerial,
   ResolveUpdateSerial, ResolveRefundSerial, ResolveCommitSerial,
   CloseCheckLapseSerial, CloseUpdateSerial, CloseCommitSerial,
   SweepRevertSerial, SweepCommitSerial, ChargeLockSerial, ChargeReadSerial,
   ChargeInsertSerial
   DEF Step

LEMMA SerialNext == IInv /\ SerialOK /\ [Next]_vars => SerialOK'
<1> SUFFICES ASSUME IInv, SerialOK, [Next]_vars PROVE SerialOK'
  OBVIOUS
<1>1. CASE Tick
  BY <1>1, TickSerial
<1>2. CASE Catalog
  BY <1>2, CatalogSerial
<1>3. ASSUME NEW r \in Redemptions, Fulfill(r) PROVE SerialOK'
  BY <1>3, FulfillSerial
<1>4. ASSUME NEW i \in Chores, NEW m \in Members, Claim(i, m) PROVE SerialOK'
  BY <1>4, ClaimSerial
<1>5. ASSUME NEW s \in Sessions, Begin(s) PROVE SerialOK'
  BY <1>5, RedeemBeginSerial, ResolveBeginSerial, CloseBeginSerial, SweepBeginSerial DEF Begin
<1>6. ASSUME NEW s \in Sessions, Step(s) PROVE SerialOK'
  BY <1>6, StepSerial
<1>7. ASSUME NEW s \in Sessions, Abort(s) PROVE SerialOK'
  BY <1>7, RollbackSerial DEF Abort
<1>8. CASE UNCHANGED vars
  <2>1. UNCHANGED <<now, tables>> /\ tx' = tx
    BY <1>8 DEF vars, tables
  <2>2. UNCHANGED <<redemption, chore, awarded>>
    BY <2>1 DEF tables
  <2>3. Records' /\ DistinctRows'
    BY <2>1, <2>2 DEF SerialOK, Records, Live, DistinctRows
  <2>4. ASSUME NEW t \in Sessions PROVE Serial(tx[t])'
    <3> DEFINE r == tx[t]
    <3>1. Serial(r) /\ tx'[t] = r
      BY <2>1 DEF SerialOK
    <3> HIDE DEF r
    <3> QED BY <2>1, <3>1, SerialStable
  <2> QED BY <2>3, <2>4 DEF SerialOK
<1> QED BY <1>1, <1>2, <1>3, <1>4, <1>5, <1>6, <1>7, <1>8 DEF Next

\* Whatever an open transaction has read under its locks is still so, and its
\* uncommitted rows are exactly the debit, refund, award or fines it decided.
THEOREM SerialInvariant == Spec => [](IInv /\ SerialOK)
<1>1. Init => IInv /\ SerialOK
  BY InitOK, SerialInit
<1>2. (IInv /\ SerialOK) /\ [Next]_vars => (IInv /\ SerialOK)'
  BY NextOK, SerialNext
<1> QED BY <1>1, <1>2, PTL DEF Spec

-----------------------------------------------------------------------------
(* Which steps change a table. *)

LEMMA SessionKinds ==
  ASSUME NEW s \in Sessions, Begin(s) \/ Step(s) \/ Abort(s)
  PROVE  \/ UNCHANGED <<now, tables>>
         \/ RedeemCommit(s) \/ ResolveCommit(s) \/ CloseCommit(s) \/ SweepCommit(s)
<1>1. Begin(s) => UNCHANGED <<now, tables>>
  BY ZenonT(60) DEF Begin, RedeemBegin, ResolveBegin, CloseBegin, SweepBegin
<1>2. Abort(s) => UNCHANGED <<now, tables>>
  BY DEF Abort
<1>3. Rollback(s) => UNCHANGED <<now, tables>>
  BY DEF Rollback
<1>4. ASSUME \/ RedeemLockMember(s) \/ RedeemLockReward(s) \/ RedeemReadBalance(s)
             \/ RedeemCountStock(s) \/ RedeemInsert(s) \/ ResolveUpdate(s) \/ ResolveRefund(s)
      PROVE  UNCHANGED <<now, tables>>
  BY <1>3, <1>4 DEF RedeemLockMember, RedeemLockReward, RedeemReadBalance, RedeemCountStock,
     RedeemInsert, ResolveUpdate, ResolveRefund
<1>5. ASSUME \/ CloseCheckLapse(s) \/ CloseUpdate(s) \/ SweepRevert(s)
             \/ ChargeLock(s) \/ ChargeRead(s) \/ ChargeInsert(s)
      PROVE  UNCHANGED <<now, tables>>
  BY <1>3, <1>5, ZenonT(60) DEF CloseCheckLapse, CloseUpdate, SweepRevert, ChargeLock, ChargeRead, ChargeInsert
<1> QED BY <1>1, <1>2, <1>4, <1>5 DEF Step

Commits == \E s \in Sessions : \/ RedeemCommit(s) \/ ResolveCommit(s)
                               \/ CloseCommit(s) \/ SweepCommit(s)

LEMMA Kinds ==
  ASSUME [Next]_vars
  PROVE  \/ UNCHANGED <<now, tables>>
         \/ Tick \/ Catalog
         \/ \E r \in Redemptions : Fulfill(r)
         \/ \E i \in Chores, m \in Members : Claim(i, m)
         \/ Commits
<1>1. ASSUME NEW s \in Sessions, Begin(s) \/ Step(s) \/ Abort(s)
      PROVE  UNCHANGED <<now, tables>> \/ Commits
  BY <1>1, SessionKinds DEF Commits
<1>2. UNCHANGED vars => UNCHANGED <<now, tables>>
  BY DEF vars, tables
<1> QED BY <1>1, <1>2 DEF Next

\* Redemptions, debits and refunds.
Purchases == <<redemption, debit, refund>>

LEMMA PurchaseKinds ==
  ASSUME [Next]_vars
  PROVE  \/ UNCHANGED Purchases
         \/ \E r \in Redemptions : Fulfill(r)
         \/ \E s \in Sessions : RedeemCommit(s) \/ ResolveCommit(s)
<1>1. Tick => UNCHANGED Purchases
  BY DEF Tick, tables, Purchases
<1>2. Catalog => UNCHANGED Purchases
  BY ZenonT(60) DEF Catalog, CreateReward, UpdateReward, ArchiveReward, DeleteReward, OtherTables, Purchases
<1>3. (\E i \in Chores, m \in Members : Claim(i, m)) => UNCHANGED Purchases
  BY DEF Claim, Purchases
<1>4. ASSUME NEW s \in Sessions, CloseCommit(s) \/ SweepCommit(s) PROVE UNCHANGED Purchases
  BY <1>4 DEF CloseCommit, SweepCommit, Purchases
<1>5. UNCHANGED <<now, tables>> => UNCHANGED Purchases
  BY DEF tables, Purchases
<1> QED BY <1>1, <1>2, <1>3, <1>4, <1>5, Kinds DEF Commits

\* The rows after a purchase, a refund and a fulfilment.
LEMMA RedeemCommitRows ==
  ASSUME IInv, SerialOK, NEW s \in Sessions, RedeemCommit(s)
  PROVE  /\ tx[s].pc = "redeem: commit"
         /\ \A q \in Redemptions :
              /\ q = tx[s].rid =>
                   /\ redemption'[q].status = "pending" /\ redemption'[q].member = tx[s].member
                   /\ redemption'[q].reward = tx[s].reward /\ redemption'[q].link = tx[s].link
                   /\ debit'[q] = tx[s].cost
              /\ q # tx[s].rid => redemption'[q] = redemption[q] /\ debit'[q] = debit[q]
         /\ refund' = refund
<1>1. /\ tx[s].pc = "redeem: commit" /\ refund' = refund
      /\ redemption' = [redemption EXCEPT ![tx[s].rid] =
           [status |-> "pending", member |-> tx[s].member,
            reward |-> tx[s].reward, link |-> tx[s].link]]
      /\ debit' = [debit EXCEPT ![tx[s].rid] = tx[s].cost]
  BY DEF RedeemCommit
<1>2. redemption \in [Redemptions -> RedemptionRecord] /\ debit \in [Redemptions -> Nat]
  BY DEF IInv, TypeOK, TablesOK
<1> QED BY <1>1, <1>2

LEMMA ResolveCommitRows ==
  ASSUME IInv, SerialOK, NEW s \in Sessions, ResolveCommit(s)
  PROVE  /\ tx[s].pc = "resolve: commit"
         /\ \A q \in Redemptions :
              /\ redemption'[q].status = IF q = tx[s].rid THEN tx[s].outcome
                                         ELSE redemption[q].status
              /\ redemption'[q].link = redemption[q].link
              /\ refund'[q] = IF q = tx[s].rid THEN refund[q] + debit[q] ELSE refund[q]
         /\ debit' = debit
<1>1. /\ tx[s].pc = "resolve: commit" /\ debit' = debit
      /\ redemption' = [redemption EXCEPT ![tx[s].rid].status = tx[s].outcome]
      /\ refund' = [refund EXCEPT ![tx[s].rid] = @ + tx[s].delta[tx[s].member]]
  BY DEF ResolveCommit
<1>2. redemption \in [Redemptions -> RedemptionRecord] /\ refund \in [Redemptions -> Int]
  BY DEF IInv, TypeOK, TablesOK
<1>3. tx[s].delta[tx[s].member] = debit[tx[s].rid] /\ tx[s].rid \in Redemptions
  BY <1>1, ResolveCommitFacts
<1> QED BY <1>1, <1>2, <1>3, ZenonT(60) DEF RedemptionRecord

LEMMA FulfillRows ==
  ASSUME IInv, NEW r \in Redemptions, Fulfill(r)
  PROVE  /\ redemption[r].status = "pending"
         /\ \A q \in Redemptions :
              /\ redemption'[q].status = IF q = r THEN "fulfilled" ELSE redemption[q].status
              /\ redemption'[q].link = redemption[q].link
         /\ UNCHANGED <<debit, refund>>
<1>1. redemption \in [Redemptions -> RedemptionRecord]
  BY DEF IInv, TypeOK, TablesOK
<1> QED BY <1>1 DEF Fulfill, RedemptionRecord

-----------------------------------------------------------------------------
(* Refunds and deep links. *)

LEMMA RefundNext ==
  ASSUME IInv, SerialOK, RefundMatchesDebit, [Next]_vars
  PROVE  RefundMatchesDebit'
<1>1. CASE UNCHANGED Purchases
  BY <1>1 DEF Purchases, RefundMatchesDebit
<1>2. ASSUME NEW r \in Redemptions, Fulfill(r) PROVE RefundMatchesDebit'
  BY <1>2, FulfillRows DEF RefundMatchesDebit
<1>3. ASSUME NEW s \in Sessions, RedeemCommit(s) PROVE RefundMatchesDebit'
  <2>1. tx[s].rid \in Redemptions /\ redemption[tx[s].rid].status = "absent"
    BY <1>3, RedeemCommitRows, RedeemCommitFacts
  <2> QED BY <1>3, <2>1, RedeemCommitRows, ZenonT(60) DEF RefundMatchesDebit
<1>4. ASSUME NEW s \in Sessions, ResolveCommit(s) PROVE RefundMatchesDebit'
  <2>1. /\ tx[s].rid \in Redemptions /\ redemption[tx[s].rid].status = "pending"
        /\ tx[s].outcome \in {"denied", "cancelled"}
    BY <1>4, ResolveCommitRows, ResolveCommitFacts
  <2>2. refund[tx[s].rid] = 0 /\ debit[tx[s].rid] \in Nat
    BY <2>1 DEF RefundMatchesDebit, IInv, TypeOK, TablesOK
  <2>3. 0 + debit[tx[s].rid] = debit[tx[s].rid]
    BY <2>2
  <2>4. refund'[tx[s].rid] = debit'[tx[s].rid]
    BY <1>4, <2>1, <2>2, <2>3, ResolveCommitRows
  <2> QED BY <1>4, <2>1, <2>4, ResolveCommitRows, ZenonT(60) DEF RefundMatchesDebit
<1> QED BY <1>1, <1>2, <1>3, <1>4, PurchaseKinds

LEMMA LinkNext ==
  ASSUME IInv, SerialOK, LinkRedeemsOnce, [Next]_vars
  PROVE  LinkRedeemsOnce'
<1>1. CASE UNCHANGED Purchases
  BY <1>1 DEF Purchases, LinkRedeemsOnce
<1>2. ASSUME NEW r \in Redemptions, Fulfill(r) PROVE LinkRedeemsOnce'
  BY <1>2, FulfillRows DEF LinkRedeemsOnce
<1>3. ASSUME NEW s \in Sessions, RedeemCommit(s) PROVE LinkRedeemsOnce'
  <2>1. tx[s].link # None => \A q \in Redemptions : redemption[q].link # tx[s].link
    BY <1>3, RedeemCommitRows, RedeemCommitFacts
  <2>2. \A q \in Redemptions :
          redemption'[q].link = IF q = tx[s].rid THEN tx[s].link ELSE redemption[q].link
    BY <1>3, RedeemCommitRows
  <2> QED BY ONLY <2>1, <2>2, LinkRedeemsOnce DEF LinkRedeemsOnce
<1>4. ASSUME NEW s \in Sessions, ResolveCommit(s) PROVE LinkRedeemsOnce'
  <2>1. \A q \in Redemptions : redemption'[q].link = redemption[q].link
    BY <1>4, ResolveCommitRows
  <2> QED BY ONLY <2>1, LinkRedeemsOnce DEF LinkRedeemsOnce
<1> QED BY <1>1, <1>2, <1>3, <1>4, PurchaseKinds

LEMMA PurchasesInit == Init => RefundMatchesDebit /\ LinkRedeemsOnce
BY DEF Init, TablesInit, NoRedemption, RefundMatchesDebit, LinkRedeemsOnce

\* A redemption's refunds add up to its debit when it was denied or cancelled,
\* and to nothing otherwise: no interleaving refunds twice, or at today's price.
THEOREM RefundsAreExact == Spec => []RefundMatchesDebit
<1>1. Init => RefundMatchesDebit
  BY PurchasesInit
<1>2. (IInv /\ SerialOK) /\ RefundMatchesDebit /\ [Next]_vars => RefundMatchesDebit'
  BY RefundNext
<1> QED BY <1>1, <1>2, SerialInvariant, PTL DEF Spec

\* However many connections follow the same signed link at once, one redemption
\* comes of it.
THEOREM LinksAreSingleUse == Spec => []LinkRedeemsOnce
<1>1. Init => LinkRedeemsOnce
  BY PurchasesInit
<1>2. (IInv /\ SerialOK) /\ LinkRedeemsOnce /\ [Next]_vars => LinkRedeemsOnce'
  BY LinkNext
<1> QED BY <1>1, <1>2, SerialInvariant, PTL DEF Spec

-----------------------------------------------------------------------------
(* Nothing stale at a commit. *)

AtCurrentTerms ==
  \A r \in Redemptions :
       redemption[r].status = "absent" /\ redemption'[r].status # "absent" =>
         LET w == redemption'[r].reward IN
         /\ reward[w].exists /\ reward[w].active
         /\ debit'[r] = reward[w].cost
         /\ reward[w].qty # None => Cardinality(Live(w)) < reward[w].qty

LEMMA TermsNext ==
  ASSUME IInv, SerialOK, [Next]_vars
  PROVE  AtCurrentTerms
<1>1. CASE UNCHANGED Purchases
  BY <1>1 DEF Purchases, AtCurrentTerms
<1>2. ASSUME NEW r \in Redemptions, Fulfill(r) PROVE AtCurrentTerms
  BY <1>2, FulfillRows DEF AtCurrentTerms
<1>3. ASSUME NEW s \in Sessions, RedeemCommit(s) PROVE AtCurrentTerms
  <2> SUFFICES ASSUME NEW r \in Redemptions, redemption[r].status = "absent",
                      redemption'[r].status # "absent"
               PROVE  LET w == redemption'[r].reward IN
                      /\ reward[w].exists /\ reward[w].active
                      /\ debit'[r] = reward[w].cost
                      /\ reward[w].qty # None => Cardinality(Live(w)) < reward[w].qty
    BY DEF AtCurrentTerms
  <2>1. r = tx[s].rid
    BY <1>3, RedeemCommitRows
  <2>2. redemption'[r].reward = tx[s].reward /\ debit'[r] = tx[s].cost
    BY <1>3, <2>1, RedeemCommitRows
  <2>3. tx[s].pc = "redeem: commit"
    BY <1>3, RedeemCommitRows
  <2>4. /\ reward[tx[s].reward].exists /\ reward[tx[s].reward].active
        /\ tx[s].cost = reward[tx[s].reward].cost
        /\ reward[tx[s].reward].qty # None =>
             Cardinality(Live(tx[s].reward)) < reward[tx[s].reward].qty
    BY <2>3, RedeemCommitFacts
  <2> QED BY <2>2, <2>4
<1>4. ASSUME NEW s \in Sessions, ResolveCommit(s) PROVE AtCurrentTerms
  <2>1. /\ tx[s].rid \in Redemptions /\ redemption[tx[s].rid].status = "pending"
    BY <1>4, ResolveCommitRows, ResolveCommitFacts
  <2> QED BY <1>4, <2>1, ResolveCommitRows DEF AtCurrentTerms
<1> QED BY <1>1, <1>2, <1>3, <1>4, PurchaseKinds

\* Every committed redemption pays the price, and takes from the stock, that
\* the reward's row has at that very step.
THEOREM TermsAreCurrent == Spec => RedeemsAtCurrentTerms
<1>1. (IInv /\ SerialOK) /\ [Next]_vars => [AtCurrentTerms]_vars
  BY TermsNext
<1>2. [][AtCurrentTerms]_vars => RedeemsAtCurrentTerms
  BY DEF RedeemsAtCurrentTerms, AtCurrentTerms
<1> QED BY <1>1, <1>2, SerialInvariant, PTL DEF Spec

LateClaimSettled ==
  \A i \in Chores, s \in Sessions :
       /\ chore[i].claimant # None /\ chore'[i].claimant = None
       /\ ChoreRow(i) \in tx[s].locks
       /\ LapsedBy(i, tx[s].at)
       => <<i, chore[i].claimedAt>> \in charged' \cup pardoned'

LEMMA SettledNext ==
  ASSUME IInv, SerialOK, [Next]_vars
  PROVE  LateClaimSettled
<1>1. CASE UNCHANGED chore
  BY <1>1 DEF LateClaimSettled
<1>2. ASSUME NEW j \in Chores, NEW m \in Members, Claim(j, m) PROVE LateClaimSettled
  <2>1. chore[j].claimant = None /\ \A i \in Chores : i # j => chore'[i] = chore[i]
    BY <1>2 DEF Claim, IInv, TypeOK, TablesOK
  <2> QED BY <2>1 DEF LateClaimSettled
<1>3. ASSUME NEW t \in Sessions, CloseCommit(t) PROVE LateClaimSettled
  <2> SUFFICES ASSUME NEW i \in Chores, NEW s \in Sessions, chore'[i] # chore[i],
                      ChoreRow(i) \in tx[s].locks, LapsedBy(i, tx[s].at)
               PROVE  <<i, chore[i].claimedAt>> \in charged' \cup pardoned'
    BY DEF LateClaimSettled
  <2>1. /\ tx[t].pc = "close: commit" /\ SettleClaims(t)
        /\ chore' = [chore EXCEPT ![tx[t].chore] = [NoChore EXCEPT !.status = tx[t].outcome]]
    BY <1>3 DEF CloseCommit
  <2>2. i = tx[t].chore
    BY <2>1 DEF IInv, TypeOK, TablesOK
  <2>3. ChoreRow(i) \in tx[t].locks
    BY <2>1, <2>2, SerialFacts DEF SessionOK, Closing
  <2>4. s = t
    BY <2>3 DEF IInv, LockMutex
  <2>5. i \in tx[t].fined \cup tx[t].spared
    BY <2>1, <2>2, <2>4, SerialFacts DEF Serial, Finishing
  <2> QED BY <2>1, <2>5 DEF SettleClaims, Windows
<1>4. ASSUME NEW t \in Sessions, SweepCommit(t) PROVE LateClaimSettled
  <2> SUFFICES ASSUME NEW i \in Chores, chore'[i] # chore[i]
               PROVE  <<i, chore[i].claimedAt>> \in charged' \cup pardoned'
    BY DEF LateClaimSettled
  <2>1. SettleClaims(t) /\ i \in tx[t].fined \cup tx[t].spared
    BY <1>4 DEF SweepCommit
  <2> QED BY <2>1 DEF SettleClaims, Windows
<1>5. Tick \/ Catalog \/ UNCHANGED <<now, tables>> \/ (\E r \in Redemptions : Fulfill(r))
        => UNCHANGED chore
  BY ZenonT(60) DEF Tick, tables, Fulfill, Catalog, CreateReward, UpdateReward, ArchiveReward,
     DeleteReward, OtherTables
<1>6. ASSUME NEW s \in Sessions, RedeemCommit(s) \/ ResolveCommit(s) PROVE UNCHANGED chore
  BY <1>6 DEF RedeemCommit, ResolveCommit
<1> QED BY <1>1, <1>2, <1>3, <1>4, <1>5, <1>6, Kinds DEF Commits

\* Whoever ends a claim that had lapsed by then, the sweep or a late completion
\* or skip, leaves its penalty or its pardon behind in the same commit.
THEOREM LateClaimsPay == Spec => LapsedClaimsAreSettled
<1>1. (IInv /\ SerialOK) /\ [Next]_vars => [LateClaimSettled]_vars
  BY SettledNext
<1>2. [][LateClaimSettled]_vars => LapsedClaimsAreSettled
  BY DEF LapsedClaimsAreSettled, LateClaimSettled
<1> QED BY <1>1, <1>2, SerialInvariant, PTL DEF Spec

-----------------------------------------------------------------------------
(* Every step is a request of HouseholdLedger, or none. *)

\* The instance counts with an operator of its own, of the same definition.
LEMMA SameCount == \A S : Household!Cardinality(S) = Cardinality(S)
BY DEF Household!Cardinality, Cardinality

LEMMA RedeemRefines ==
  ASSUME IInv, SerialOK, NEW s \in Sessions, RedeemCommit(s)
  PROVE  Household!Redeem(tx[s].rid, tx[s].member, tx[s].reward, tx[s].link)
<1> DEFINE m == tx[s].member
           w == tx[s].reward
<1>1. /\ tx[s].pc = "redeem: commit" /\ Publish(s)
      /\ redemption' = [redemption EXCEPT ![tx[s].rid] =
           [status |-> "pending", member |-> m, reward |-> w, link |-> tx[s].link]]
      /\ debit' = [debit EXCEPT ![tx[s].rid] = tx[s].cost]
      /\ UNCHANGED <<now, reward, refund, chore, awarded, charged, pardoned>>
  BY DEF RedeemCommit
<1>2. /\ m \in Members /\ tx[s].cost \in Nat /\ tx[s].cost = reward[w].cost
      /\ \A n \in Members : tx[s].delta[n] = IF n = m THEN - tx[s].cost ELSE 0
  BY <1>1, RedeemCommitFacts
<1>3. bal \in [Members -> Int] /\ \A n \in Members : bal[n] + tx[s].delta[n] >= 0
  BY SerialFacts DEF IInv, TypeOK, TablesOK, SessionOK, Solvent
<1>4. bal[m] >= reward[w].cost
  <2>1. bal[m] \in Int /\ bal[m] + (- tx[s].cost) >= 0
    BY <1>2, <1>3
  <2> QED BY ONLY <1>2, <2>1
<1>5. bal' = [bal EXCEPT ![m] = @ - reward[w].cost]
  <2>1. bal' = [n \in Members |-> bal[n] + tx[s].delta[n]]
    BY <1>1 DEF Publish
  <2> DEFINE after == [bal EXCEPT ![m] = @ - reward[w].cost]
  <2>2. after \in [Members -> Int] /\ bal' \in [Members -> Int]
    <3>1. bal' \in [Members -> Int]
      BY <1>1, PublishTyped
    <3>2. after \in [Members -> Int]
      BY ONLY <1>2, <1>3
    <3> QED BY <3>1, <3>2
  <2>3. ASSUME NEW n \in Members PROVE bal'[n] = after[n]
    <3>1. bal[n] \in Int /\ bal'[n] = bal[n] + tx[s].delta[n]
      BY <1>3, <2>1
    <3>2. after[n] = IF n = m THEN bal[n] - tx[s].cost ELSE bal[n]
      BY <1>2, <1>3
    <3>3. tx[s].delta[n] = IF n = m THEN - tx[s].cost ELSE 0
      BY <1>2
    <3> HIDE DEF m, after
    <3> QED BY ONLY <1>2, <3>1, <3>2, <3>3
  <2> HIDE DEF after
  <2>4. bal' = after
    BY <2>2, <2>3
  <2> QED BY <2>4 DEF after
<1>6. /\ redemption[tx[s].rid].status = "absent"
      /\ reward[w].exists /\ reward[w].active
      /\ reward[w].qty # None => Cardinality(Live(w)) < reward[w].qty
      /\ tx[s].link # None => /\ LinkReward[tx[s].link] = w
                              /\ \A q \in Redemptions : redemption[q].link # tx[s].link
  BY <1>1, RedeemCommitFacts
<1>7. debit' = [debit EXCEPT ![tx[s].rid] = reward[w].cost]
  BY <1>1, <1>2
<1>8. reward[w].qty # None => Household!Cardinality(Household!Live(w)) < reward[w].qty
  BY <1>6, SameCount DEF Live, Household!Live
<1> HIDE DEF m, w
<1> QED BY ONLY <1>1, <1>4, <1>5, <1>6, <1>7, <1>8 DEF Household!Redeem, m, w

LEMMA ResolveRefines ==
  ASSUME IInv, SerialOK, RefundMatchesDebit, NEW s \in Sessions, ResolveCommit(s)
  PROVE  Household!Resolve(tx[s].rid, tx[s].outcome)
<1> DEFINE m == tx[s].member
           rid == tx[s].rid
<1>1. /\ tx[s].pc = "resolve: commit" /\ Publish(s)
      /\ redemption' = [redemption EXCEPT ![rid].status = tx[s].outcome]
      /\ refund' = [refund EXCEPT ![rid] = @ + tx[s].delta[m]]
      /\ UNCHANGED <<now, reward, debit, chore, awarded, charged, pardoned>>
  BY DEF ResolveCommit
<1>2. /\ m \in Members /\ rid \in Redemptions /\ redemption[rid].status = "pending"
      /\ redemption[rid].member = m
      /\ \A n \in Members : tx[s].delta[n] = IF n = m THEN debit[rid] ELSE 0
  BY <1>1, ResolveCommitFacts
<1>3. bal \in [Members -> Int] /\ debit[rid] \in Nat /\ refund[rid] = 0
  BY <1>2 DEF IInv, TypeOK, TablesOK, RefundMatchesDebit
<1>4. bal' = [bal EXCEPT ![m] = @ + debit[rid]]
  <2>1. bal' = [n \in Members |-> bal[n] + tx[s].delta[n]]
    BY <1>1 DEF Publish
  <2> DEFINE after == [bal EXCEPT ![m] = @ + debit[rid]]
  <2>2. after \in [Members -> Int] /\ bal' \in [Members -> Int]
    <3>1. bal' \in [Members -> Int]
      BY <1>1, PublishTyped
    <3>2. after \in [Members -> Int]
      BY ONLY <1>2, <1>3
    <3> QED BY <3>1, <3>2
  <2>3. ASSUME NEW n \in Members PROVE bal'[n] = after[n]
    <3>1. bal[n] \in Int /\ bal'[n] = bal[n] + tx[s].delta[n]
      BY <1>3, <2>1
    <3>2. after[n] = IF n = m THEN bal[n] + debit[rid] ELSE bal[n]
      BY <1>2, <1>3
    <3>3. tx[s].delta[n] = IF n = m THEN debit[rid] ELSE 0
      BY <1>2
    <3> HIDE DEF m, rid, after
    <3> QED BY ONLY <1>3, <3>1, <3>2, <3>3
  <2> HIDE DEF after
  <2>4. bal' = after
    BY <2>2, <2>3
  <2> QED BY <2>4 DEF after
<1>5. refund' = [refund EXCEPT ![rid] = debit[rid]]
  <2>1. tx[s].delta[m] = debit[rid] /\ refund[rid] + debit[rid] = debit[rid]
    <3>1. 0 + debit[rid] = debit[rid]
      BY <1>3
    <3> QED BY <1>2, <1>3, <3>1
  <2> QED BY <1>1, <2>1
<1> QED BY <1>1, <1>2, <1>4, <1>5 DEF Household!Resolve

\* The claims a transaction settles are settled in the abstract sense, whoever
\* pays for them.
LEMMA SettleRefines ==
  ASSUME IInv, SerialOK, NEW s \in Sessions, SettleClaims(s), NEW paid,
         \A m \in Members : paid[m] <= bal[m],
         \A m \in Members : paid[m] > 0 => \E i \in tx[s].fined : chore[i].claimant = m,
         tx[s].fined = {} => \A m \in Members : paid[m] = 0
  PROVE  Household!Settle(tx[s].fined \cup tx[s].spared, paid)
<1> DEFINE S == tx[s].fined \cup tx[s].spared
           fined == tx[s].fined
<1>1. tx[s] \in TxState /\ Lapsing(tx[s])
  BY SerialFacts DEF Serial
<1>2. \A i \in S : Household!LapsedBy(i, now)
  <2> SUFFICES ASSUME NEW i \in S PROVE Household!LapsedBy(i, now)
    OBVIOUS
  <2>1. /\ i \in Chores /\ LapsedBy(i, tx[s].at)
        /\ tx[s].at \in Nat /\ tx[s].at <= now
    BY <1>1 DEF TxState, Lapsing
  <2>2. /\ chore[i].status = "pending" /\ chore[i].expires # None
        /\ chore[i].expires <= tx[s].at
    BY <2>1 DEF LapsedBy, Open
  <2>3. chore[i].expires \in Nat /\ now \in Nat
    <3>1. chore[i] \in ChoreRecord
      BY <2>1 DEF IInv, TypeOK, TablesOK
    <3> QED BY <2>2, <3>1, NowTyped DEF ChoreRecord
  <2>4. chore[i].expires <= now
    BY ONLY <2>1, <2>2, <2>3
  <2> QED BY <2>2, <2>4 DEF Household!LapsedBy, Household!Open
<1>3. fined \in SUBSET S /\ S \ fined = tx[s].spared
  BY <1>1 DEF Lapsing
<1>4. /\ charged' = charged \cup {<<i, chore[i].claimedAt>> : i \in fined}
      /\ pardoned' = pardoned \cup {<<i, chore[i].claimedAt>> : i \in S \ fined}
  BY <1>3 DEF SettleClaims, Windows
<1>5. \E F \in SUBSET S :
        /\ charged' = charged \cup {<<i, chore[i].claimedAt>> : i \in F}
        /\ pardoned' = pardoned \cup {<<i, chore[i].claimedAt>> : i \in S \ F}
        /\ F = {} => \A m \in Members : paid[m] = 0
  <2> fined \in SUBSET S
    BY <1>3
  <2> WITNESS fined \in SUBSET S
  <2> QED BY <1>4
<1>6. \A m \in Members : /\ paid[m] <= bal[m]
                         /\ paid[m] > 0 => \E i \in S : chore[i].claimant = m
  OBVIOUS
<1> HIDE DEF S
<1>7. Household!Settle(S, paid)
  BY ONLY <1>2, <1>5, <1>6 DEF Household!Settle
<1> QED BY <1>7 DEF S

LEMMA CloseRefines ==
  ASSUME IInv, SerialOK, NEW s \in Sessions, CloseCommit(s)
  PROVE  Household!Close(tx[s].chore, tx[s].member, tx[s].outcome)
<1> DEFINE i == tx[s].chore
           m == tx[s].member
           award == IF tx[s].outcome = "done" THEN Points[i] ELSE 0
           debtor == chore[i].claimant
           top == ClaimExpiryPenalty(Points[i])
           S == tx[s].fined \cup tx[s].spared
<1>1. /\ tx[s].pc = "close: commit" /\ Publish(s) /\ SettleClaims(s)
      /\ chore' = [chore EXCEPT ![i] = [NoChore EXCEPT !.status = tx[s].outcome]]
      /\ awarded' = IF tx[s].outcome = "done" /\ Points[i] > 0
                    THEN awarded \cup {i} ELSE awarded
      /\ UNCHANGED <<now, reward, redemption, debit, refund>>
  BY DEF CloseCommit
<1>2. /\ i \in Chores /\ m \in Members /\ tx[s].outcome \in {"done", "skipped"}
      /\ Open(i) /\ S \subseteq {i} /\ ClosesFor(tx[s], award)
  BY <1>1, SerialFacts DEF SessionOK, Assigned, ClosePCs, Serial, Finishing
<1>3. Points[i] \in Nat /\ top \in Nat /\ award \in Nat
  BY <1>2, PenaltyTyped
<1>4. PICK f \in 0 .. top :
        /\ tx[s].fined = {} => f = 0
        /\ f > 0 => debtor \in Members /\ f <= bal[debtor]
        /\ \A n \in Members :
             tx[s].delta[n] = (IF n = m THEN award ELSE 0)
                              - (IF f > 0 /\ n = debtor THEN f ELSE 0)
  BY <1>2 DEF ClosesFor
<1>5. f \in Nat
  BY <1>3
<1>6. \A n \in Members : bal[n] \in Int /\ bal[n] >= 0
  BY DEF IInv, TypeOK, TablesOK, BalanceNeverNegative
<1> DEFINE paid == [n \in Members |-> IF n = debtor THEN f ELSE 0]
<1>7. \A n \in Members : paid[n] = IF n = debtor THEN f ELSE 0
  OBVIOUS
<1>8. S = {} => f = 0
  BY ONLY <1>4
<1>9. awarded' = IF award > 0 THEN awarded \cup {i} ELSE awarded
  <2>1. (tx[s].outcome = "done" /\ Points[i] > 0) <=> award > 0
    <3>1. Points[i] \in Nat
      BY <1>3
    <3> HIDE DEF i
    <3> QED BY ONLY <3>1
  <2> HIDE DEF award
  <2> QED BY ONLY <1>1, <2>1
<1>10. f > 0 => i \in tx[s].fined
  BY <1>2, <1>4
<1> HIDE DEF paid, award, debtor, top, m
<1>11. Household!Settle(S, paid)
  <2>1. \A n \in Members : paid[n] <= bal[n]
    <3> SUFFICES ASSUME NEW n \in Members PROVE paid[n] <= bal[n]
      OBVIOUS
    <3>1. bal[n] \in Int /\ bal[n] >= 0 /\ paid[n] = IF n = debtor THEN f ELSE 0
      BY <1>6, <1>7
    <3>2. f > 0 => f <= bal[debtor]
      BY <1>4
    <3> QED BY ONLY <1>5, <3>1, <3>2
  <2>2. \A n \in Members : paid[n] > 0 => \E j \in tx[s].fined : chore[j].claimant = n
    <3> SUFFICES ASSUME NEW n \in Members, paid[n] > 0
                 PROVE  \E j \in tx[s].fined : chore[j].claimant = n
      OBVIOUS
    <3>1. n = debtor /\ f > 0
      BY ONLY <1>5, <1>7, n \in Members, paid[n] > 0
    <3> QED BY <1>10, <3>1 DEF debtor
  <2>3. tx[s].fined = {} => \A n \in Members : paid[n] = 0
    BY ONLY <1>4, <1>7
  <2> QED BY <1>1, <2>1, <2>2, <2>3, SettleRefines
<1>12. bal' = [n \in Members |-> bal[n] - paid[n] + IF n = m THEN award ELSE 0]
  <2>1. bal' = [n \in Members |-> bal[n] + tx[s].delta[n]]
    BY <1>1 DEF Publish
  <2>2. ASSUME NEW n \in Members
        PROVE  bal[n] + tx[s].delta[n] = bal[n] - paid[n] + IF n = m THEN award ELSE 0
    <3> DEFINE gain == IF n = m THEN award ELSE 0
               due == IF f > 0 /\ n = debtor THEN f ELSE 0
    <3>1. gain \in Nat /\ due \in Nat /\ bal[n] \in Int
      BY <1>3, <1>5, <1>6
    <3>2. tx[s].delta[n] = gain - due
      BY <1>4
    <3>3. paid[n] = due
      <4>1. paid[n] = IF n = debtor THEN f ELSE 0
        BY <1>7
      <4> QED BY ONLY <1>5, <4>1
    <3> HIDE DEF gain, due
    <3>4. bal[n] + tx[s].delta[n] = bal[n] - paid[n] + gain
      BY ONLY <3>1, <3>2, <3>3
    <3> QED BY <3>4 DEF gain
  <2> QED BY <2>1, <2>2
<1>13. Household!ClaimExpiryPenalty(Points[i]) = top
  BY DEF Household!ClaimExpiryPenalty, ClaimExpiryPenalty, top
<1>14. \E T \in SUBSET {i}, fine \in 0..Household!ClaimExpiryPenalty(Points[i]) :
         LET owed == [n \in Members |-> IF n = chore[i].claimant THEN fine ELSE 0] IN
         /\ T = {} => fine = 0
         /\ Household!Settle(T, owed)
         /\ bal' = [n \in Members |-> bal[n] - owed[n] + IF n = m THEN award ELSE 0]
  <2> S \in SUBSET {i} /\ f \in 0..Household!ClaimExpiryPenalty(Points[i])
    BY <1>2, <1>13
  <2> WITNESS S \in SUBSET {i}, f \in 0..Household!ClaimExpiryPenalty(Points[i])
  <2> QED BY <1>8, <1>11, <1>12 DEF paid, debtor
<1>15. /\ Household!Open(i)
       /\ chore' = [chore EXCEPT ![i] = [Household!NoChore EXCEPT !.status = tx[s].outcome]]
  BY <1>1, <1>2 DEF Open, Household!Open, NoChore, Household!NoChore
<1>16. UNCHANGED <<now, Household!unpaid>>
  BY <1>1 DEF Household!unpaid
<1>17. award = IF tx[s].outcome = "done" THEN Points[i] ELSE 0
  BY DEF award
<1> HIDE DEF S, i
<1> QED BY ONLY <1>9, <1>14, <1>15, <1>16, <1>17, SMTT(30) DEF Household!Close, i, m

\* Single auto-committed statements are requests as they stand.
LEMMA FulfillRefines ==
  ASSUME NEW r \in Redemptions, Fulfill(r)
  PROVE  Household!Fulfill(r)
BY DEF Fulfill, Household!Fulfill

LEMMA ClaimRefines ==
  ASSUME NEW i \in Chores, NEW m \in Members, Claim(i, m)
  PROVE  Household!Claim(i, m)
BY DEF Claim, Household!Claim, Open, Household!Open, Household!unpaid

LEMMA CatalogRefines == Catalog => Household!Catalog
BY ZenonT(60) DEF Catalog, Household!Catalog, CreateReward, Household!CreateReward,
   UpdateReward, Household!UpdateReward, ArchiveReward, Household!ArchiveReward,
   DeleteReward, Household!DeleteReward, NoReward, Household!NoReward,
   OtherTables, Household!OtherTables

LEMMA TickRefines == Tick => Household!Tick
BY DEF Tick, Household!Tick, tables, Household!tables

LEMMA SweepRefines ==
  ASSUME IInv, SerialOK, NEW s \in Sessions, SweepCommit(s)
  PROVE  \E S \in SUBSET {i \in Chores : Household!LapsedBy(i, now)} : Household!Sweep(S)
<1> DEFINE S == tx[s].fined \cup tx[s].spared
           paid == [m \in Members |-> - tx[s].delta[m]]
<1>1. /\ tx[s].pc = "sweep: commit" /\ Publish(s) /\ SettleClaims(s)
      /\ chore' = [i \in Chores |-> IF i \in S THEN NoChore ELSE chore[i]]
      /\ UNCHANGED <<now, reward, redemption, debit, refund, awarded>>
  BY DEF SweepCommit
<1>2. /\ tx[s] \in TxState /\ TakesFromFined(tx[s]) /\ S # {} /\ Solvent(tx[s])
  BY <1>1, SerialFacts DEF Serial, Finishing, SessionOK
<1>3. \A m \in Members : /\ bal[m] \in Int /\ tx[s].delta[m] \in Int
                         /\ bal'[m] = bal[m] + tx[s].delta[m]
                         /\ bal'[m] >= 0
  <2>1. bal' = [m \in Members |-> bal[m] + tx[s].delta[m]]
    BY <1>1 DEF Publish
  <2>2. \A m \in Members : bal[m] \in Int /\ tx[s].delta[m] \in Int
    BY <1>2 DEF TxState, IInv, TypeOK, TablesOK
  <2>3. \A m \in Members : bal[m] + tx[s].delta[m] >= 0
    BY <1>2 DEF Solvent
  <2> QED BY <2>1, <2>2, <2>3
<1>4. bal' \in [Members -> Nat]
  <2>1. bal' = [m \in Members |-> bal'[m]]
    BY <1>1 DEF Publish
  <2>2. \A m \in Members : bal'[m] \in Nat
    BY ONLY <1>3
  <2> QED BY ONLY <2>1, <2>2
<1>5. ASSUME NEW m \in Members
      PROVE  /\ bal'[m] <= bal[m] /\ paid[m] = bal[m] - bal'[m] /\ paid[m] <= bal[m]
             /\ paid[m] > 0 => \E i \in tx[s].fined : chore[i].claimant = m
  <2>1. /\ tx[s].delta[m] <= 0
        /\ tx[s].delta[m] < 0 => \E i \in tx[s].fined : chore[i].claimant = m
    BY <1>2 DEF TakesFromFined
  <2>2. paid[m] = - tx[s].delta[m]
    OBVIOUS
  <2> HIDE DEF paid
  <2>3. bal'[m] <= bal[m] /\ paid[m] = bal[m] - bal'[m] /\ paid[m] <= bal[m]
    BY ONLY <1>3, <2>1, <2>2, m \in Members
  <2>4. paid[m] > 0 => tx[s].delta[m] < 0
    BY ONLY <1>3, <2>2, m \in Members
  <2> QED BY <2>1, <2>3, <2>4
<1>6. tx[s].fined = {} => \A m \in Members : paid[m] = 0
  <2> SUFFICES ASSUME tx[s].fined = {}, NEW m \in Members PROVE paid[m] = 0
    OBVIOUS
  <2>1. tx[s].delta[m] \in Int /\ tx[s].delta[m] <= 0 /\ ~(tx[s].delta[m] < 0)
    BY <1>2, <1>3 DEF TakesFromFined
  <2>2. paid[m] = - tx[s].delta[m]
    OBVIOUS
  <2> HIDE DEF paid
  <2> QED BY ONLY <2>1, <2>2
<1> HIDE DEF paid
<1>7. Household!Settle(S, paid)
  BY <1>1, <1>5, <1>6, SettleRefines
<1>8. paid = [m \in Members |-> bal[m] - bal'[m]]
  BY <1>5 DEF paid
<1> HIDE DEF S
<1>9. S \in SUBSET {i \in Chores : Household!LapsedBy(i, now)}
  <2>1. S \subseteq Chores
    BY <1>2 DEF S, TxState
  <2> QED BY <1>7, <2>1 DEF Household!Settle
<1>10. chore' = [i \in Chores |-> IF i \in S THEN Household!NoChore ELSE chore[i]]
  BY <1>1 DEF NoChore, Household!NoChore, S
<1>11. S # {} /\ UNCHANGED <<now, Household!unpaid, awarded>>
  BY <1>1, <1>2 DEF S, Household!unpaid
<1>12. Household!Settle(S, [m \in Members |-> bal[m] - bal'[m]])
  BY ONLY <1>7, <1>8
<1>13. Household!Sweep(S)
  BY ONLY <1>4, <1>5, <1>10, <1>11, <1>12 DEF Household!Sweep
<1> QED BY <1>9, <1>13

LEMMA HouseholdStep ==
  ASSUME IInv, SerialOK, RefundMatchesDebit, [Next]_vars
  PROVE  [Household!Next]_<<now, Household!tables>>
<1>1. CASE UNCHANGED <<now, tables>>
  BY <1>1 DEF tables, Household!tables
<1>2. CASE Tick
  BY <1>2, TickRefines DEF Household!Next
<1>3. CASE Catalog
  BY <1>3, CatalogRefines DEF Household!Next
<1>4. ASSUME NEW r \in Redemptions, Fulfill(r) PROVE Household!Next
  BY <1>4, FulfillRefines DEF Household!Next
<1>5. ASSUME NEW i \in Chores, NEW m \in Members, Claim(i, m) PROVE Household!Next
  BY <1>5, ClaimRefines DEF Household!Next
<1>6. ASSUME NEW s \in Sessions, RedeemCommit(s) PROVE Household!Next
  <2>1. /\ tx[s].rid \in Redemptions /\ tx[s].member \in Members
        /\ tx[s].reward \in Rewards /\ tx[s].link \in Links \cup {None}
    <3>1. tx[s].pc = "redeem: commit"
      BY <1>6 DEF RedeemCommit
    <3>2. tx[s].link \in Links \cup {None}
      BY SerialFacts DEF TxState
    <3> QED BY <3>1, <3>2, SerialFacts DEF SessionOK, Assigned, RedeemPCs
  <2>2. Household!Redeem(tx[s].rid, tx[s].member, tx[s].reward, tx[s].link)
    BY <1>6, RedeemRefines
  <2> QED BY <2>1, <2>2 DEF Household!Next
<1>7. ASSUME NEW s \in Sessions, ResolveCommit(s) PROVE Household!Next
  <2>1. tx[s].rid \in Redemptions /\ tx[s].outcome \in {"denied", "cancelled"}
    <3>1. tx[s].pc = "resolve: commit"
      BY <1>7 DEF ResolveCommit
    <3> QED BY <3>1, ResolveCommitFacts
  <2>2. Household!Resolve(tx[s].rid, tx[s].outcome)
    BY <1>7, ResolveRefines
  <2> QED BY <2>1, <2>2 DEF Household!Next
<1>8. ASSUME NEW s \in Sessions, CloseCommit(s) PROVE Household!Next
  <2>1. /\ tx[s].chore \in Chores /\ tx[s].member \in Members
        /\ tx[s].outcome \in {"done", "skipped"}
    <3>1. tx[s].pc = "close: commit"
      BY <1>8 DEF CloseCommit
    <3> QED BY <3>1, SerialFacts DEF SessionOK, Assigned, ClosePCs
  <2>2. Household!Close(tx[s].chore, tx[s].member, tx[s].outcome)
    BY <1>8, CloseRefines
  <2> QED BY <2>1, <2>2 DEF Household!Next
<1>9. ASSUME NEW s \in Sessions, SweepCommit(s) PROVE Household!Next
  BY <1>9, SweepRefines DEF Household!Next
<1> QED BY <1>1, <1>2, <1>3, <1>4, <1>5, <1>6, <1>7, <1>8, <1>9, Kinds DEF Commits

\* Each request takes effect in one step, against the tables as they are at
\* that step, whatever other transactions are open: READ COMMITTED and the
\* locks the code takes are serialisable for the point economy.
THEOREM TransactionsAreAtomic == Spec => ImplementsHousehold
<1>1. Init => Household!TablesInit
  BY DEF Init, TablesInit, Household!TablesInit, NoReward, Household!NoReward,
     NoRedemption, Household!NoRedemption, NoChore, Household!NoChore
<1>2. (IInv /\ SerialOK) /\ RefundMatchesDebit /\ [Next]_vars
        => [Household!Next]_<<now, Household!tables>>
  BY HouseholdStep
<1> QED BY <1>1, <1>2, SerialInvariant, RefundsAreExact, PTL
        DEF Spec, ImplementsHousehold, Household!Spec

-----------------------------------------------------------------------------
(* Waiting. *)

\* What the next statement of a session has to be granted.
LEMMA Wanted ==
  ASSUME IInv, SerialOK, NEW s \in Sessions, NEW x \in Wants(s)
  PROVE  \/ /\ tx[s].pc \in {"close: check lapse", "close: update"}
            /\ x = ChoreRow(tx[s].chore)
         \/ tx[s].pc = "redeem: lock member" /\ x = MemberLock(tx[s].member)
         \/ tx[s].pc = "redeem: lock reward" /\ x = RewardRow(tx[s].reward)
         \/ tx[s].pc = "redeem: insert" /\ x = LinkKey(tx[s].link)
         \/ tx[s].pc = "resolve: update" /\ x = RedemptionRow(tx[s].rid)
         \/ tx[s].pc = "charge: lock" /\ x = MemberLock(tx[s].debtor)
BY DEF Wants

\* What a session that has to wait may already hold.
LEMMA HeldWhileWaiting ==
  ASSUME IInv, SerialOK, NEW t \in Sessions, Blockers(t) # {}, NEW x \in tx[t].locks
  PROVE  \/ /\ tx[t].pc = "charge: lock" /\ tx[t].debtor \in Members
            /\ \/ \E i \in Chores : x = ChoreRow(i)
               \/ \E m \in Members : m < tx[t].debtor /\ x = MemberLock(m)
         \/ /\ tx[t].pc = "redeem: lock reward"
            /\ \E m \in Members : x = MemberLock(m)
         \/ /\ tx[t].pc = "redeem: insert"
            /\ \/ \E m \in Members : x = MemberLock(m)
               \/ \E w \in Rewards : x = RewardRow(w)
<1>1. /\ tx[t] \in TxState /\ Assigned(tx[t]) /\ Settling(tx[t])
      /\ Unstarted(tx[t]) /\ Buying(tx[t]) /\ InOrder(tx[t]) /\ Finishing(tx[t])
  BY SerialFacts DEF SessionOK, Serial
<1>2. PICK u \in Sessions \ {t}, y \in Wants(t) : y \in tx[u].locks
  BY DEF Blockers
<1>3. y \notin tx[t].locks
  BY <1>2 DEF IInv, LockMutex
<1>4. tx[t].pc \notin FirstPCs
  BY <1>1 DEF Unstarted
<1>5. tx[t].pc # "close: update"
  <2> SUFFICES ASSUME tx[t].pc = "close: update" PROVE FALSE
    OBVIOUS
  <2>1. y = ChoreRow(tx[t].chore)
    BY <1>2, Wanted
  <2>2. \A i \in tx[t].fined \cup tx[t].spared : i = tx[t].chore /\ ChoreRow(i) \in tx[t].locks
    BY <1>1 DEF Finishing, Settling
  <2>3. tx[t].fined \cup tx[t].spared # {}
    BY <1>1 DEF Finishing
  <2> QED BY <1>3, <2>1, <2>2, <2>3
<1>6. tx[t].pc \in {"redeem: lock reward", "redeem: insert", "charge: lock"}
  BY <1>2, <1>4, <1>5, Wanted DEF FirstPCs
<1>7. CASE tx[t].pc = "redeem: lock reward"
  BY <1>1, <1>7 DEF Buying, Assigned, RedeemPCs
<1>8. CASE tx[t].pc = "redeem: insert"
  BY <1>1, <1>8, ZenonT(60) DEF Buying, Assigned, RedeemPCs
<1>9. CASE tx[t].pc = "charge: lock"
  <2>1. tx[t].debtor \in Members /\ tx[t].pc \in ChargePCs
    BY <1>1, <1>9 DEF Assigned, ChargePCs
  <2>2. MemberLock(tx[t].debtor) \notin tx[t].locks
    BY <1>2, <1>3, <1>9, Wanted
  <2>3. \/ \E i \in Chores : x = ChoreRow(i)
        \/ \E m \in Members : m <= tx[t].debtor /\ x = MemberLock(m)
    BY <1>1, <2>1 DEF InOrder
  <2>4. \A m \in Members : m \in Nat
    BY SetsAssumption DEF SetsAssumption
  <2>5. \A m \in Members : m <= tx[t].debtor /\ m # tx[t].debtor => m < tx[t].debtor
    BY ONLY <2>1, <2>4
  <2> QED BY <1>9, <2>1, <2>2, <2>3, <2>5
<1> QED BY <1>6, <1>7, <1>8, <1>9

\* The order in which locks are taken, n being at least every member id: chore
\* rows, members by id, the reward's row, the link's key.
WantRank(r, n) ==
  CASE r.pc \in {"close: check lapse", "close: update"} -> 0
    [] r.pc = "redeem: lock member" -> 1 + r.member
    [] r.pc = "charge: lock" -> 1 + r.debtor
    [] r.pc = "redeem: lock reward" -> n + 2
    [] r.pc = "redeem: insert" -> n + 3
    [] OTHER -> n + 4

\* A session's rank is read off the lock it wants.
LEMMA RankOfWant ==
  ASSUME IInv, SerialOK, NEW n \in Nat, NEW s \in Sessions, NEW x \in Wants(s)
  PROVE  /\ \A i \in Chores : x = ChoreRow(i) => WantRank(tx[s], n) = 0
         /\ \A m \in Members : x = MemberLock(m) => WantRank(tx[s], n) = 1 + m
         /\ \A w \in Rewards : x = RewardRow(w) => WantRank(tx[s], n) = n + 2
<1> DEFINE r == tx[s]
<1>1. ASSUME NEW i \in Chores, x = ChoreRow(i) PROVE WantRank(r, n) = 0
  <2>1. r.pc \in {"close: check lapse", "close: update"}
    BY <1>1, Wanted DEF ChoreRow, MemberLock, RewardRow, LinkKey, RedemptionRow
  <2> HIDE DEF r
  <2> QED BY ONLY <2>1 DEF WantRank
<1>2. ASSUME NEW m \in Members, x = MemberLock(m) PROVE WantRank(r, n) = 1 + m
  <2>1. \/ r.pc = "redeem: lock member" /\ r.member = m
        \/ r.pc = "charge: lock" /\ r.debtor = m
    BY <1>2, Wanted DEF ChoreRow, MemberLock, RewardRow, LinkKey, RedemptionRow
  <2> HIDE DEF r
  <2> QED BY ONLY <2>1 DEF WantRank
<1>3. ASSUME NEW w \in Rewards, x = RewardRow(w) PROVE WantRank(r, n) = n + 2
  <2>1. r.pc = "redeem: lock reward"
    BY <1>3, Wanted DEF ChoreRow, MemberLock, RewardRow, LinkKey, RedemptionRow
  <2> HIDE DEF r
  <2> QED BY ONLY <2>1 DEF WantRank
<1> QED BY <1>1, <1>2, <1>3

\* Whoever makes a session wait, and waits in turn, waits for something later
\* in that order.
LEMMA Climbs ==
  ASSUME IInv, SerialOK, NEW n \in Nat, \A m \in Members : m \in Nat /\ m <= n,
         NEW s \in Sessions, NEW t \in Blockers(s), Blockers(t) # {}
  PROVE  WantRank(tx[s], n) < WantRank(tx[t], n)
<1>1. t \in Sessions
  BY DEF Blockers
<1>2. PICK x \in Wants(s) : x \in tx[t].locks
  BY DEF Blockers
<1>3. CASE tx[t].pc = "charge: lock"
  <2>1. /\ tx[t].debtor \in Members
        /\ \/ \E i \in Chores : x = ChoreRow(i)
           \/ \E m \in Members : m < tx[t].debtor /\ x = MemberLock(m)
    BY <1>1, <1>2, <1>3, HeldWhileWaiting
  <2>2. WantRank(tx[t], n) = 1 + tx[t].debtor /\ tx[t].debtor \in Nat
    BY <1>3, <2>1 DEF WantRank
  <2>3. \/ WantRank(tx[s], n) = 0
        \/ \E m \in Members : m < tx[t].debtor /\ WantRank(tx[s], n) = 1 + m
    BY <1>2, <2>1, RankOfWant
  <2> QED BY ONLY <2>2, <2>3, \A m \in Members : m \in Nat /\ m <= n
<1>4. CASE tx[t].pc = "redeem: lock reward"
  <2>1. \E m \in Members : x = MemberLock(m)
    BY <1>1, <1>2, <1>4, HeldWhileWaiting
  <2>2. \E m \in Members : WantRank(tx[s], n) = 1 + m
    BY <1>2, <2>1, RankOfWant
  <2>3. WantRank(tx[t], n) = n + 2
    BY <1>4 DEF WantRank
  <2> QED BY ONLY <2>2, <2>3, n \in Nat, \A m \in Members : m \in Nat /\ m <= n
<1>5. CASE tx[t].pc = "redeem: insert"
  <2>1. \/ \E m \in Members : x = MemberLock(m)
        \/ \E w \in Rewards : x = RewardRow(w)
    BY <1>1, <1>2, <1>5, HeldWhileWaiting
  <2>2. \/ \E m \in Members : WantRank(tx[s], n) = 1 + m
        \/ WantRank(tx[s], n) = n + 2
    BY <1>2, <2>1, RankOfWant
  <2>3. WantRank(tx[t], n) = n + 3
    BY <1>5 DEF WantRank
  <2> QED BY ONLY <2>2, <2>3, n \in Nat, \A m \in Members : m \in Nat /\ m <= n
<1> QED BY <1>1, <1>2, <1>3, <1>4, <1>5, HeldWhileWaiting

\* Of sessions that all wait for each other, the one that waits for the last
\* lock in the order would be waited for by none.
LEMMA NoCircle == IInv /\ SerialOK => NoWaitCycle
<1> SUFFICES ASSUME IInv, SerialOK, NEW D \in SUBSET Sessions, D # {},
                    \A s \in D : Blockers(s) \cap D # {}
             PROVE  FALSE
  BY DEF NoWaitCycle
<1>1. PICK n \in Nat : \A m \in Members : m <= n
  BY Bounded, SetsAssumption, FiniteAssumption DEF Bound, SetsAssumption, FiniteAssumption
<1>2. \A m \in Members : m \in Nat /\ m <= n
  BY <1>1, SetsAssumption DEF SetsAssumption
<1> DEFINE rank(s) == WantRank(tx[s], n)
<1>3. ASSUME NEW s \in D PROVE rank(s) \in 0 .. n + 4
  <2>1. Blockers(s) # {}
    BY <1>3
  <2>2. PICK x \in Wants(s) : TRUE
    BY <2>1 DEF Blockers
  <2>3. /\ tx[s].pc = "redeem: lock member" => tx[s].member \in Members
        /\ tx[s].pc = "charge: lock" => tx[s].debtor \in Members
    BY <1>3, SerialFacts DEF SessionOK, Assigned, RedeemPCs, ChargePCs
  <2>4. \/ rank(s) \in {0, n + 2, n + 3, n + 4}
        \/ \E m \in Members : rank(s) = 1 + m
    BY <2>3 DEF WantRank
  <2> HIDE DEF rank
  <2> QED BY ONLY <1>2, <2>4, n \in Nat
<1> HIDE DEF rank
<1> DEFINE gaps == {n + 4 - rank(s) : s \in D}
<1>4. gaps \in SUBSET Nat /\ gaps # {}
  <2>1. \A s \in D : n + 4 - rank(s) \in Nat
    BY ONLY <1>3, n \in Nat
  <2> QED BY <2>1
<1>5. PICK s \in D : \A t \in D : n + 4 - rank(s) <= n + 4 - rank(t)
  <2>1. PICK g \in gaps : \A k \in gaps : g <= k
    BY ONLY <1>4, LeastNatural
  <2>2. PICK s \in D : g = n + 4 - rank(s)
    OBVIOUS
  <2>3. \A t \in D : n + 4 - rank(t) \in gaps
    OBVIOUS
  <2> HIDE DEF gaps
  <2>4. \A t \in D : n + 4 - rank(s) <= n + 4 - rank(t)
    BY ONLY <2>1, <2>2, <2>3
  <2> QED BY <2>4
<1>6. PICK t \in D : t \in Blockers(s)
  OBVIOUS
<1>7. Blockers(t) # {}
  BY <1>6
<1>8. rank(s) < rank(t)
  BY <1>2, <1>6, <1>7, Climbs DEF rank
<1>9. rank(s) \in Int /\ rank(t) \in Int /\ n + 4 - rank(s) <= n + 4 - rank(t)
  BY <1>3, <1>5
<1> QED BY ONLY <1>8, <1>9, n \in Nat

\* No set of transactions wait for each other in a circle, whatever members
\* they charge and buy for: Postgres never has to break a deadlock here.
THEOREM NoDeadlock == Spec => []NoWaitCycle
<1>1. (IInv /\ SerialOK) => NoWaitCycle
  BY NoCircle
<1> QED BY <1>1, SerialInvariant, PTL
====
