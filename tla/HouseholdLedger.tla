--------------------------- MODULE HouseholdLedger ---------------------------
(***************************************************************************)
(* What the point ledger promises its users: every request is one          *)
(* indivisible step on the tables, taken against the tables as they are at *)
(* that instant.  PointLedger, where a request is a transaction of several *)
(* statements interleaved with others, implements this module with the     *)
(* tables as they stand: its commits are serialisable although the         *)
(* transactions run at READ COMMITTED.                                     *)
(***************************************************************************)
EXTENDS LedgerTables

unpaid == <<reward, redemption, debit, refund>>

\* A member buys: the reward is on offer, in stock and affordable right now.
Redeem(r, m, w, l) ==
  /\ redemption[r].status = "absent"
  /\ reward[w].exists /\ reward[w].active
  /\ bal[m] >= reward[w].cost
  /\ reward[w].qty # None => Cardinality(Live(w)) < reward[w].qty
  /\ l # None => /\ LinkReward[l] = w
                 /\ \A q \in Redemptions : redemption[q].link # l
  /\ redemption' = [redemption EXCEPT ![r] =
       [status |-> "pending", member |-> m, reward |-> w, link |-> l]]
  /\ debit' = [debit EXCEPT ![r] = reward[w].cost]
  /\ bal' = [bal EXCEPT ![m] = @ - reward[w].cost]
  /\ UNCHANGED <<now, reward, refund, chore, awarded, charged, pardoned>>

Fulfill(r) ==
  /\ redemption[r].status = "pending"
  /\ redemption' = [redemption EXCEPT ![r].status = "fulfilled"]
  /\ UNCHANGED <<now, bal, reward, debit, refund, chore, awarded, charged, pardoned>>

\* Denying or cancelling gives back exactly what was paid.
Resolve(r, outcome) ==
  /\ redemption[r].status = "pending"
  /\ redemption' = [redemption EXCEPT ![r].status = outcome]
  /\ refund' = [refund EXCEPT ![r] = debit[r]]
  /\ bal' = [bal EXCEPT ![redemption[r].member] = @ + debit[r]]
  /\ UNCHANGED <<now, reward, debit, chore, awarded, charged, pardoned>>

Claim(i, m) ==
  /\ Open(i) /\ chore[i].claimant = None
  /\ chore' = [chore EXCEPT ![i] = [status |-> "pending", claimant |-> m,
                 claimedAt |-> now, expires |-> now + ClaimWindow]]
  /\ UNCHANGED <<now, bal, unpaid, awarded, charged, pardoned>>

\* Ending claims settles the lapsed ones among them (S): their claimants pay,
\* out of what they have.
Settle(S, paid) ==
  /\ \A i \in S : LapsedBy(i, now)
  /\ \A m \in Members : /\ paid[m] <= bal[m]
                        /\ paid[m] > 0 => \E i \in S : chore[i].claimant = m
  /\ \E fined \in SUBSET S :
       /\ charged' = charged \cup {<<i, chore[i].claimedAt>> : i \in fined}
       /\ pardoned' = pardoned \cup {<<i, chore[i].claimedAt>> : i \in S \ fined}
       /\ fined = {} => \A m \in Members : paid[m] = 0

\* Finishing a chore pays its points, once, to whoever finished it; skipping
\* pays nothing.
Close(i, m, outcome) ==
  LET award == IF outcome = "done" THEN Points[i] ELSE 0
  IN
  /\ Open(i)
  /\ chore' = [chore EXCEPT ![i] = [NoChore EXCEPT !.status = outcome]]
  /\ \E S \in SUBSET {i}, fine \in 0..ClaimExpiryPenalty(Points[i]) :
       LET paid == [n \in Members |-> IF n = chore[i].claimant THEN fine ELSE 0] IN
       /\ S = {} => fine = 0
       /\ Settle(S, paid)
       /\ bal' = [n \in Members |-> bal[n] - paid[n] + IF n = m THEN award ELSE 0]
  /\ awarded' = IF award > 0 THEN awarded \cup {i} ELSE awarded
  /\ UNCHANGED <<now, unpaid>>

\* The expiry sweep puts lapsed chores back up for grabs.
Sweep(S) ==
  /\ S # {}
  /\ chore' = [i \in Chores |-> IF i \in S THEN NoChore ELSE chore[i]]
  /\ bal' \in [Members -> Nat]
  /\ \A m \in Members : bal'[m] <= bal[m]
  /\ Settle(S, [m \in Members |-> bal[m] - bal'[m]])
  /\ UNCHANGED <<now, unpaid, awarded>>

Catalog ==
  \E w \in Rewards :
    \/ \E c \in Costs, q \in Quantities : CreateReward(w, c, q) \/ UpdateReward(w, c, q)
    \/ ArchiveReward(w)
    \/ DeleteReward(w)

Tick == now' = now + 1 /\ UNCHANGED tables

Next ==
  \/ Tick
  \/ Catalog
  \/ \E r \in Redemptions :
       \/ \E m \in Members, w \in Rewards, l \in Links \cup {None} : Redeem(r, m, w, l)
       \/ Fulfill(r)
       \/ \E outcome \in {"denied", "cancelled"} : Resolve(r, outcome)
  \/ \E i \in Chores, m \in Members :
       Claim(i, m) \/ \E outcome \in {"done", "skipped"} : Close(i, m, outcome)
  \/ \E S \in SUBSET {i \in Chores : LapsedBy(i, now)} : Sweep(S)

Spec == TablesInit /\ [][Next]_<<now, tables>>

=============================================================================
