---------------------------- MODULE PointLedgerMC ----------------------------
(* Small instances of PointLedger for TLC. *)
EXTENDS PointLedger, TLC

CONSTANTS w1, r1, r2, l1, c1, c2, c3, c4, s1, s2

TwoEach  == [i \in Chores |-> 2]
FourEach == [i \in Chores |-> 4]
OneLink == [l \in Links |-> w1]
OnePointEach == [m \in Members |-> 1]
TwoPointsEach == [m \in Members |-> 2]

Monday == {c1, c2}
Tuesday == {c3, c4}
Symmetry == Permutations(Sessions) \cup Permutations(Redemptions)
            \cup Permutations(Monday) \cup Permutations(Tuesday)
=============================================================================
