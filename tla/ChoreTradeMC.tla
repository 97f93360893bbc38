---------------------------- MODULE ChoreTradeMC -----------------------------
(* Small instances of ChoreTrade for TLC. *)
EXTENDS ChoreTrade, TLC

CONSTANTS ann, bob, t1, t2, q1, q2, k1

\* Chores 1, 2 and 3, due on days 0, 1 and 0; ann has the odd ones.
DueSoon    == [c \in Chores |-> IF c = 2 THEN 1 ELSE 0]
OddAreAnns == [c \in Chores |-> IF c = 2 THEN bob ELSE ann]

Symmetry == Permutations(Trades)
=============================================================================
