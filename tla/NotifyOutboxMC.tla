--------------------------- MODULE NotifyOutboxMC ----------------------------
(* Small instances of NotifyOutbox for TLC. *)
EXTENDS NotifyOutbox, TLC

CONSTANTS ann, n1, n2, p1, p2, s1, s2

\* A day of three hours: quiet overnight, or for the hour at noon.
Night       == [start |-> 2, end |-> 1]
Noon        == [start |-> 1, end |-> 2]
NightOrNoon == {Night, Noon}
JustNight   == {Night}

\* RetryMaxAttempts as configured, sesRetryMaxAttempts.
ThreeEach == [c \in Optional |-> 3]
TwoEach   == [c \in Optional |-> 2]

Symmetry == Permutations(Notes) \cup Permutations(Phones) \cup Permutations(Servers)
=============================================================================
