----------------------------- MODULE MCKnownPods -----------------------------
(* KnownPods with two processes, one command in each. *)
EXTENDS KnownPods, TLC

CONSTANTS t1, t2, p1, p2, c1, c2

TwoThreads == {t1, t2}
TwoPods    == {p1, p2}
TwoCerts   == {c1, c2}
Symmetry   == Permutations(TwoThreads) \cup Permutations(TwoPods) \cup Permutations(TwoCerts)
=============================================================================
