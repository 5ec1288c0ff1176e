----------------------------- MODULE MCAccount -----------------------------
(* Account with three commands, two at a time, in any order and interleaving. *)
EXTENDS Account, TLC

Symmetry == Permutations(Procs)

\* Reports and commands on the pod meet in token.json only, where they take the same steps.
TwoMixes == {{"report", "login", "logout"}, {"register", "deregister"}}
=============================================================================
