---------------------------- MODULE MCDiscovery ----------------------------
(* Discovery with two pods, ports and LAN addresses, which are alike. *)
EXTENDS Discovery, TLC

Symmetry == {f @@ g @@ h : f \in Permutations(Pods), g \in Permutations(Paths), h \in Permutations(Addrs)}
=============================================================================
