---------------------------- MODULE MCPodSession ----------------------------
(* A small instance of PodSession: three commands, one with a deadline. *)
EXTENDS PodSession

CONSTANTS c1, c2, c3

Two   == {c1, c2}
Three == {c1, c2, c3}
Timed1 == {c1}
=============================================================================
