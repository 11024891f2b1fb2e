------------------------------- MODULE MCDevHub -------------------------------
(* DevHub on two apps, with the names of its apps and servers.               *)
EXTENDS DevHub, TLC

CONSTANTS a1, a2, v1, v2

Symmetry == Permutations(Server)

=============================================================================
