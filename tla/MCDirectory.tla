---------------------------- MODULE MCDirectory ----------------------------
(* Directory on small instances. *)
EXTENDS Directory, TLC

CONSTANTS c1, c2, o1, o2, o3

Symmetry == Permutations(Calls) \cup Permutations(OdooIds)

=============================================================================
