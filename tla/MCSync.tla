------------------------------- MODULE MCSync -------------------------------
(* Sync on a small instance. *)
EXTENDS Sync, TLC

Symmetry == Permutations(Callers)

(* The third token is for two callers who are refused at once. *)
ThirdTokenAfter401 == granted <= 2 \/ \E c \in Callers : http[c].again

=============================================================================
