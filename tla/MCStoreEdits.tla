---------------------------- MODULE MCStoreEdits ----------------------------
(* StoreEdits on small instances. *)
EXTENDS StoreEdits, TLC

CONSTANTS o1, o2, n1, n2, g1, w1, r1, r2

(* Requests, Stores in Odoo and names are interchangeable. *)
Symmetry ==
  Permutations(Requests) \cup Permutations(OdooStores) \cup Permutations(Names)

=============================================================================
