------------------------------ MODULE RowLocks ------------------------------
(***************************************************************************)
(* Postgres' row locks, as the statements of this service meet them.  A    *)
(* lock is a row with the mode in which a transaction has it:              *)
(*   "share"   FOR KEY SHARE: the foreign key of another row refers to it, *)
(*   "update"  FOR NO KEY UPDATE: an UPDATE that leaves its keys alone,    *)
(*   "key"     FOR UPDATE: a DELETE, an INSERT, an UPDATE of a key.        *)
(* A transaction keeps its locks until it ends; one that waits in a cycle  *)
(* is made to fail.                                                        *)
(***************************************************************************)
EXTENDS FiniteSets

Modes == {"share", "update", "key"}

Lock(mode, row) == [mode |-> mode, row |-> row]
LocksOf(mode, rows) == {Lock(mode, row) : row \in rows}

Conflict(m, n) == "key" \in {m, n} \/ (m = "update" /\ n = "update")

(* Those who hold, in held, what keeps r from taking the lock l. *)
Holders(held, r, l) ==
  {q \in DOMAIN held \ {r} :
     \E k \in held[q] : k.row = l.row /\ Conflict(k.mode, l.mode)}

(* No two transactions have conflicting locks. *)
Exclusive(held) ==
  \A r \in DOMAIN held : \A l \in held[r] : Holders(held, r, l) = {}

(* r, which wants the locks want[r] in some order, can take none of them. *)
WaitsFor(held, want, r) ==
  IF \E l \in want[r] : Holders(held, r, l) = {} THEN {}
  ELSE UNION {Holders(held, r, l) : l \in want[r]}

Stuck(held, want, rs) ==
  rs # {} /\ \A r \in rs : WaitsFor(held, want, r) \cap rs # {}

(* A smallest set of transactions that wait for each other has r in it. *)
OnCycle(held, want, r) ==
  /\ WaitsFor(held, want, r) # {}
  /\ \E rs \in SUBSET DOMAIN held :
       /\ r \in rs /\ Stuck(held, want, rs)
       /\ \A ps \in SUBSET rs : Stuck(held, want, ps) => ps = rs

=============================================================================
