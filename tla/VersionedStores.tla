--------------------------- MODULE VersionedStores ---------------------------
(***************************************************************************)
(* What the optimistic lock of the stores service promises to an admin who *)
(* edits a Store: its updated_at is a version of the whole Store, row and  *)
(* whitelist.  Nothing of a Store changes without a new version, a version *)
(* is never used a second time, and a Store that is gone stays gone.       *)
(***************************************************************************)
CONSTANTS
  Ids,        \* ids of Stores
  Versions,   \* values of updated_at
  NoRow       \* a Store that does not exist

VARIABLES
  doc,        \* the rows, whose field version is the version
  used,       \* the versions that were ever given to a Store
  created     \* the Stores that ever existed

vars == <<doc, used, created>>

Exist(d) == {s \in Ids : d[s] # NoRow}

Init ==
  /\ used \subseteq Versions
  /\ created = Exist(doc)
  /\ \A s \in created : doc[s].version \in used

(* One commit: the Stores it writes or creates get its version. *)
Commit(v) ==
  /\ v \notin used
  /\ used' = used \cup {v}
  /\ created' = created \cup Exist(doc')
  /\ \A s \in Ids :
       \/ doc'[s] = doc[s]
       \/ doc'[s] = NoRow
       \/ doc'[s].version = v /\ (doc[s] # NoRow \/ s \notin created)

Next == \E v \in Versions : Commit(v)

Spec == Init /\ [][Next]_vars

=============================================================================
