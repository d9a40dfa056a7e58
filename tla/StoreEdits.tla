----------------------------- MODULE StoreEdits -----------------------------
(***************************************************************************)
(* The stores service: admins read a Store and edit it under the version   *)
(* they saw (UpdateStore, DeleteWifiWhitelistEntries, the two toggles of   *)
(* wifi_whitelist_enabled), while Store sync renames, creates and deletes  *)
(* Stores.                                                                 *)
(*                                                                         *)
(* Each of them is one transaction.  Its writes take effect in the action  *)
(* that commits it; until then the request's record holds the rows it has  *)
(* locked, and whoever needs them waits.  Postgres fails a transaction     *)
(* that waits in a cycle.  updated_at is now(), the start of the           *)
(* transaction that wrote it: transactions are numbered as they begin.     *)
(*                                                                         *)
(* The IP and the MAC whitelist are treated alike by every operation: one  *)
(* set of entries stands for both.                                         *)
(***************************************************************************)
EXTENDS Integers, FiniteSets

CONSTANTS
  OdooStores,       \* the ids of Stores in Odoo
  Names,            \* store_name
  Geofences,        \* latitude, longitude and radius, as one value
  Unset,            \* no geofence; in an edit, a field that is not sent
  Entries,          \* entries of a whitelist
  Requests,         \* the goroutines that serve requests or run a sync
  NoRow,            \* a Store that does not exist
  MaxId,            \* bound of the ids of Stores
  MaxTransactions   \* bound of the transactions that begin

ASSUME UnsetAssumption ==
  Unset \notin Geofences /\ \A es \in SUBSET Entries : Unset # es
ASSUME StoreBoundsAssumption ==
  /\ {MaxId, MaxTransactions} \subseteq Nat
  /\ IsFiniteSet(OdooStores) /\ Cardinality(OdooStores) <= MaxId

VARIABLES
  store,     \* tables store, store_wifi_ip and store_wifi_mac
  lastId,    \* the sequence of store.id
  started,   \* how many transactions have begun
  syncing,   \* syncGuard
  req,       \* what each request is doing
  used       \* history: the versions that were ever committed

vars == <<store, lastId, started, syncing, req, used>>

-----------------------------------------------------------------------------
Ids == 1 .. MaxId

Row ==
  [odoo    : OdooStores,
   name    : Names,
   geo     : Geofences \cup {Unset},
   enabled : BOOLEAN,            \* wifi_whitelist_enabled
   entries : SUBSET Entries,
   version : 0 .. MaxTransactions]

ASSUME NoStoreAssumption == NoRow \notin Row

Rows == {s \in Ids : store[s] # NoRow}

(* What Odoo answers: the Stores it knows, with their names. *)
Reports == UNION {[os -> Names] : os \in SUBSET OdooStores}

Edits ==
  [kind    : {"none", "patch", "cut", "toggle", "bulk", "sync"},
   geo     : Geofences \cup {Unset},
   entries : {Unset} \cup SUBSET Entries,
   enabled : BOOLEAN]

InTransaction == {"cas", "replace", "check", "cut", "bump", "lock", "upsert", "stale"}
InService == InTransaction \cup {"fetch"}

(* A request that an admin's client makes starts from the view the client  *)
(* has of the Stores it edits.                                             *)
Request ==
  [pc     : InService \cup {"idle", "reading", "seen"},
   view   : [Ids -> Row \cup {NoRow}],   \* NoRow: not seen
   edit   : Edits,
   report : Reports,
   began  : 0 .. MaxTransactions,   \* now() of the transaction
   want   : SUBSET Ids,             \* Stores whose row it has yet to lock
   holds  : SUBSET Ids,             \* Stores whose row it has locked
   cut    : SUBSET Entries]         \* entries whose row it has locked

NoView == [s \in Ids |-> NoRow]
NoReport == [os \in {} |-> os]
NoEdit == [kind |-> "none", geo |-> Unset, entries |-> Unset, enabled |-> FALSE]

Idle ==
  [pc |-> "idle", view |-> NoView, edit |-> NoEdit, report |-> NoReport,
   began |-> 0, want |-> {}, holds |-> {}, cut |-> {}]

(* Types, and the locks: a row that is locked is there until its lock is   *)
(* released, even if a sync deletes Stores, and one request has it.        *)
TypeOK ==
  /\ store \in [Ids -> Row \cup {NoRow}]
  /\ lastId \in 0 .. MaxId
  /\ \A s \in Rows : s <= lastId
  /\ started \in 0 .. MaxTransactions
  /\ syncing \in BOOLEAN
  /\ req \in [Requests -> Request]
  /\ \A r \in Requests : req[r].holds \subseteq Rows
  /\ \A r, q \in Requests : r # q => req[r].holds \cap req[q].holds = {}
  /\ used \subseteq 0 .. MaxTransactions

Created(os, name, v) ==
  [odoo |-> os, name |-> name, geo |-> Unset, enabled |-> TRUE,
   entries |-> {}, version |-> v]

(* The Stores that an earlier sync created; their whitelists are full. *)
Init ==
  /\ lastId = Cardinality(OdooStores)
  /\ \E odoo \in [1 .. lastId -> OdooStores], name \in Names :
       /\ \A s, o \in 1 .. lastId : odoo[s] = odoo[o] => s = o
       /\ store = [s \in Ids |->
            IF s <= lastId
            THEN [Created(odoo[s], name, 0) EXCEPT !.entries = Entries]
            ELSE NoRow]
  /\ started = 0
  /\ syncing = FALSE
  /\ req = [r \in Requests |-> Idle]
  /\ used = {0}

At(r, step) == req[r].pc = step
Becomes(r, q) == req' = [req EXCEPT ![r] = q]
Target(r) == {s \in Ids : req[r].view[s] # NoRow}

(* Mutated: a connection is given back with its transaction still open. *)
EndLeavesLocks(r) ==
  /\ Becomes(r, [Idle EXCEPT !.holds = req[r].holds])
  /\ syncing' = (syncing /\ req[r].edit.kind # "sync")

(* The handler, or the goroutine of the sync, ends: the transaction is     *)
(* over, the deferred Finish gives the guard back.                         *)
End(r) ==
  /\ Becomes(r, Idle)
  /\ syncing' = (syncing /\ req[r].edit.kind # "sync")

RollBack(r) == End(r) /\ UNCHANGED <<store, lastId, started, used>>

Commit(r, new) ==
  /\ store' = new
  /\ used' = used \cup {req[r].began}
  /\ End(r)

RowLocked(r, s) == \E q \in Requests \ {r} : s \in req[q].holds
EntriesLocked(r, s, es) ==
  \E q \in Requests \ {r} : req[q].cut \cap es # {} /\ s \in Target(q)

(* The row is there, with the version that the client saw. *)
Current(r, s) == store[s] # NoRow /\ store[s].version = req[r].view[s].version


-----------------------------------------------------------------------------
(* What an admin's client sees *)

(* ListStores: one statement, rows and whitelists. *)
ReadList(r, ss) ==
  /\ At(r, "idle")
  /\ ss # {} /\ ss \subseteq Rows
  /\ Becomes(r, [Idle EXCEPT !.pc = "seen", !.view = [s \in Ids |->
       IF s \in ss THEN store[s] ELSE NoRow]])
  /\ UNCHANGED <<store, lastId, started, syncing, used>>

(* GetStoreByID: the row first, in a statement of its own... *)
ReadRow(r, s) ==
  /\ At(r, "idle")
  /\ s \in Rows
  /\ Becomes(r, [Idle EXCEPT !.pc = "reading", !.view[s] = store[s]])
  /\ UNCHANGED <<store, lastId, started, syncing, used>>

(* ... then the whitelist, empty by now if the Store is gone. *)
ReadEntries(r) ==
  /\ At(r, "reading")
  /\ Becomes(r, [req[r] EXCEPT
       !.pc = "seen",
       !.view = [s \in Ids |->
         IF s \notin Target(r) THEN NoRow
         ELSE [@[s] EXCEPT !.entries = IF store[s] = NoRow THEN {} ELSE store[s].entries]]])
  /\ UNCHANGED <<store, lastId, started, syncing, used>>

(* The client leaves the page. *)
Forget(r) == At(r, "seen") /\ RollBack(r)

(* A request of the client begins its transaction. *)
Begin(r, step, edit, want) ==
  /\ At(r, "seen")
  /\ started < MaxTransactions
  /\ started' = started + 1
  /\ Becomes(r, [req[r] EXCEPT !.pc = step, !.edit = edit, !.began = started', !.want = want])
  /\ UNCHANGED <<store, lastId, syncing, used>>

OneTarget(r) == Cardinality(Target(r)) = 1

-----------------------------------------------------------------------------
(* UpdateStore *)

PatchBegin(r) ==
  /\ OneTarget(r)
  /\ \E g \in Geofences \cup {Unset}, es \in {Unset} \cup SUBSET Entries :
       Begin(r, "cas", [NoEdit EXCEPT !.kind = "patch", !.geo = g, !.entries = es], {})

(* UpdateStoreGeofence waits for the row, then takes it as it is by then. *)
CasPatch(r) ==
  /\ At(r, "cas") /\ req[r].edit.kind = "patch"
  /\ \E s \in Target(r) :
       /\ ~RowLocked(r, s)
       /\ \/ /\ Current(r, s)
             /\ Becomes(r, [req[r] EXCEPT !.pc = "replace", !.holds = {s}])
             /\ UNCHANGED <<store, lastId, started, syncing, used>>
          \/ ~Current(r, s) /\ RollBack(r)

(* A field that is not sent keeps its value. *)
Patched(r, s) ==
  LET e == req[r].edit IN
  [store[s] EXCEPT
     !.geo = IF e.geo = Unset THEN @ ELSE e.geo,
     !.entries = IF e.entries = Unset THEN @ ELSE e.entries,
     !.version = req[r].began]

(* DiffReplace touches every entry there is: it waits for the deleted ones. *)
PatchCommit(r) ==
  /\ At(r, "replace")
  /\ \E s \in Target(r) :
       /\ req[r].edit.entries = Unset \/ ~EntriesLocked(r, s, Entries)
       /\ Commit(r, [store EXCEPT ![s] = Patched(r, s)])
  /\ UNCHANGED <<lastId, started>>

-----------------------------------------------------------------------------
(* DeleteWifiWhitelistEntries *)

CutBegin(r) ==
  /\ OneTarget(r)
  /\ \E es \in SUBSET Entries \ {{}} :
       Begin(r, "check", [NoEdit EXCEPT !.kind = "cut", !.entries = es], {})

(* The version is compared on a row that is read, not locked. *)
Check(r) ==
  /\ At(r, "check")
  /\ \E s \in Target(r) :
       \/ /\ Current(r, s)
          /\ Becomes(r, [req[r] EXCEPT !.pc = "cut"])
          /\ UNCHANGED <<store, lastId, started, syncing, used>>
       \/ ~Current(r, s) /\ RollBack(r)

Cut(r) ==
  /\ At(r, "cut")
  /\ \E s \in Target(r) :
       LET found == IF store[s] = NoRow THEN {}
                    ELSE req[r].edit.entries \cap store[s].entries IN
       /\ ~EntriesLocked(r, s, found)
       /\ \/ /\ found # {}
             /\ Becomes(r, [req[r] EXCEPT !.pc = "bump", !.cut = found])
             /\ UNCHANGED <<store, lastId, started, syncing, used>>
          \/ found = {} /\ RollBack(r)

CutCommit(r, s) ==
  /\ Commit(r, [store EXCEPT ![s].entries = @ \ req[r].cut, ![s].version = req[r].began])
  /\ UNCHANGED <<lastId, started>>

(* Mutated: the version is bumped, and not compared a second time. *)
BumpUnchecked(r) ==
  /\ At(r, "bump")
  /\ \E s \in Target(r) :
       /\ ~RowLocked(r, s)
       /\ \/ store[s] # NoRow /\ CutCommit(r, s)
          \/ store[s] = NoRow /\ RollBack(r)

(* Only now the row is locked, and the version compared again. *)
Bump(r) ==
  /\ At(r, "bump")
  /\ \E s \in Target(r) :
       /\ ~RowLocked(r, s)
       /\ \/ Current(r, s) /\ CutCommit(r, s)
          \/ ~Current(r, s) /\ RollBack(r)

-----------------------------------------------------------------------------
(* SetStoreWifiWhitelistEnabled and BulkSetWifiWhitelistEnabled *)

ToggleBegin(r) ==
  /\ OneTarget(r)
  /\ \E on \in BOOLEAN :
       Begin(r, "cas", [NoEdit EXCEPT !.kind = "toggle", !.enabled = on], {})

Toggled(r) ==
  [s \in Ids |->
     IF s \in Target(r)
     THEN [store[s] EXCEPT !.enabled = req[r].edit.enabled, !.version = req[r].began]
     ELSE store[s]]

ToggleCommit(r) ==
  /\ At(r, "cas") /\ req[r].edit.kind = "toggle"
  /\ \A s \in Target(r) : ~RowLocked(r, s)
  /\ \/ /\ \A s \in Target(r) : Current(r, s)
        /\ Commit(r, Toggled(r))
        /\ UNCHANGED <<lastId, started>>
     \/ /\ \E s \in Target(r) : ~Current(r, s)
        /\ RollBack(r)

BulkBegin(r) ==
  \E on \in BOOLEAN :
    Begin(r, "lock", [NoEdit EXCEPT !.kind = "bulk", !.enabled = on], Target(r))

(* Mutated: the ids asked for are taken for the rows that were locked. *)
LockRowGone(r) ==
  /\ req[r].pc \in {"lock", "upsert", "stale"}
  /\ \E s \in req[r].want :
       /\ ~RowLocked(r, s)
       /\ Becomes(r, [req[r] EXCEPT !.want = @ \ {s}, !.holds = @ \cup {s}])
  /\ UNCHANGED <<store, lastId, started, syncing, used>>

(* A statement locks the rows it wants one by one, in no particular order; *)
(* a row that was deleted meanwhile is not there to lock.                  *)
LockRow(r) ==
  /\ req[r].pc \in {"lock", "upsert", "stale"}
  /\ \E s \in req[r].want :
       /\ ~RowLocked(r, s)
       /\ Becomes(r, [req[r] EXCEPT
            !.want = @ \ {s},
            !.holds = IF store[s] = NoRow THEN @ ELSE @ \cup {s}])
  /\ UNCHANGED <<store, lastId, started, syncing, used>>

(* All or nothing. *)
BulkCommit(r) ==
  /\ At(r, "lock") /\ req[r].want = {}
  /\ \/ /\ \A s \in Target(r) : Current(r, s)
        /\ Commit(r, Toggled(r))
        /\ UNCHANGED <<lastId, started>>
     \/ /\ \E s \in Target(r) : ~Current(r, s)
        /\ RollBack(r)

-----------------------------------------------------------------------------
(* SyncStores and runSync *)

SyncStart(r) ==
  /\ At(r, "idle")
  /\ ~syncing
  /\ syncing' = TRUE
  /\ Becomes(r, [Idle EXCEPT !.pc = "fetch", !.edit = [NoEdit EXCEPT !.kind = "sync"]])
  /\ UNCHANGED <<store, lastId, started, used>>

Known == {store[s].odoo : s \in Rows}
Stale(report) == {s \in Rows : store[s].odoo \notin DOMAIN report}
New(report) == DOMAIN report \ Known

(* Mutated: the guard is not given back when Odoo does not answer. *)
FetchFailsHoldingGuard(r) ==
  /\ At(r, "fetch")
  /\ Becomes(r, Idle)
  /\ UNCHANGED <<store, lastId, started, syncing, used>>

FetchFails(r) == At(r, "fetch") /\ RollBack(r)

(* Odoo answers, and the transaction begins. *)
Fetch(r) ==
  /\ At(r, "fetch")
  /\ started < MaxTransactions
  /\ started' = started + 1
  /\ \E report \in Reports :
       /\ lastId + Cardinality(New(report)) <= MaxId
       /\ Becomes(r, [req[r] EXCEPT
            !.pc = "upsert", !.report = report, !.began = started',
            !.want = Rows \ Stale(report)])
  /\ UNCHANGED <<store, lastId, syncing, used>>

(* UpsertStores is done: FindStoresNotInOdoo. *)
SyncStale(r) ==
  /\ At(r, "upsert") /\ req[r].want = {}
  /\ Becomes(r, [req[r] EXCEPT !.pc = "stale", !.want = Stale(req[r].report)])
  /\ UNCHANGED <<store, lastId, started, syncing, used>>

(* Mutated: updated_at does not advance with the name. *)
RenamedQuietly(r, s) == [store[s] EXCEPT !.name = req[r].report[store[s].odoo]]

Renamed(r, s) ==
  LET name == req[r].report[store[s].odoo] IN
  IF name = store[s].name THEN store[s]
  ELSE [store[s] EXCEPT !.name = name, !.version = req[r].began]

(* The ids of the Stores that the upsert inserts. *)
Inserted(report) == lastId + 1 .. lastId + Cardinality(New(report))

(* DeleteStores, whose cascade waits for entries being deleted; commit. *)
SyncCommit(r) ==
  LET report == req[r].report
      stale == Stale(report) IN
  /\ At(r, "stale") /\ req[r].want = {}
  /\ \A s \in stale : ~EntriesLocked(r, s, Entries)
  /\ \E odoo \in [Inserted(report) -> New(report)] :
       /\ \A os \in New(report) : \E s \in DOMAIN odoo : odoo[s] = os
       /\ Commit(r, [s \in Ids |->
            IF s \in DOMAIN odoo THEN Created(odoo[s], report[odoo[s]], req[r].began)
            ELSE IF s \in Rows \ stale THEN Renamed(r, s)
            ELSE NoRow])
  /\ lastId' = lastId + Cardinality(New(report))
  /\ UNCHANGED started

-----------------------------------------------------------------------------
(* Failures *)

(* The client hangs up, the sync runs into its timeout, the database fails. *)
Abort(r) == req[r].pc \in InTransaction /\ RollBack(r)

(* The requests whose locks r cannot go on without. *)
Holding(ss) == {q \in Requests : req[q].holds \cap ss # {}}
Cutting(ss) == {q \in Requests : req[q].cut # {} /\ Target(q) \cap ss # {}}

WaitsFor(r) ==
  LET pc == req[r].pc
      want == req[r].want IN
  CASE pc \in {"cas", "bump"} -> Holding(Target(r)) \ {r}
    [] pc = "replace" /\ req[r].edit.entries # Unset -> Cutting(Target(r)) \ {r}
    [] pc = "cut" ->
         {q \in Cutting(Target(r)) \ {r} : req[q].cut \cap req[r].edit.entries # {}}
    [] want # {} /\ \A s \in want : RowLocked(r, s) -> Holding(want) \ {r}
    [] pc = "stale" /\ want = {} -> Cutting(Stale(req[r].report)) \ {r}
    [] OTHER -> {}

Stuck(qs) == qs # {} /\ \A q \in qs : WaitsFor(q) \cap qs # {}

OnCycle(r) ==
  \E qs \in SUBSET Requests :
    r \in qs /\ Stuck(qs) /\ \A ps \in SUBSET qs : Stuck(ps) => ps = qs

(* Postgres finds the cycle and fails one of its transactions. *)
DeadlockVictim(r) == OnCycle(r) /\ RollBack(r)

-----------------------------------------------------------------------------
Client(r) ==
  \/ \E ss \in SUBSET Ids : ReadList(r, ss)
  \/ \E s \in Ids : ReadRow(r, s)
  \/ ReadEntries(r)
  \/ Forget(r)
  \/ PatchBegin(r) \/ CutBegin(r) \/ ToggleBegin(r) \/ BulkBegin(r)
  \/ SyncStart(r)

(* The statements of a request that has begun. *)
Progress(r) ==
  \/ CasPatch(r) \/ PatchCommit(r)
  \/ Check(r) \/ Cut(r) \/ Bump(r)
  \/ ToggleCommit(r) \/ LockRow(r) \/ BulkCommit(r)
  \/ Fetch(r) \/ FetchFails(r) \/ SyncStale(r) \/ SyncCommit(r)

Next ==
  \E r \in Requests : Client(r) \/ Progress(r) \/ Abort(r) \/ DeadlockVictim(r)

Spec == Init /\ [][Next]_vars

(* The scheduler runs every goroutine, a lock goes to whoever queues for    *)
(* it, and the deadlock detector looks at every wait that lasts.           *)
FairSpec ==
  /\ Spec
  /\ \A r \in Requests : SF_vars(Progress(r) \/ DeadlockVictim(r))

-----------------------------------------------------------------------------
(* An edit that commits replaces just what its admin had seen: every Store *)
(* it edits is then, row and whitelist, still as the client read it.  (The *)
(* optimistic lock on updated_at, with GetStoreByID's two statements, the  *)
(* delete's late bump and sync's renaming all in play.)                    *)
NoLostEdit ==
  [][\A r \in Requests :
       /\ req[r].edit.kind \in {"patch", "cut", "toggle", "bulk"}
       /\ req[r].began \in used' \ used
       => \A s \in Target(r) : store[s] = req[r].view[s]]_vars

(* updated_at is a version of the Store (VersionedStores): nothing of it   *)
(* changes without a version that no Store had before, and sync never      *)
(* brings a deleted id back.                                               *)
Versioned == INSTANCE VersionedStores WITH
  doc <- store, created <- 1 .. lastId, Versions <- 0 .. MaxTransactions

ImplementsVersions == Versioned!Spec

(* Every request ends, whatever rows and entries the others lock, in an    *)
(* order of their own: no transaction is left open, no wait is for ever.   *)
EveryRequestEnds ==
  \A r \in Requests : req[r].pc \in InService ~> req[r].pc \notin InService

(* The guard of Store sync comes back: after a sync that fails, whether in *)
(* Odoo or in the database, the next one can be started.                   *)
GuardReleased == syncing ~> ~syncing

=============================================================================
