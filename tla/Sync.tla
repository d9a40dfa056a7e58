-------------------------------- MODULE Sync --------------------------------
(***************************************************************************)
(* Employee sync and Store sync, which run side by side in goroutines of   *)
(* their own and share the Odoo client (OdooClient), the stores that one   *)
(* deletes and the other refers to, and employee_stores, which only they   *)
(* write.                                                                  *)
(*                                                                         *)
(* A transaction's writes take effect in the action that commits it; until *)
(* then its run holds the rows it has locked (RowLocks).  What admins do   *)
(* to Employees meanwhile is one action each here, see Directory.  What    *)
(* they do to Stores, and the name and the version of a Store, are in      *)
(* StoreEdits.                                                             *)
(***************************************************************************)
EXTENDS OdooClient, RowLocks, FiniteSetsExt

CONSTANTS
  OdooEmployees,   \* odoo_employee_id
  OdooStores,      \* odoo_store_id
  NoRow,           \* an Employee or a Store that does not exist
  BatchSize,       \* employeeSyncBatchSize
  MaxEmployees,    \* the ids of Employees, who are there at first
  Edited,          \* the Employees that admins edit
  MaxStores,       \* bound of the ids of Stores
  MaxRuns,         \* bound of the runs that are started
  MaxEdits         \* bound of what admins do to Employees

ASSUME SyncAssumption ==
  /\ BatchSize \in Nat \ {0}
  /\ {MaxEmployees, MaxStores, MaxRuns, MaxEdits} \subseteq Nat
  /\ 1 .. MaxEmployees \subseteq OdooEmployees /\ Edited \subseteq 1 .. MaxEmployees
  /\ IsFiniteSet(OdooStores) /\ OdooStores = 1 .. Cardinality(OdooStores)
  /\ Cardinality(OdooStores) <= MaxStores

VARIABLES
  employee,    \* table employees: the Odoo id of each
  store,       \* table store: the Odoo id of each
  lastStore,   \* the sequence of store.id
  member,      \* table employee_stores
  guard,       \* the syncGuard of each service
  run,         \* what each goroutine is doing
  started,     \* how many runs were started
  edits,       \* how many edits of Employees were made
  told         \* history: the Stores that the last sync of an Employee had for it

tables == <<employee, store, lastStore, member, told, edits>>
vars == <<clientVars, tables, guard, run, started>>

-----------------------------------------------------------------------------
EmployeeIds == 1 .. MaxEmployees
StoreIds == 1 .. MaxStores
Pairs == EmployeeIds \X StoreIds

ASSUME NoRowAssumption == NoRow \notin OdooEmployees \cup OdooStores

Employees == {e \in EmployeeIds : employee[e] # NoRow}
Stores == {s \in StoreIds : store[s] # NoRow}

E(e) == <<"employee", e>>
S(s) == <<"store", s>>
M(pair) == <<"member", pair>>

Rows ==
  {E(e) : e \in EmployeeIds} \cup {S(s) : s \in StoreIds} \cup {M(pair) : pair \in Pairs}

Kinds == {"employees", "stores"}
Somes(from, to) == UNION {[some -> to] : some \in SUBSET from}

(* What a goroutine knows of its run. *)
Run(r) ==
  /\ r.pc \in {"idle", "ids", "next", "fetch", "upsert", "resolve", "each", "delete",
               "insert", "keys", "rows", "cascade"}
  /\ r.kind \in Kinds \cup {"none"}
  /\ r.asked \subseteq EmployeeIds          \* SyncEmployees: its ids
  /\ r.ids \subseteq OdooEmployees          \* those of the batches to come, in Odoo
  /\ r.batch \subseteq OdooEmployees
  /\ DOMAIN r.found \subseteq OdooEmployees   \* what Odoo has of the batch, with its Stores
  /\ \A o \in DOMAIN r.found : r.found[o] \subseteq OdooStores
  /\ DOMAIN r.todo \subseteq EmployeeIds    \* the same as ours: Odoo's Stores, then our ids
  /\ \A e \in DOMAIN r.todo : r.todo[e] \subseteq OdooStores \cup StoreIds
  /\ r.e \in EmployeeIds \cup {0}           \* the one in its transaction
  /\ r.report \subseteq OdooStores          \* Odoo's Stores
  /\ \A l \in r.locks \cup r.want : l.mode \in Modes /\ l.row \in Rows

Nothing == [x \in {} |-> x]
Idle ==
  [pc |-> "idle", kind |-> "none", asked |-> {}, ids |-> {}, batch |-> {}, found |-> Nothing,
   todo |-> Nothing, e |-> 0, report |-> {}, locks |-> {}, want |-> {}]

Held == [g \in Callers |-> run[g].locks]
Wanted == [g \in Callers |-> run[g].want]

(* Types; the foreign keys and unique columns; the locks; a goroutine       *)
(* has a call under way when it waits for one.                             *)
TypeOK ==
  /\ ClientTypeOK
  /\ employee \in [EmployeeIds -> OdooEmployees \cup {NoRow}]
  /\ store \in [StoreIds -> OdooStores \cup {NoRow}]
  /\ lastStore \in 0 .. MaxStores /\ \A s \in Stores : s <= lastStore
  /\ member \subseteq Employees \X Stores
  /\ \A e, f \in Employees : employee[e] = employee[f] => e = f
  /\ \A s, t \in Stores : store[s] = store[t] => s = t
  /\ guard \in [Kinds -> BOOLEAN]
  /\ DOMAIN run = Callers /\ \A g \in Callers : Run(run[g])
  /\ \A g \in Callers : (http[g].pc # "none") <=> (run[g].pc = "fetch")
  /\ Exclusive(Held)
  /\ started \in 0 .. MaxRuns /\ edits \in 0 .. MaxEdits
  /\ told \in [EmployeeIds -> SUBSET StoreIds]

(* Employees that admins have created, and the Stores and the memberships   *)
(* of an earlier sync.  Ids of Odoo's are as good as any.                  *)
Init ==
  /\ ClientInit
  /\ employee = [e \in EmployeeIds |-> e]
  /\ store = [s \in StoreIds |-> IF s \in OdooStores THEN s ELSE NoRow]
  /\ lastStore = Cardinality(OdooStores)
  /\ member = EmployeeIds \X OdooStores
  /\ told = [e \in EmployeeIds |-> OdooStores]
  /\ guard = [k \in Kinds |-> FALSE]
  /\ run = [g \in Callers |-> Idle]
  /\ started = 0 /\ edits = 0

-----------------------------------------------------------------------------
At(g, step, kind) == run[g].pc = step /\ run[g].kind = kind
Becomes(g, r) == run' = [run EXCEPT ![g] = r]
Moves(g, r) == Becomes(g, r) /\ UNCHANGED <<clientVars, tables, guard, started>>

(* The next statement starts: it wants these locks. *)
Goes(g, step, locks) == Moves(g, [run[g] EXCEPT !.pc = step, !.want = locks])

Ready(g, step, kind) == At(g, step, kind) /\ run[g].want = {}
HasRow(g, row) == \E l \in run[g].locks : l.row = row

(* What the lock l comes to once nobody is in the way: an INSERT locks what *)
(* is not there yet, the others what is still there.                       *)
Taken(g, l) ==
  LET there == CASE l.row[1] = "employee" -> l.row[2] \in Employees
                 [] l.row[1] = "store" -> l.row[2] \in Stores
                 [] l.row[1] = "member" -> l.row[2] \in member IN
  IF there = (run[g].pc = "insert") THEN {} ELSE {l}

Take(g) ==
  \E l \in run[g].want :
    /\ Holders(Held, g, l) = {}
    /\ Moves(g, [run[g] EXCEPT !.want = @ \ {l}, !.locks = @ \cup Taken(g, l)])

(* Guard.TryStart; a request that comes while a run is under way is turned  *)
(* down.                                                                   *)
TryStart(kind) == ~guard[kind] /\ guard' = [guard EXCEPT ![kind] = TRUE]

Start(g, r) ==
  /\ run[g].pc = "idle" /\ started < MaxRuns
  /\ TryStart(r.kind)
  /\ started' = started + 1
  /\ Becomes(g, r)
  /\ UNCHANGED tables

(* The run ends: its transaction is over, Guard.Finish is deferred. *)
Finish(g) ==
  /\ guard' = [guard EXCEPT ![run[g].kind] = FALSE]
  /\ Becomes(g, Idle)
  /\ UNCHANGED started

Fail(g) == Finish(g) /\ UNCHANGED <<clientVars, tables>>

(* A call of the Odoo client begins, goes on, is answered or fails. *)
HTTPBecomes(g, r) ==
  /\ CallGoes(g, r)
  /\ UNCHANGED <<accessToken, fresh, refreshMu, granted, live, renewed>>

CallBegins(g) == HTTPBecomes(g, [NoCall EXCEPT !.pc = "cache"])

CallGoesOn(g) == CallNext(g) /\ UNCHANGED <<tables, guard, run, started>>

Answer(g, r) ==
  /\ CallAt(g, "answered") /\ HTTPBecomes(g, NoCall)
  /\ Becomes(g, r) /\ UNCHANGED <<tables, guard, started>>

FetchFails(g) ==
  /\ CallAt(g, "failed") /\ HTTPBecomes(g, NoCall)
  /\ Finish(g) /\ UNCHANGED tables

-----------------------------------------------------------------------------
(* SyncEmployees, and its goroutine runSync *)

SyncEmployees(g) ==
  /\ \E ids \in SUBSET EmployeeIds \ {{}} :
       Start(g, [Idle EXCEPT !.pc = "ids", !.kind = "employees", !.asked = ids])
  /\ UNCHANGED clientVars

(* Mutated: an error of ListEmployeeIDsByIDs returns without Finish. *)
ListIdsNoFinish(g) ==
  /\ At(g, "ids", "employees")
  /\ Moves(g, Idle)

(* ListEmployeeIDsByIDs; if it fails, the handler gives the guard back. *)
ListIds(g) ==
  /\ At(g, "ids", "employees")
  /\ \/ Moves(g, [run[g] EXCEPT !.pc = "next", !.asked = {},
                    !.ids = {employee[e] : e \in run[g].asked \cap Employees}])
     \/ Fail(g)

(* Fetch the next batch, in the order in which the ids happened to come. *)
NextBatch(g) ==
  LET ids == run[g].ids IN
  /\ At(g, "next", "employees")
  /\ \/ ids = {} /\ Fail(g)   \* nothing went wrong: the run is complete
     \/ /\ \E batch \in SUBSET ids :
             /\ Cardinality(batch) = Min({BatchSize, Cardinality(ids)})
             /\ Becomes(g, [run[g] EXCEPT !.pc = "fetch", !.ids = @ \ batch, !.batch = batch])
        /\ ids # {} /\ CallBegins(g)
        /\ UNCHANGED <<tables, guard, started>>

(* FetchEmployeesByOdooEmployeeIDs: those of the batch that Odoo knows. *)
Fetched(g) ==
  /\ At(g, "fetch", "employees")
  /\ \E found \in Somes(run[g].batch, SUBSET OdooStores) :
       Answer(g, [run[g] EXCEPT !.pc = IF DOMAIN found = {} THEN "next" ELSE "upsert",
                                !.batch = {}, !.found = found])

(* UpsertEmployees updates, and returns, whoever has the Odoo ids by now;   *)
(* if it fails (an email is taken), the run is over.                       *)
Upsert(g) ==
  LET found == run[g].found
      rows == {e \in Employees : employee[e] \in DOMAIN found} IN
  /\ At(g, "upsert", "employees")
  /\ \/ Moves(g, [run[g] EXCEPT !.pc = "resolve", !.found = Nothing,
                    !.todo = [e \in rows |-> found[employee[e]]]])
     \/ Fail(g)

(* syncEmployeeStores: ListStoresByOdooStoreIDs resolves the Stores that    *)
(* there are; if it fails, the batch keeps its memberships.                *)
Resolve(g) ==
  /\ At(g, "resolve", "employees")
  /\ \/ Moves(g, [run[g] EXCEPT !.pc = "each",
                    !.todo = [e \in DOMAIN @ |-> {s \in Stores : store[s] \in @[e]}]])
     \/ /\ \E e \in DOMAIN run[g].todo : run[g].todo[e] # {}
        /\ Moves(g, [run[g] EXCEPT !.pc = "next", !.todo = Nothing])

Members(g) == {run[g].e} \X run[g].todo[run[g].e]
Goners(g) == {pair \in member : HasRow(g, M(pair))}
Comers(g) == {pair \in Pairs \ member : HasRow(g, M(pair))}

(* One transaction per Employee: DeleteEmployeeStoresNotIn ... *)
NextEmployee(g) ==
  /\ At(g, "each", "employees")
  /\ \/ /\ DOMAIN run[g].todo = {}
        /\ Moves(g, [run[g] EXCEPT !.pc = "next"])
     \/ \E e \in DOMAIN run[g].todo :
          Moves(g, [run[g] EXCEPT !.pc = "delete", !.e = e,
            !.want = LocksOf("key", {M(pair) : pair \in
                       {p \in member : p[1] = e /\ p[2] \notin run[g].todo[e]}})])

(* Mutated: the DELETE is not in the INSERT's transaction. *)
InsertMembersAlone(g) ==
  /\ Ready(g, "delete", "employees")
  /\ member' = {pair \in member : ~HasRow(g, M(pair))}
  /\ Becomes(g, [run[g] EXCEPT !.pc = "insert", !.locks = {},
                   !.want = LocksOf("key", {M(pair) : pair \in Members(g)})])
  /\ UNCHANGED <<clientVars, employee, store, lastStore, told, edits, guard, started>>

(* ... then InsertEmployeeStores ... *)
InsertMembers(g) ==
  /\ Ready(g, "delete", "employees")
  /\ Goes(g, "insert", LocksOf("key", {M(pair) : pair \in Members(g)}))

(* ... whose foreign keys refer to the Employee and the Stores. *)
CheckKeys(g) ==
  /\ Ready(g, "insert", "employees")
  /\ Goes(g, "keys", LocksOf("share",
       UNION {{E(pair[1]), S(pair[2])} : pair \in Comers(g)}))

(* Mutated: employee_stores has no foreign keys. *)
KeysUnchecked(g) == TRUE

KeysHold(g) == \A pair \in Comers(g) : HasRow(g, E(pair[1])) /\ HasRow(g, S(pair[2]))

(* This Employee's transaction is over; so much for it, whatever came of it. *)
AfterEmployee(g) ==
  [run[g] EXCEPT !.pc = "each", !.e = 0, !.locks = {}, !.want = {},
     !.todo = [e \in DOMAIN @ \ {run[g].e} |-> @[e]]]

SkipEmployee(g) == run[g].e # 0 /\ Moves(g, AfterEmployee(g))

(* A foreign key that does not hold fails the transaction. *)
KeysFail(g) == Ready(g, "keys", "employees") /\ ~KeysHold(g) /\ SkipEmployee(g)

MembersCommit(g) ==
  /\ Ready(g, "keys", "employees") /\ KeysHold(g)
  /\ member' = (member \ Goners(g)) \cup Comers(g)
  /\ told' = [told EXCEPT ![run[g].e] = run[g].todo[run[g].e]]
  /\ Becomes(g, AfterEmployee(g))
  /\ UNCHANGED <<clientVars, employee, store, lastStore, edits, guard, started>>

-----------------------------------------------------------------------------
(* SyncStores, and its goroutine runSync *)

SyncStores(g) ==
  /\ Start(g, [Idle EXCEPT !.pc = "fetch", !.kind = "stores"])
  /\ CallBegins(g)

Known == {store[s] : s \in Stores}
StaleFor(report) == {s \in Stores : store[s] \notin report}
Stale(g) == StaleFor(run[g].report)

(* FetchStores, UpsertStores, FindStoresNotInOdoo (nobody else changes what *)
(* they see); then DeleteStores locks what was found ...  The bound leaves *)
(* an id for every Store that is new.                                      *)
StoresFetched(g) ==
  /\ At(g, "fetch", "stores")
  /\ \E report \in SUBSET OdooStores :
       /\ lastStore + Cardinality(report \ Known) <= MaxStores
       /\ Answer(g, [run[g] EXCEPT !.pc = "rows", !.report = report,
                       !.want = LocksOf("key", {S(s) : s \in StaleFor(report)})])

(* ... and what refers to it goes with it. *)
CascadeStores(g) ==
  /\ Ready(g, "rows", "stores")
  /\ Goes(g, "cascade", LocksOf("key", {M(pair) : pair \in
       {p \in member : p[2] \in Stale(g)}}))

(* The Stores that were new to UpsertStores get the next ids. *)
StoresCommit(g) ==
  LET new == run[g].report \ Known IN
  /\ Ready(g, "cascade", "stores")
  /\ \E nth \in [new -> 1 .. Cardinality(new)] :
       /\ \A o, p \in new : nth[o] = nth[p] => o = p
       /\ lastStore' = lastStore + Cardinality(new)
       /\ store' = [s \in StoreIds |->
            IF s \in Stale(g) THEN NoRow
            ELSE IF \E o \in new : s = lastStore + nth[o]
                 THEN CHOOSE o \in new : s = lastStore + nth[o]
                 ELSE store[s]]
  /\ member' = {pair \in member : pair[2] \notin Stale(g)}
  /\ Finish(g)
  /\ UNCHANGED <<clientVars, employee, told, edits>>

-----------------------------------------------------------------------------
(* What admins do to the Employees meanwhile.  Whoever has a lock keeps    *)
(* them waiting.                                                           *)

Untouched(rows) == \A g \in Callers : \A l \in run[g].locks : l.row \notin rows

Edit == edits < MaxEdits /\ edits' = edits + 1

(* UpdateEmployee, to an Odoo id that nobody else has. *)
UpdateOdooId(e, odoo) ==
  /\ Edit /\ e \in Employees /\ Untouched({E(e)})
  /\ \A f \in Employees : employee[f] # odoo
  /\ employee' = [employee EXCEPT ![e] = odoo]
  /\ UNCHANGED <<clientVars, store, lastStore, member, told, guard, run, started>>

(* DeleteEmployee, and the memberships with it. *)
DeleteEmployee(e) ==
  /\ Edit /\ e \in Employees /\ Untouched({E(e)} \cup {M(pair) : pair \in {e} \X StoreIds})
  /\ employee' = [employee EXCEPT ![e] = NoRow]
  /\ member' = {pair \in member : pair[1] # e} /\ told' = [told EXCEPT ![e] = {}]
  /\ UNCHANGED <<clientVars, store, lastStore, guard, run, started>>

-----------------------------------------------------------------------------
(* A statement fails or the run's time is up: a run of Store sync is over,  *)
(* and one of Employee sync goes on to the next Employee.                  *)
Abort(g) ==
  \/ SkipEmployee(g)
  \/ run[g].kind = "stores" /\ run[g].pc \in {"rows", "cascade"} /\ Fail(g)

(* Postgres finds the cycle and fails one of its transactions. *)
DeadlockVictim(g) == OnCycle(Held, Wanted, g) /\ Abort(g)

(* The process dies and is started again. *)
Crash ==
  /\ \E g \in Callers : run[g].pc # "idle"
  /\ run' = [g \in Callers |-> Idle] /\ http' = [g \in Callers |-> NoCall]
  /\ guard' = [k \in Kinds |-> FALSE]
  /\ accessToken' = 0 /\ fresh' = FALSE /\ refreshMu' = Nobody /\ renewed' = FALSE
  /\ UNCHANGED <<granted, live, tables, started>>

Outside == (Expire \/ GoStale) /\ UNCHANGED <<tables, guard, run, started>>

Progress(g) ==
  \/ CallGoesOn(g) \/ FetchFails(g) \/ Take(g)
  \/ ListIds(g) \/ NextBatch(g) \/ Fetched(g) \/ Upsert(g) \/ Resolve(g)
  \/ NextEmployee(g) \/ InsertMembers(g) \/ CheckKeys(g) \/ MembersCommit(g) \/ KeysFail(g)
  \/ StoresFetched(g) \/ CascadeStores(g) \/ StoresCommit(g)

Next ==
  \/ \E g \in Callers :
       SyncEmployees(g) \/ SyncStores(g) \/ Progress(g) \/ Abort(g) \/ DeadlockVictim(g)
  \/ \E e \in Edited :
       DeleteEmployee(e) \/ \E odoo \in OdooEmployees : UpdateOdooId(e, odoo)
  \/ Outside \/ Crash

Spec == Init /\ [][Next]_vars

-----------------------------------------------------------------------------
(* An Employee's memberships are those that one sync, the last to succeed   *)
(* for it, had for it, all of them (ADR-0009), but for Stores that are     *)
(* gone: whatever fails, dies or runs in between leaves no part of two.    *)
MembersAsTold ==
  \A e \in Employees : {s \in StoreIds : <<e, s>> \in member} = told[e] \cap Stores

(* A guard is taken as long as the one run it was taken for goes on, and no *)
(* longer: a guard that stays taken turns down every sync to come.         *)
GuardTracksRuns ==
  \A k \in Kinds :
    LET runs == {g \in Callers : run[g].kind = k} IN
    Cardinality(runs) <= 1 /\ (guard[k] <=> runs # {})

(* Whom g waits for: the holder of refreshMu, or of a row. *)
WaitsOn(g) ==
  IF CallAt(g, "queue") THEN {refreshMu} \ {Nobody} ELSE WaitsFor(Held, Wanted, g)

(* Nobody waits in vain: whoever is waited for is on a run that goes on,    *)
(* and if he waits himself it is in the database, which looks for cycles.  *)
(* (refreshMu is held across the call to Odoo, and no deadline takes a     *)
(* goroutine out of its queue.)                                            *)
NobodyWaitsInVain ==
  \A g \in Callers : \A h \in WaitsOn(g) :
    /\ run[h].pc # "idle"
    /\ refreshMu = h => WaitsOn(h) = {}

=============================================================================
