----------------------------- MODULE Directory -----------------------------
(***************************************************************************)
(* The directory of Employees and Positions: the employees service         *)
(* (create, update, delete, bulk delete) and the positions service         *)
(* (create, rename, delete, bulk delete, replace a Position's Employees)   *)
(* write the same three tables, each from its own side, and the command    *)
(* bootstrapadmin writes them without a transaction.                       *)
(*                                                                         *)
(* A transaction's writes take effect in the action that commits it; until *)
(* then its record holds the rows it has locked (RowLocks).  A statement   *)
(* that needs locks lists them in want, and Take takes them one by one, in *)
(* no particular order.                                                    *)
(*                                                                         *)
(* email and username are unique columns like odoo_employee_id, which      *)
(* stands for the three of them; full_name is left out.                    *)
(***************************************************************************)
EXTENDS Integers, RowLocks

CONSTANTS
  Calls,          \* the goroutines that serve requests, and the command's runs
  Operations,     \* what they are asked to do
  OdooIds,        \* odoo_employee_id
  PositionNames,  \* positions.name
  AdminNames,     \* the names that are "Admin" but for their case
  Admin,          \* adminPositionName
  NoRow,          \* a row that does not exist
  Employed,       \* how many Employees there are at first
  Staffed,        \* how many Positions there are at first, or one less
  MaxEmployees,   \* bound of the ids of Employees
  MaxPositions,   \* bound of the ids of Positions
  MaxCalls        \* bound of the calls that are made

ASSUME DirectoryAssumption ==
  /\ Admin \in AdminNames /\ AdminNames \subseteq PositionNames
  /\ {Employed, Staffed, MaxEmployees, MaxPositions, MaxCalls} \subseteq Nat /\ Staffed >= 1
  /\ Employed <= MaxEmployees /\ Employed <= Cardinality(OdooIds)
  /\ Staffed <= MaxPositions /\ Staffed <= Cardinality(PositionNames)
  /\ NoRow \notin PositionNames

VARIABLES
  employee,      \* table employees
  position,      \* table positions
  assigned,      \* table employee_positions
  lastEmployee,  \* the sequence of employees.id
  lastPosition,  \* the sequence of positions.id
  call,          \* what each call is doing
  made,          \* how many calls were made
  confirmed      \* history: the ids that Odoo has confirmed

tables == <<employee, position, assigned, lastEmployee, lastPosition>>
vars == <<employee, position, assigned, lastEmployee, lastPosition, call, made, confirmed>>

-----------------------------------------------------------------------------
EmployeeIds == 1 .. MaxEmployees
PositionIds == 1 .. MaxPositions
Pairs == EmployeeIds \X PositionIds

EmployeeRow ==
  [odoo     : OdooIds,
   password : BOOLEAN,    \* whether there is one
   origin   : {"service", "command", "admin"}]
       \* history: who created it; "admin" once bootstrapadmin has finished

ASSUME NoEmployeeAssumption == NoRow \notin EmployeeRow

Employees == {e \in EmployeeIds : employee[e] # NoRow}
Positions == {p \in PositionIds : position[p] # NoRow}

(* What a lock is on: a row of a table, or an entry of the unique index on *)
(* odoo_employee_id.                                                       *)
E(e) == <<"employee", e>>
P(p) == <<"position", p>>
A(pair) == <<"assigned", pair>>
O(odoo) == <<"odoo", odoo>>

Rows ==
  {E(e) : e \in EmployeeIds} \cup {P(p) : p \in PositionIds}
    \cup {A(pair) : pair \in Pairs} \cup {O(odoo) : odoo \in OdooIds}

Ops == {"create", "update", "deleteEmployees", "appoint", "deletePositions",
        "editPosition", "bootstrap"}

Call ==
  [pc       : {"idle", "read", "confirm", "count", "row", "index", "delete", "insert",
               "keys", "cascade", "find", "found", "hire", "password", "assign"},
   op       : Ops \cup {"none"},
   id       : EmployeeIds \cup PositionIds \cup {0},   \* the Employee, or the Position
   ids      : SUBSET (EmployeeIds \cup PositionIds),   \* the set submitted
   odoo     : OdooIds \cup {NoRow},
   locks    : SUBSET [mode : Modes, row : Rows],
   want     : SUBSET [mode : Modes, row : Rows],
   touched  : SUBSET Pairs]   \* history: see Elsewhere

Idle ==
  [pc |-> "idle", op |-> "none", id |-> 0, ids |-> {}, odoo |-> NoRow,
   locks |-> {}, want |-> {}, touched |-> {}]

Held == [c \in Calls |-> call[c].locks]
Wanted == [c \in Calls |-> call[c].want]

(* Types; the foreign keys and unique columns; the locks. *)
TypeOK ==
  /\ employee \in [EmployeeIds -> EmployeeRow \cup {NoRow}]
  /\ position \in [PositionIds -> PositionNames \cup {NoRow}]
  /\ assigned \subseteq Employees \X Positions
  /\ lastEmployee \in 0 .. MaxEmployees /\ \A e \in Employees : e <= lastEmployee
  /\ lastPosition \in 0 .. MaxPositions /\ \A p \in Positions : p <= lastPosition
  /\ \A e, f \in Employees : employee[e].odoo = employee[f].odoo => e = f
  /\ \A p, q \in Positions : position[p] = position[q] => p = q
  /\ DOMAIN call = Calls /\ \A c \in Calls : call[c] \in Call
  /\ Exclusive(Held)
  /\ made \in 0 .. MaxCalls
  /\ confirmed \subseteq OdooIds

(* A service in use: Employees that were created through it, and Positions *)
(* that none or all of them have.                                          *)
Init ==
  /\ lastEmployee = Employed
  /\ \E odoo \in [1 .. Employed -> OdooIds] :
       /\ \A e, f \in 1 .. Employed : odoo[e] = odoo[f] => e = f
       /\ employee = [e \in EmployeeIds |->
            IF e \in 1 .. Employed
            THEN [odoo |-> odoo[e], password |-> TRUE, origin |-> "service"] ELSE NoRow]
       /\ confirmed = {odoo[e] : e \in 1 .. Employed}
  /\ lastPosition \in {Staffed - 1, Staffed}
  /\ \E name \in [1 .. lastPosition -> PositionNames] :
       /\ \A p, q \in 1 .. lastPosition : name[p] = name[q] => p = q
       /\ position = [p \in PositionIds |-> IF p <= lastPosition THEN name[p] ELSE NoRow]
  /\ assigned \in {{}, Employees \X Positions}
  /\ call = [c \in Calls |-> Idle]
  /\ made = 0

-----------------------------------------------------------------------------
(* Calls and transactions *)

At(c, step, ops) == call[c].pc = step /\ call[c].op \in ops
Becomes(c, r) == call' = [call EXCEPT ![c] = r]

(* The next statement starts: it wants these locks. *)
Goes(c, step, locks) ==
  /\ Becomes(c, [call[c] EXCEPT !.pc = step, !.want = locks])
  /\ UNCHANGED <<tables, made, confirmed>>

Begin(c, step, r, locks) ==
  /\ call[c].pc = "idle" /\ r.op \in Operations
  /\ made < MaxCalls /\ made' = made + 1
  /\ Becomes(c, [r EXCEPT !.pc = step, !.want = locks])
  /\ UNCHANGED <<tables, confirmed>>

(* The bounds leave an id for every call that may need one. *)
InFlight(ops) == Cardinality({c \in Calls : call[c].op \in ops})
RoomForEmployee == lastEmployee + InFlight({"create", "bootstrap"}) < MaxEmployees
RoomForPosition == lastPosition + InFlight({"bootstrap"}) < MaxPositions

(* An error: the transaction, if there is one, is rolled back. *)
Fail(c) == Becomes(c, Idle) /\ UNCHANGED <<tables, made, confirmed>>

(* What a replacement of an Employee's Positions has to reckon with while  *)
(* it runs: assignments that a Position-first write or a deletion changed. *)
Elsewhere(c) == call[c].op \in {"appoint", "deletePositions", "deleteEmployees", "bootstrap"}

(* c has written; then goes to its next transaction, or ends (Idle).  A    *)
(* row that is gone is not waited for any more.                            *)
CommitThen(c, next, employees, positions, pairs) ==
  LET changed == (assigned \ pairs) \cup (pairs \ assigned)
      gone == LocksOf("key", {A(pair) : pair \in assigned \ pairs}) IN
  /\ employee' = employees /\ position' = positions /\ assigned' = pairs
  /\ call' = [q \in Calls |->
       IF q = c THEN next
       ELSE [call[q] EXCEPT
              !.want = IF call[q].pc \in {"delete", "cascade"} THEN @ \ gone ELSE @,
              !.touched = IF Elsewhere(c) /\ call[q].pc \in {"delete", "insert", "keys"}
                          THEN @ \cup changed ELSE @]]
  /\ UNCHANGED <<made, confirmed>>

Commit(c, employees, positions, pairs) == CommitThen(c, Idle, employees, positions, pairs)

(* No other Employee, or Position, has the value. *)
OdooFree(odoo) == \A f \in Employees : employee[f].odoo # odoo
NameFree(name) == \A q \in Positions : position[q] # name

(* What the lock l comes to once nobody is in the way: an INSERT locks what *)
(* is not there yet, the others what is still there; who changes or deletes *)
(* the key of an Employee has its old index entry, too.                     *)
Taken(c, l) ==
  LET kind == l.row[1]
      it == l.row[2] IN
  CASE kind = "employee" ->
         IF it \notin Employees THEN {}
         ELSE {l} \cup IF l.mode = "key" THEN {Lock("key", O(employee[it].odoo))} ELSE {}
    [] kind = "position" -> IF it \in Positions THEN {l} ELSE {}
    [] kind = "assigned" -> IF (it \in assigned) = (call[c].pc = "insert") THEN {} ELSE {l}
    [] kind = "odoo" -> IF OdooFree(it) THEN {l} ELSE {}

Take(c) ==
  \E l \in call[c].want :
    /\ Holders(Held, c, l) = {}
    /\ Becomes(c, [call[c] EXCEPT !.want = @ \ {l}, !.locks = @ \cup Taken(c, l)])
    /\ UNCHANGED <<tables, made, confirmed>>

Ready(c, step, ops) == At(c, step, ops) /\ call[c].want = {}
HasRow(c, row) == \E l \in call[c].locks : l.row = row

-----------------------------------------------------------------------------
(* The diff of employee_positions, from either side *)

(* The assignments that a replacement wants, and those it deletes. *)
Submitted(c) ==
  IF call[c].op = "appoint" THEN call[c].ids \X {call[c].id} ELSE {call[c].id} \X call[c].ids

Dropped(c) ==
  {pair \in assigned \ Submitted(c) :
     pair[IF call[c].op = "appoint" THEN 2 ELSE 1] = call[c].id}

Goners(c) == {pair \in assigned : HasRow(c, A(pair))}
Comers(c) == {pair \in Pairs \ assigned : HasRow(c, A(pair))}

(* DeleteEmployeePositionsNotIn, DeleteEmployeePositionsByPositionIDNotIn. *)
DeleteNotIn(c) ==
  Goes(c, "delete", LocksOf("key", {A(pair) : pair \in Dropped(c)}))

(* InsertEmployeePositions, InsertPositionEmployees ... *)
InsertSet(c) ==
  /\ Ready(c, "delete", {"update", "appoint"})
  /\ Goes(c, "insert", LocksOf("key", {A(pair) : pair \in Submitted(c)}))

(* ... and the foreign keys of what they have inserted. *)
CheckKeys(c) ==
  /\ Ready(c, "insert", {"update", "appoint"})
  /\ Goes(c, "keys", LocksOf("share",
       UNION {{E(pair[1]), P(pair[2])} : pair \in Comers(c)}))

(* Mutated: the join table has no foreign keys. *)
KeysUnchecked(c, pairs) == TRUE

KeysHold(c, pairs) == \A pair \in pairs : HasRow(c, E(pair[1])) /\ HasRow(c, P(pair[2]))

(* The set that the call leaves behind. *)
Replaced(c) == (assigned \ Goners(c)) \cup Comers(c)

-----------------------------------------------------------------------------
(* validateOdooEmployeeID, before any transaction: Odoo has the id ... *)

OdooConfirms(c, odoo) ==
  /\ confirmed' = confirmed \cup {odoo}
  /\ Becomes(c, [call[c] EXCEPT !.pc = "count"])
  /\ UNCHANGED <<tables, made>>

(* Mutated: an Odoo that cannot be reached is no reason to refuse. *)
RefuseFailsOpen(c) == Goes(c, "count", {})

(* ... has no such Employee, or cannot be asked: fail closed. *)
OdooRefuses(c) == Fail(c)

Confirm(c) ==
  /\ At(c, "confirm", {"create", "update"})
  /\ OdooConfirms(c, call[c].odoo) \/ OdooRefuses(c)

-----------------------------------------------------------------------------
(* CreateEmployee *)

CreateBegin(c) ==
  \E odoo \in OdooIds, ids \in SUBSET PositionIds :
    /\ RoomForEmployee
    /\ Begin(c, "confirm", [Idle EXCEPT !.op = "create", !.odoo = odoo, !.ids = ids], {})

(* validatePositionIDs, then the INSERT waits for the unique index. *)
CreateCount(c) ==
  /\ At(c, "count", {"create"})
  /\ \/ call[c].ids \subseteq Positions /\ Goes(c, "index", {Lock("key", O(call[c].odoo))})
     \/ ~(call[c].ids \subseteq Positions) /\ Fail(c)

CreateInsert(c) ==
  /\ Ready(c, "index", {"create"})
  /\ \/ HasRow(c, O(call[c].odoo)) /\ Goes(c, "keys", LocksOf("share", {P(p) : p \in call[c].ids}))
     \/ ~HasRow(c, O(call[c].odoo)) /\ Fail(c)

NewEmployee(odoo, origin) ==
  [employee EXCEPT ![lastEmployee + 1] = [odoo |-> odoo, password |-> FALSE, origin |-> origin]]

(* A Position that went since it was counted fails the foreign key. *)
CreateCommit(c) ==
  /\ Ready(c, "keys", {"create"})
  /\ \/ /\ \A p \in call[c].ids : HasRow(c, P(p))
        /\ lastEmployee' = lastEmployee + 1
        /\ Commit(c, NewEmployee(call[c].odoo, "service"), position,
                  assigned \cup ({lastEmployee'} \X call[c].ids))
        /\ UNCHANGED lastPosition
     \/ (\E p \in call[c].ids : ~HasRow(c, P(p))) /\ Fail(c)

-----------------------------------------------------------------------------
(* UpdateEmployee *)

UpdateBegin(c) ==
  \E e \in EmployeeIds, odoo \in OdooIds, ids \in SUBSET PositionIds :
    /\ e <= lastEmployee
    /\ Begin(c, "read", [Idle EXCEPT !.op = "update", !.id = e, !.odoo = odoo, !.ids = ids], {})

(* Odoo is asked only about an id that is not the current one. *)
UpdateRead(c) ==
  /\ At(c, "read", {"update"})
  /\ \/ call[c].id \notin Employees /\ Fail(c)
     \/ /\ call[c].id \in Employees
        /\ Goes(c, IF employee[call[c].id].odoo = call[c].odoo THEN "count" ELSE "confirm", {})

(* Mutated: the Employee's row is read here, and updated after the diff. *)
UpdateLocksWeak(c, mode) == {Lock("share", E(call[c].id))}

UpdateLocks(c, mode) == {Lock(mode, E(call[c].id))}

(* UPDATE employees may leave every key alone, or change one (the email). *)
UpdateCount(c) ==
  /\ At(c, "count", {"update"})
  /\ \/ call[c].ids \subseteq Positions
        /\ \E mode \in {"update", "key"} : Goes(c, "row", UpdateLocks(c, mode))
     \/ ~(call[c].ids \subseteq Positions) /\ Fail(c)

Rekeys(c) == employee[call[c].id].odoo # call[c].odoo

(* The row is locked, or gone.  A new Odoo id is a change of a key, and has *)
(* to be entered into the index.                                           *)
UpdateRow(c) ==
  LET found == HasRow(c, E(call[c].id))
      key == Lock("key", E(call[c].id)) IN
  /\ Ready(c, "row", {"update"})
  /\ \/ ~found /\ Fail(c)
     \/ /\ found /\ Rekeys(c) /\ key \notin call[c].locks
        /\ Becomes(c, [call[c] EXCEPT !.locks = {}, !.want = {key}])
        /\ UNCHANGED <<tables, made, confirmed>>
     \/ /\ found /\ (Rekeys(c) => key \in call[c].locks)
        /\ Goes(c, "index", IF Rekeys(c) THEN {Lock("key", O(call[c].odoo))} ELSE {})

UpdateIndex(c) ==
  /\ Ready(c, "index", {"update"})
  /\ LET unique == Rekeys(c) => HasRow(c, O(call[c].odoo)) IN
     \/ unique /\ DeleteNotIn(c)
     \/ ~unique /\ Fail(c)

(* SetEmployeePassword if one was submitted, then the commit. *)
UpdateCommit(c) ==
  LET e == call[c].id IN
  /\ Ready(c, "keys", {"update"})
  /\ \/ /\ KeysHold(c, Comers(c))
        /\ \E password \in {employee[e].password, TRUE} :
             Commit(c, [employee EXCEPT ![e].odoo = call[c].odoo, ![e].password = password],
                    position, Replaced(c))
        /\ UNCHANGED <<lastEmployee, lastPosition>>
     \/ ~KeysHold(c, Comers(c)) /\ Fail(c)

-----------------------------------------------------------------------------
(* SetPositionEmployees *)

AppointBegin(c) ==
  \E p \in PositionIds, ids \in SUBSET EmployeeIds :
    Begin(c, "count", [Idle EXCEPT !.op = "appoint", !.id = p, !.ids = ids], {})

(* GetPositionByID and validateEmployeeIDs. *)
AppointCount(c) ==
  LET found == call[c].id \in Positions /\ call[c].ids \subseteq Employees IN
  /\ At(c, "count", {"appoint"})
  /\ \/ found /\ DeleteNotIn(c)
     \/ ~found /\ Fail(c)

AppointCommit(c) ==
  /\ Ready(c, "keys", {"appoint"})
  /\ \/ /\ KeysHold(c, Comers(c))
        /\ Commit(c, employee, position, Replaced(c))
        /\ UNCHANGED <<lastEmployee, lastPosition>>
     \/ ~KeysHold(c, Comers(c)) /\ Fail(c)

-----------------------------------------------------------------------------
(* DeleteEmployee and BulkDeleteEmployees: one statement for each id, whose *)
(* outcome does not keep the next from being tried.                        *)

DeleteNext(ids) ==
  {[Idle EXCEPT !.op = "deleteEmployees", !.pc = "row", !.id = e, !.ids = ids \ {e},
                !.want = {Lock("key", E(e))}] : e \in ids}

DeleteEmployeesBegin(c) ==
  \E ids \in SUBSET EmployeeIds : \E r \in DeleteNext(ids) : Begin(c, "row", r, r.want)

DeleteEmployeesSkip(c) ==
  /\ Ready(c, "row", {"deleteEmployees"}) /\ ~HasRow(c, E(call[c].id))
  /\ \/ call[c].ids = {} /\ Fail(c)
     \/ \E r \in DeleteNext(call[c].ids) : Becomes(c, r) /\ UNCHANGED <<tables, made, confirmed>>

DeleteEmployeesCascade(c) ==
  /\ Ready(c, "row", {"deleteEmployees"}) /\ HasRow(c, E(call[c].id))
  /\ Goes(c, "cascade", LocksOf("key", {A(pair) : pair \in {a \in assigned : a[1] = call[c].id}}))

DeleteEmployeesCommit(c) ==
  LET e == call[c].id
      left == call[c].ids IN
  /\ Ready(c, "cascade", {"deleteEmployees"})
  /\ \E r \in IF left = {} THEN {Idle} ELSE DeleteNext(left) :
       CommitThen(c, r, [employee EXCEPT ![e] = NoRow], position,
                  {a \in assigned : a[1] # e})
  /\ UNCHANGED <<lastEmployee, lastPosition>>

-----------------------------------------------------------------------------
(* CreatePosition and UpdatePosition: one statement each, which waits for   *)
(* the row, and for who is deleting the Position that has the name.        *)

NobodyOn(p) == \A c \in Calls : ~HasRow(c, P(p))

CreatePosition(name) ==
  /\ "editPosition" \in Operations
  /\ NameFree(name)
  /\ RoomForPosition /\ lastPosition' = lastPosition + 1
  /\ position' = [position EXCEPT ![lastPosition'] = name]
  /\ UNCHANGED <<employee, assigned, lastEmployee, call, made, confirmed>>

UpdatePosition(p, name) ==
  /\ "editPosition" \in Operations
  /\ p \in Positions /\ NobodyOn(p) /\ NameFree(name)
  /\ position' = [position EXCEPT ![p] = name]
  /\ UNCHANGED <<employee, assigned, lastEmployee, lastPosition, call, made, confirmed>>

-----------------------------------------------------------------------------
(* DeletePosition and BulkDeletePositions *)

DeletePositionsBegin(c) ==
  \E ids \in SUBSET PositionIds \ {{}} :
    LET r == [Idle EXCEPT !.op = "deletePositions", !.ids = ids] IN
    \/ Cardinality(ids) = 1 /\ Begin(c, "row", r, LocksOf("key", {P(p) : p \in ids}))
    \/ Begin(c, "count", r, {})

(* All of them or none, as far as they can be seen here. *)
DeletePositionsCount(c) ==
  /\ At(c, "count", {"deletePositions"})
  /\ \/ call[c].ids \subseteq Positions /\ Goes(c, "row", LocksOf("key", {P(p) : p \in call[c].ids}))
     \/ ~(call[c].ids \subseteq Positions) /\ Fail(c)

Doomed(c) == {p \in Positions \cap call[c].ids : HasRow(c, P(p))}

DeletePositionsCascade(c) ==
  /\ Ready(c, "row", {"deletePositions"})
  /\ Goes(c, "cascade", LocksOf("key", {A(pair) : pair \in {a \in assigned : a[2] \in Doomed(c)}}))

DeletePositionsCommit(c) ==
  /\ Ready(c, "cascade", {"deletePositions"})
  /\ Commit(c, employee, [p \in PositionIds |-> IF p \in Doomed(c) THEN NoRow ELSE position[p]],
            {a \in assigned : a[2] \notin Doomed(c)})
  /\ UNCHANGED <<lastEmployee, lastPosition>>

-----------------------------------------------------------------------------
(* cmd/bootstrapadmin: statement by statement, each its own commit *)

BootstrapBegin(c) ==
  \E odoo \in OdooIds :
    /\ RoomForEmployee /\ RoomForPosition
    /\ Begin(c, "find", [Idle EXCEPT !.op = "bootstrap", !.odoo = odoo], {})

(* findOrCreateAdminPosition: ListPositions, case put aside ... *)
BootstrapFind(c) ==
  LET admins == {p \in Positions : position[p] \in AdminNames} IN
  /\ At(c, "find", {"bootstrap"})
  /\ \/ admins = {} /\ Goes(c, "found", {})
     \/ /\ \E p \in admins : Becomes(c, [call[c] EXCEPT !.pc = "hire", !.ids = {p}])
        /\ UNCHANGED <<tables, made, confirmed>>

(* ... and CreatePosition, unless the name has been taken meanwhile. *)
BootstrapPosition(c) ==
  /\ At(c, "found", {"bootstrap"})
  /\ \/ /\ NameFree(Admin)
        /\ lastPosition' = lastPosition + 1
        /\ position' = [position EXCEPT ![lastPosition'] = Admin]
        /\ Becomes(c, [call[c] EXCEPT !.pc = "hire", !.ids = {lastPosition'}])
        /\ UNCHANGED <<employee, assigned, lastEmployee, made, confirmed>>
     \/ ~NameFree(Admin) /\ Fail(c)

(* CreateEmployee, without asking Odoo; it waits for the unique index. *)
BootstrapHire(c) ==
  /\ At(c, "hire", {"bootstrap"})
  /\ Holders(Held, c, Lock("key", O(call[c].odoo))) = {}
  /\ \/ /\ OdooFree(call[c].odoo)
        /\ lastEmployee' = lastEmployee + 1
        /\ employee' = NewEmployee(call[c].odoo, "command")
        /\ Becomes(c, [call[c] EXCEPT !.pc = "password", !.id = lastEmployee'])
        /\ UNCHANGED <<position, assigned, lastPosition, made, confirmed>>
     \/ ~OdooFree(call[c].odoo) /\ Fail(c)

EmployeeFree(c, mode) == Holders(Held, c, Lock(mode, E(call[c].id))) = {}

(* Mutated: the Position is assigned before the password is set. *)
BootstrapPasswordLater(c) ==
  At(c, "password", {"bootstrap"}) /\ Goes(c, "assign", {})

(* SetEmployeePassword; that it may match no row is not looked at. *)
BootstrapPassword(c) ==
  LET e == call[c].id IN
  /\ At(c, "password", {"bootstrap"}) /\ EmployeeFree(c, "update")
  /\ employee' = IF e \in Employees THEN [employee EXCEPT ![e].password = TRUE] ELSE employee
  /\ Becomes(c, [call[c] EXCEPT !.pc = "assign"])
  /\ UNCHANGED <<position, assigned, lastEmployee, lastPosition, made, confirmed>>

(* InsertEmployeePositions, if its foreign keys hold. *)
BootstrapAssign(c) ==
  LET e == call[c].id
      kept == e \in Employees /\ call[c].ids \subseteq Positions IN
  /\ At(c, "assign", {"bootstrap"}) /\ EmployeeFree(c, "share")
  /\ \A p \in call[c].ids : /\ Holders(Held, c, Lock("share", P(p))) = {}
                            /\ Holders(Held, c, Lock("key", A(<<e, p>>))) = {}
  /\ \/ /\ kept
        /\ Commit(c, [employee EXCEPT ![e].origin = "admin"], position,
                  assigned \cup ({e} \X call[c].ids))
        /\ UNCHANGED <<lastEmployee, lastPosition>>
     \/ ~kept /\ Fail(c)

-----------------------------------------------------------------------------
(* A statement fails, a client hangs up, the process or the command dies. *)
Abort(c) == call[c].pc # "idle" /\ Fail(c)

(* Postgres finds the cycle and fails one of its transactions. *)
DeadlockVictim(c) == OnCycle(Held, Wanted, c) /\ Fail(c)

Request(c) ==
  \/ CreateBegin(c) \/ UpdateBegin(c) \/ AppointBegin(c)
  \/ DeleteEmployeesBegin(c) \/ DeletePositionsBegin(c) \/ BootstrapBegin(c)

Progress(c) ==
  \/ Take(c) \/ Confirm(c) \/ InsertSet(c) \/ CheckKeys(c)
  \/ CreateCount(c) \/ CreateInsert(c) \/ CreateCommit(c)
  \/ UpdateRead(c) \/ UpdateCount(c) \/ UpdateRow(c) \/ UpdateIndex(c) \/ UpdateCommit(c)
  \/ AppointCount(c) \/ AppointCommit(c)
  \/ DeleteEmployeesSkip(c) \/ DeleteEmployeesCascade(c) \/ DeleteEmployeesCommit(c)
  \/ DeletePositionsCount(c) \/ DeletePositionsCascade(c) \/ DeletePositionsCommit(c)
  \/ BootstrapFind(c) \/ BootstrapPosition(c) \/ BootstrapHire(c) \/ BootstrapPassword(c) \/ BootstrapAssign(c)

Next ==
  \/ \E c \in Calls : Request(c) \/ Progress(c) \/ Abort(c) \/ DeadlockVictim(c)
  \/ \E name \in PositionNames :
       CreatePosition(name) \/ \E p \in PositionIds : UpdatePosition(p, name)

Spec == Init /\ [][Next]_vars

-----------------------------------------------------------------------------
(* An UpdateEmployee that commits leaves the Employee with the Positions it *)
(* submitted, but for those that a Position-first write or a deletion has  *)
(* changed since its DELETE: other updates of the same Employee, however   *)
(* they overlap, leave nothing behind.  (UPDATE employees comes first, and *)
(* its row lock is what two diffs of one Employee queue for.)              *)
EmployeeSetReplaced ==
  [][\A c \in Calls : UpdateCommit(c) /\ KeysHold(c, Comers(c)) =>
       \A p \in PositionIds :
         LET a == <<call[c].id, p>> IN
         a \notin call[c].touched => (a \in assigned' <=> p \in call[c].ids)]_vars

(* SetPositionEmployees "replaces a position's whole employee set": where  *)
(* it has added somebody, there is nobody but those it submitted.  (If     *)
(* there is, no order of the replacements explains who is there.)          *)
PositionSetReplaced ==
  [][\A c \in Calls : AppointCommit(c) /\ KeysHold(c, Comers(c)) /\ Comers(c) # {} =>
       {e \in EmployeeIds : <<e, call[c].id>> \in assigned'} \subseteq call[c].ids]_vars

(* Whoever was created through the service has an Odoo id that Odoo has    *)
(* confirmed, although an update that keeps the id it has read asks nobody *)
(* and writes that id much later (ADR-0007: fail closed).                  *)
OdooIdsConfirmed ==
  \A e \in Employees : employee[e].origin = "service" => employee[e].odoo \in confirmed

(* Wherever bootstrapadmin is cut off, and whoever deletes or edits what it *)
(* has written so far: the Admin it leaves behind can log in.              *)
AdminHasPassword ==
  \A e \in Employees : employee[e].origin = "admin" => employee[e].password

=============================================================================
