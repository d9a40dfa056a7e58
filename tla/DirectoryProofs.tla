-------------------------- MODULE DirectoryProofs --------------------------
(***************************************************************************)
(* What holds of the directory for any number of calls, Employees and      *)
(* Positions: the rows keep their types, foreign keys and unique columns,  *)
(* ids that Odoo has confirmed, Admins that can log in, and an update that *)
(* leaves an Employee with the Positions it submitted.                     *)
(***************************************************************************)
EXTENDS Directory, FiniteSetTheorems, TLAPS

Locks == [mode : Modes, row : Rows]

On(locks, row) == \E l \in locks : l.row = row

(* What a transaction that changes the row of an Employee has on it. *)
Owns(locks, e) == \E l \in locks : l.row = E(e) /\ l.mode \in {"update", "key"}

Diffing == {"delete", "insert", "keys"}

-----------------------------------------------------------------------------
(* The parts of the inductive invariant, for the record r of a call *)

(* What an operation submits, and which locks it asks for. *)
Shape(r) ==
  /\ \A l \in r.locks \cup r.want : \A odoo \in OdooIds : l.row = O(odoo) => l.mode = "key"
  /\ r.op \in {"deleteEmployees", "deletePositions"} =>
       \A l \in r.locks \cup r.want : l.mode = "key"
  /\ r.op \in {"create", "update", "bootstrap"} => r.odoo \in OdooIds /\ r.ids \subseteq PositionIds
  /\ r.op = "create" => \A l \in r.locks \cup r.want : \A e \in EmployeeIds : l.row # E(e)
  /\ r.op = "create" /\ r.pc = "keys" => On(r.locks, O(r.odoo))
  /\ r.op = "update" => r.id \in EmployeeIds
  /\ r.op = "update" => \A l \in r.locks \cup r.want :
       /\ \A e \in EmployeeIds : l.row = E(e) => e = r.id
       /\ \A pair \in Pairs : l.row = A(pair) => pair[1] = r.id
       /\ r.pc = "row" /\ l.row = E(r.id) => l.mode \in {"update", "key"}
  /\ r.op = "update" /\ r.pc \in {"read", "confirm", "count"} => r.locks = {} /\ r.want = {}
  /\ r.op = "update" /\ r.pc \in {"row", "index"} =>
       \A l \in r.locks \cup r.want : \A pair \in Pairs : l.row # A(pair)
  /\ r.op = "update" /\ r.pc \in Diffing \cup {"index"} => Owns(r.locks, r.id)
  /\ r.op = "appoint" => r.id \in PositionIds /\ r.ids \subseteq EmployeeIds
  /\ r.op = "deleteEmployees" => r.id \in EmployeeIds /\ r.ids \subseteq EmployeeIds
  /\ r.op = "deleteEmployees" /\ r.pc = "cascade" => On(r.locks, E(r.id))
  /\ r.op = "deletePositions" => r.ids \subseteq PositionIds
  /\ r.op = "bootstrap" => r.locks = {} /\ r.want = {}
  /\ r.op = "bootstrap" /\ r.pc \in {"password", "assign"} => r.id \in EmployeeIds

(* A locked row is there; a locked entry of the unique index is nobody's,  *)
(* or that of an Employee whose key is locked, too.                        *)
Covers(r) ==
  \A l \in r.locks :
    /\ \A e \in EmployeeIds : l.row = E(e) => e \in Employees
    /\ \A p \in PositionIds : l.row = P(p) => p \in Positions
    /\ \A odoo \in OdooIds : l.row = O(odoo) =>
         \/ OdooFree(odoo)
         \/ \E e \in Employees : Lock("key", E(e)) \in r.locks /\ employee[e].odoo = odoo

(* What a call has found out and builds on. *)
Knows(r) ==
  /\ r.op = "update" => r.id <= lastEmployee
  /\ r.op = "bootstrap" /\ r.pc \in {"password", "assign"} => r.id <= lastEmployee
  /\ r.op = "update" /\ r.pc \in Diffing =>
       employee[r.id].odoo = r.odoo \/ On(r.locks, O(r.odoo))
  /\ r.op = "update" /\ r.pc \in Diffing \cup {"count", "row", "index"} =>
       \/ r.odoo \in confirmed
       \/ r.id \notin Employees
       \/ employee[r.id].origin # "service"
  /\ r.op = "create" /\ r.pc \in {"count", "index", "keys"} => r.odoo \in confirmed
  /\ r.op = "bootstrap" /\ r.pc = "assign" /\ r.id \in Employees => employee[r.id].password

(* How far an update has come with one of the Employee's Positions. *)
PairAt(r, pair, submitted) ==
  /\ r.pc = "delete" /\ ~submitted =>
       /\ On(r.locks, A(pair)) => pair \in assigned
       /\ pair \in assigned => On(r.locks \cup r.want, A(pair))
  /\ r.pc = "delete" /\ submitted => ~On(r.locks \cup r.want, A(pair))
  /\ r.pc = "insert" /\ ~submitted =>
       /\ pair \in assigned <=> On(r.locks, A(pair))
       /\ ~On(r.want, A(pair))
  /\ r.pc = "insert" /\ submitted =>
       /\ On(r.locks, A(pair)) => pair \notin assigned
       /\ pair \notin assigned => On(r.locks \cup r.want, A(pair))
  /\ r.pc = "keys" => (On(r.locks, A(pair)) <=> (pair \in assigned <=> ~submitted))
  /\ r.pc = "keys" => ~On(r.want, A(pair))

Diffs(r) ==
  r.op = "update" /\ r.pc \in Diffing =>
    \A p \in PositionIds :
      <<r.id, p>> \in r.touched \/ PairAt(r, <<r.id, p>>, p \in r.ids)

(* The calls that an id of an Employee, or of a Position, is kept for. *)
NeedsEmployee(r) ==
  r.op = "create" \/ (r.op = "bootstrap" /\ r.pc \in {"find", "found", "hire"})
NeedsPosition(r) == r.op = "bootstrap" /\ r.pc \in {"find", "found"}

Busy == {c \in Calls : call[c].op # "none"}
ForEmployees == {c \in Calls : NeedsEmployee(call[c])}
ForPositions == {c \in Calls : NeedsPosition(call[c])}

RoomLeft ==
  /\ IsFiniteSet(Busy)
  /\ lastEmployee + Cardinality(ForEmployees) <= MaxEmployees
  /\ lastPosition + Cardinality(ForPositions) <= MaxPositions

CallOK(r) == Shape(r) /\ Covers(r) /\ Knows(r) /\ Diffs(r)

DirInv ==
  /\ TypeOK
  /\ RoomLeft
  /\ \A c \in Calls : CallOK(call[c])
  /\ OdooIdsConfirmed
  /\ AdminHasPassword

-----------------------------------------------------------------------------
(* Locks *)

LEMMA RowsDiffer ==
  /\ \A x, y : E(x) = E(y) <=> x = y
  /\ \A x, y : P(x) = P(y) <=> x = y
  /\ \A x, y : A(x) = A(y) <=> x = y
  /\ \A x, y : O(x) = O(y) <=> x = y
  /\ \A x, y : E(x) # P(y) /\ E(x) # A(y) /\ E(x) # O(y)
  /\ \A x, y : P(x) # A(y) /\ P(x) # O(y) /\ A(x) # O(y)
BY DEF E, P, A, O

LEMMA LockFields ==
  \A mode, row : Lock(mode, row).mode = mode /\ Lock(mode, row).row = row
BY DEF Lock

(* A set of locks in one mode. *)
LEMMA LocksOfType ==
  ASSUME NEW mode \in Modes, NEW S, S \subseteq Rows
  PROVE  /\ LocksOf(mode, S) \subseteq Locks
         /\ \A l \in LocksOf(mode, S) : l.mode = mode /\ l.row \in S
         /\ \A row : On(LocksOf(mode, S), row) <=> row \in S
<1>1. \A row \in S : Lock(mode, row) \in Locks
  BY DEF Lock, Locks
<1>2. LocksOf(mode, S) \subseteq Locks
  BY <1>1 DEF LocksOf
<1>3. \A l \in LocksOf(mode, S) : l.mode = mode /\ l.row \in S
  BY LockFields DEF LocksOf
<1>4. \A row \in S : On(LocksOf(mode, S), row)
  BY LockFields DEF LocksOf, On
<1>5. QED
  BY <1>2, <1>3, <1>4 DEF On

LEMMA RowsAre ==
  /\ \A e \in EmployeeIds : E(e) \in Rows
  /\ \A p \in PositionIds : P(p) \in Rows
  /\ \A pair \in Pairs : A(pair) \in Rows
  /\ \A odoo \in OdooIds : O(odoo) \in Rows
BY DEF Rows

LEMMA ExclusiveMeans ==
  Exclusive(Held) <=>
    \A b \in Calls : \A d \in Calls \ {b} : \A k \in call[b].locks : \A m \in call[d].locks :
      m.row = k.row => ~Conflict(m.mode, k.mode)
BY DEF Exclusive, Held, Holders

LEMMA ExclusiveMeansNext ==
  (Exclusive(Held) <=>
     \A b \in Calls : \A d \in Calls \ {b} : \A k \in call[b].locks : \A m \in call[d].locks :
       m.row = k.row => ~Conflict(m.mode, k.mode))'
BY ExclusiveMeans, PTL

(* Who has a row's key locked is alone with it. *)
LEMMA KeyAlone ==
  ASSUME Exclusive(Held), NEW c \in Calls, NEW d \in Calls \ {c}, NEW l \in call[c].locks,
         l.mode = "key"
  PROVE  ~On(call[d].locks, l.row)
BY ExclusiveMeans DEF On, Conflict

(* One transaction at most has what it needs to change an Employee's row.  *)
LEMMA OwnerAlone ==
  ASSUME Exclusive(Held), NEW c \in Calls, NEW d \in Calls \ {c}, NEW e,
         Owns(call[c].locks, e)
  PROVE  ~Owns(call[d].locks, e)
<1>1. PICK l \in call[c].locks : l.row = E(e) /\ l.mode \in {"update", "key"}
  BY DEF Owns
<1>2. \A k \in call[d].locks : k.row = E(e) => ~Conflict(k.mode, l.mode)
  BY <1>1, ExclusiveMeans
<1>3. QED
  BY <1>1, <1>2 DEF Owns, Conflict

(* Locks that are given up do no harm. *)
LEMMA ExclusiveKept ==
  ASSUME Exclusive(Held), \A c \in Calls : call'[c].locks \subseteq call[c].locks
  PROVE  Exclusive(Held)'
BY ExclusiveMeans, ExclusiveMeansNext

-----------------------------------------------------------------------------
(* What a step leaves to the calls that do not take it *)

(* Nothing that d has locked or builds on is changed under it ... *)
Spares(d) ==
  /\ \A e \in EmployeeIds :
       /\ e \in Employees /\ e \notin Employees' => ~On(call[d].locks, E(e))
       /\ e \notin Employees /\ e \in Employees' => e > lastEmployee
       /\ e \in Employees /\ e \in Employees' =>
            /\ employee'[e].odoo = employee[e].odoo \/ ~Owns(call[d].locks, e)
            /\ employee'[e].origin \in {employee[e].origin, "admin"}
            /\ employee[e].password => employee'[e].password
  /\ \A p \in PositionIds : p \in Positions /\ p \notin Positions' => ~On(call[d].locks, P(p))
  /\ \A odoo \in OdooIds : OdooFree(odoo) /\ ~OdooFree(odoo)' => ~On(call[d].locks, O(odoo))
  /\ lastEmployee <= lastEmployee' /\ lastEmployee' \in Nat
  /\ confirmed \subseteq confirmed'

(* ... and an assignment of an Employee whose row it has locked changes    *)
(* only if it is told.                                                     *)
Tells(d) ==
  call[d].pc \in Diffing =>
    \A pair \in Pairs :
      \/ pair \in assigned <=> pair \in assigned'
      \/ pair \in call'[d].touched
      \/ pair[1] > lastEmployee
      \/ ~Owns(call[d].locks, pair[1])

(* The record of a call that waits becomes q. *)
Stays(q, r) ==
  /\ q \in Call
  /\ q.pc = r.pc /\ q.op = r.op /\ q.id = r.id /\ q.ids = r.ids /\ q.odoo = r.odoo
  /\ q.locks = r.locks /\ q.want \subseteq r.want /\ r.touched \subseteq q.touched
  /\ \A pair \in Pairs :
       On(r.want, A(pair)) /\ (pair \in assigned' \/ r.pc \notin {"delete", "cascade"}) => On(q.want, A(pair))


LEMMA CallFields ==
  ASSUME NEW r \in Call
  PROVE  /\ r.id \in Int
         /\ r.locks \subseteq Locks /\ r.want \subseteq Locks
         /\ r.ids \subseteq EmployeeIds \cup PositionIds
         /\ r.touched \subseteq Pairs
<1>1. MaxEmployees \in Nat /\ MaxPositions \in Nat
  BY DirectoryAssumption
<1>2. QED
  BY <1>1 DEF Call, Locks, EmployeeIds, PositionIds

LEMMA ShapeStays ==
  ASSUME NEW r \in Call, NEW q, Shape(r), Stays(q, r)
  PROVE  Shape(q)
<1> q.locks \cup q.want \subseteq r.locks \cup r.want
  BY DEF Stays
<1>1. /\ q.pc = r.pc /\ q.op = r.op /\ q.id = r.id /\ q.ids = r.ids /\ q.odoo = r.odoo
      /\ q.locks = r.locks /\ q.want \subseteq r.want
  BY DEF Stays
<1>2. QED
  BY <1>1 DEF Shape

LEMMA CoversStays ==
  ASSUME TypeOK, NEW d \in Calls, Covers(call[d]), Stays(call'[d], call[d]), Spares(d)
  PROVE  Covers(call[d])'
<1>1. call'[d].locks = call[d].locks
  BY DEF Stays
<1>2. ASSUME NEW l \in call[d].locks
      PROVE  /\ \A e \in EmployeeIds : l.row = E(e) => e \in Employees'
             /\ \A p \in PositionIds : l.row = P(p) => p \in Positions'
  BY DEF Covers, Spares, On
<1>3. ASSUME NEW l \in call[d].locks, NEW odoo \in OdooIds, l.row = O(odoo), ~OdooFree(odoo)'
      PROVE  \E e \in Employees' : Lock("key", E(e)) \in call[d].locks /\ employee'[e].odoo = odoo
  <2>1. ~OdooFree(odoo)
    BY <1>3 DEF Spares, On
  <2>2. PICK e \in Employees : Lock("key", E(e)) \in call[d].locks /\ employee[e].odoo = odoo
    BY <1>3, <2>1 DEF Covers
  <2>3. On(call[d].locks, E(e)) /\ Owns(call[d].locks, e)
    BY <2>2, LockFields DEF On, Owns
  <2>4. e \in EmployeeIds
    BY DEF Employees
  <2>5. e \in Employees'
    BY <2>3, <2>4 DEF Spares
  <2>6. employee'[e].odoo = odoo
    BY <2>2, <2>3, <2>4, <2>5 DEF Spares
  <2>7. QED
    BY <2>2, <2>5, <2>6
<1>4. QED
  BY <1>1, <1>2, <1>3 DEF Covers

LEMMA KnowsStays ==
  ASSUME TypeOK, NEW d \in Calls, Shape(call[d]), Covers(call[d]), Knows(call[d]),
         Stays(call'[d], call[d]), Spares(d)
  PROVE  Knows(call[d])'
<1> DEFINE r == call[d]
<1>1. /\ call'[d].pc = r.pc /\ call'[d].op = r.op /\ call'[d].id = r.id /\ call'[d].ids = r.ids
      /\ call'[d].odoo = r.odoo /\ call'[d].locks = r.locks
  BY DEF Stays
<1>2. r \in Call
  BY DEF TypeOK
<1>3. lastEmployee \in Int /\ lastEmployee' \in Int /\ r.id \in Int /\ lastEmployee <= lastEmployee'
  BY <1>2, CallFields, DirectoryAssumption DEF TypeOK, Spares
<1>4. r.id <= lastEmployee => r.id <= lastEmployee'
  BY <1>3
<1>5. r.id \in EmployeeIds /\ r.id <= lastEmployee /\ r.id \in Employees' => r.id \in Employees
  BY <1>3 DEF Spares
<1>6. ASSUME r.op = "update", r.pc \in Diffing
      PROVE  employee'[r.id].odoo = r.odoo \/ On(r.locks, O(r.odoo))
  <2>1. r.id \in EmployeeIds /\ Owns(r.locks, r.id)
    BY <1>6 DEF Shape
  <2>2. r.id \in Employees
    BY <2>1 DEF Owns, Covers
  <2>3. r.id \in Employees'
    BY <2>1, <2>2 DEF Spares, Owns, On
  <2>4. employee'[r.id].odoo = employee[r.id].odoo
    BY <2>1, <2>2, <2>3 DEF Spares
  <2>5. QED
    BY <1>6, <2>4 DEF Knows
<1>7. ASSUME r.op = "update", r.pc \in Diffing \cup {"count", "row", "index"}
      PROVE  \/ r.odoo \in confirmed'
             \/ r.id \notin Employees'
             \/ employee'[r.id].origin # "service"
  <2>1. r.id \in EmployeeIds /\ r.id <= lastEmployee
    BY <1>7 DEF Shape, Knows
  <2>2. r.odoo \in confirmed \/ r.id \notin Employees \/ employee[r.id].origin # "service"
    BY <1>7 DEF Knows
  <2>3. QED
    BY <1>5, <2>1, <2>2 DEF Spares
<1>8. r.op = "create" /\ r.pc \in {"count", "index", "keys"} => r.odoo \in confirmed'
  BY DEF Knows, Spares
<1>9. ASSUME r.op = "bootstrap", r.pc = "assign", r.id \in Employees'
      PROVE  employee'[r.id].password
  <2>1. r.id \in EmployeeIds /\ r.id <= lastEmployee
    BY <1>9 DEF Shape, Knows
  <2>2. r.id \in Employees
    BY <1>5, <1>9, <2>1
  <2>3. employee[r.id].password
    BY <1>9, <2>2 DEF Knows
  <2>4. QED
    BY <1>9, <2>1, <2>2, <2>3 DEF Spares
<1>10. QED
  <2> HIDE DEF r
  <2>1. Knows(r) => /\ r.op = "update" => r.id <= lastEmployee
                    /\ r.op = "bootstrap" /\ r.pc \in {"password", "assign"} => r.id <= lastEmployee
    BY DEF Knows
  <2>2. Knows(r)
    BY DEF r
  <2>3. QED
    BY <1>1, <1>4, <1>6, <1>7, <1>8, <1>9, <2>1, <2>2 DEF Knows

LEMMA DiffsStay ==
  ASSUME TypeOK, NEW d \in Calls, Shape(call[d]), Knows(call[d]), Diffs(call[d]),
         Stays(call'[d], call[d]), Tells(d)
  PROVE  Diffs(call[d])'
<1> DEFINE r == call[d]
<1>1. /\ call'[d].pc = r.pc /\ call'[d].op = r.op /\ call'[d].id = r.id /\ call'[d].ids = r.ids /\ call'[d].locks = r.locks
      /\ call'[d].want \subseteq r.want /\ r.touched \subseteq call'[d].touched
      /\ \A pair \in Pairs :
           On(r.want, A(pair)) /\ (pair \in assigned' \/ r.pc \notin {"delete", "cascade"}) => On(call'[d].want, A(pair))
  BY DEF Stays
<1>2. r.id \in Int /\ lastEmployee \in Int
  BY CallFields, DirectoryAssumption DEF TypeOK
<1>3. SUFFICES ASSUME call'[d].op = "update", call'[d].pc \in Diffing, NEW p \in PositionIds,
                      <<call'[d].id, p>> \notin call'[d].touched
               PROVE  PairAt(call[d], <<call[d].id, p>>, p \in call[d].ids)'
  BY DEF Diffs
<1> DEFINE pair == <<r.id, p>>
<1>4. r.id \in EmployeeIds /\ Owns(r.locks, r.id) /\ r.id <= lastEmployee
  BY <1>1, <1>3 DEF Shape, Knows
<1>5. pair \in Pairs /\ pair[1] = r.id
  BY <1>4 DEF Pairs
<1>6. pair \in assigned <=> pair \in assigned'
  BY <1>1, <1>2, <1>3, <1>4, <1>5 DEF Tells
<1>7. PairAt(r, pair, p \in r.ids)
  BY <1>1, <1>3 DEF Diffs
<1>8. /\ On(call'[d].want, A(pair)) => On(r.want, A(pair))
      /\ On(r.want, A(pair)) /\ (pair \in assigned' \/ r.pc \notin {"delete", "cascade"}) => On(call'[d].want, A(pair))
      /\ On(call'[d].locks, A(pair)) <=> On(r.locks, A(pair))
  BY <1>1, <1>5 DEF On
<1>9. /\ On(call'[d].locks \cup call'[d].want, A(pair)) <=> On(call'[d].locks, A(pair)) \/ On(call'[d].want, A(pair))
      /\ On(r.locks \cup r.want, A(pair)) <=> On(r.locks, A(pair)) \/ On(r.want, A(pair))
  BY DEF On
<1>10. PairAt(call[d], <<call[d].id, p>>, p \in call[d].ids)'
  <2> <<call'[d].id, p>> = pair /\ (p \in call'[d].ids <=> p \in r.ids)
    BY <1>1
  <2> HIDE DEF r, pair
  <2>1. CASE r.pc = "delete"
    BY <1>1, <1>6, <1>7, <1>8, <1>9, <2>1 DEF PairAt
  <2>2. CASE r.pc # "delete"
    BY <1>1, <1>6, <1>7, <1>8, <1>9, <2>2 DEF PairAt
  <2>3. QED
    BY <2>1, <2>2
<1>11. QED
  BY <1>10

(* A step of somebody else leaves a call what it is. *)
LEMMA Undisturbed ==
  ASSUME TypeOK, NEW d \in Calls, CallOK(call[d]), Stays(call'[d], call[d]), Spares(d), Tells(d)
  PROVE  CallOK(call[d])'
<1>1. call[d] \in Call
  BY DEF TypeOK
<1>2. Shape(call'[d])
  BY <1>1, ShapeStays DEF CallOK
<1>3. QED
  BY <1>2, CoversStays, KnowsStays, DiffsStay DEF CallOK


-----------------------------------------------------------------------------
(* The ids that are kept for the calls *)

LEMMA NeedsWithin ==
  RoomLeft => /\ ForEmployees \subseteq Busy /\ ForPositions \subseteq Busy
              /\ IsFiniteSet(ForEmployees) /\ IsFiniteSet(ForPositions)
              /\ Cardinality(ForEmployees) \in Nat /\ Cardinality(ForPositions) \in Nat
<1> SUFFICES ASSUME RoomLeft
             PROVE  /\ ForEmployees \subseteq Busy /\ ForPositions \subseteq Busy
                    /\ IsFiniteSet(ForEmployees) /\ IsFiniteSet(ForPositions)
                    /\ Cardinality(ForEmployees) \in Nat /\ Cardinality(ForPositions) \in Nat
  OBVIOUS
<1>1. ForEmployees \in SUBSET Busy /\ ForPositions \in SUBSET Busy
  BY DEF ForEmployees, ForPositions, Busy, NeedsEmployee, NeedsPosition
<1>2. IsFiniteSet(ForEmployees) /\ IsFiniteSet(ForPositions)
  BY <1>1, FS_Subset DEF RoomLeft
<1>3. QED
  BY <1>1, <1>2, FS_CardinalityType

LEMMA FewerNeeds ==
  ASSUME NEW S, IsFiniteSet(S), NEW T \in SUBSET S
  PROVE  /\ IsFiniteSet(T) /\ Cardinality(T) \in Nat /\ Cardinality(S) \in Nat
         /\ Cardinality(T) <= Cardinality(S)
         /\ \A x \in S \ T : Cardinality(T) + 1 <= Cardinality(S)
<1>1. /\ IsFiniteSet(T) /\ Cardinality(T) \in Nat /\ Cardinality(S) \in Nat
      /\ Cardinality(T) <= Cardinality(S)
  BY FS_Subset, FS_CardinalityType
<1>2. ASSUME NEW x \in S \ T
      PROVE  Cardinality(T) + 1 <= Cardinality(S)
  <2>1. T \cup {x} \in SUBSET S
    OBVIOUS
  <2>2. Cardinality(T \cup {x}) <= Cardinality(S)
    BY <2>1, FS_Subset
  <2>3. Cardinality(T \cup {x}) = Cardinality(T) + 1
    BY <1>1, FS_AddElement
  <2>4. QED
    BY <2>2, <2>3
<1>3. QED
  BY <1>1, <1>2

(* A call that c goes on with, or ends, needs no more than before. *)
GoesWith(c, q) ==
  /\ call' = [call EXCEPT ![c] = q]
  /\ q.op \in {call[c].op, "none"}
  /\ NeedsEmployee(q) => NeedsEmployee(call[c])
  /\ NeedsPosition(q) => NeedsPosition(call[c])

(* What the steps that need no new id do to the calls. *)
NoNewNeeds ==
  \A c \in Calls :
    /\ call'[c].op # "none" => call[c].op # "none"
    /\ NeedsEmployee(call'[c]) => NeedsEmployee(call[c])
    /\ NeedsPosition(call'[c]) => NeedsPosition(call[c])

LEMMA RoomKept ==
  ASSUME TypeOK, RoomLeft, NoNewNeeds,
         \/ lastEmployee' = lastEmployee
         \/ /\ lastEmployee' = lastEmployee + 1
            /\ \E c \in Calls : NeedsEmployee(call[c]) /\ ~NeedsEmployee(call'[c]),
         \/ lastPosition' = lastPosition
         \/ /\ lastPosition' = lastPosition + 1
            /\ \E c \in Calls : NeedsPosition(call[c]) /\ ~NeedsPosition(call'[c])
  PROVE  RoomLeft'
<1>1. Busy' \in SUBSET Busy /\ IsFiniteSet(Busy)
  BY DEF NoNewNeeds, Busy, RoomLeft
<1>2. ForEmployees' \in SUBSET ForEmployees /\ ForPositions' \in SUBSET ForPositions
  <2>1. ForEmployees' = {c \in Calls : NeedsEmployee(call'[c])}
    BY DEF ForEmployees, NeedsEmployee
  <2>2. ForPositions' = {c \in Calls : NeedsPosition(call'[c])}
    BY DEF ForPositions, NeedsPosition
  <2>3. QED
    BY <2>1, <2>2 DEF NoNewNeeds, ForEmployees, ForPositions
<1>3. IsFiniteSet(ForEmployees) /\ IsFiniteSet(ForPositions)
  BY NeedsWithin
<1>4. /\ Cardinality(ForEmployees') \in Nat /\ Cardinality(ForEmployees) \in Nat
      /\ Cardinality(ForEmployees') <= Cardinality(ForEmployees)
      /\ \A x \in ForEmployees \ ForEmployees' :
           Cardinality(ForEmployees') + 1 <= Cardinality(ForEmployees)
  BY <1>2, <1>3, FewerNeeds
<1>5. /\ Cardinality(ForPositions') \in Nat /\ Cardinality(ForPositions) \in Nat
      /\ Cardinality(ForPositions') <= Cardinality(ForPositions)
      /\ \A x \in ForPositions \ ForPositions' :
           Cardinality(ForPositions') + 1 <= Cardinality(ForPositions)
  BY <1>2, <1>3, FewerNeeds
<1>6. IsFiniteSet(Busy')
  BY <1>1, FS_Subset
<1>7. /\ lastEmployee \in Nat /\ lastPosition \in Nat
      /\ MaxEmployees \in Nat /\ MaxPositions \in Nat
  BY DirectoryAssumption DEF TypeOK
<1>8. /\ lastEmployee + Cardinality(ForEmployees) <= MaxEmployees
      /\ lastPosition + Cardinality(ForPositions) <= MaxPositions
  BY DEF RoomLeft
<1>9. lastEmployee' + Cardinality(ForEmployees') <= MaxEmployees
  <2>1. CASE lastEmployee' = lastEmployee
    BY <2>1, <1>4, <1>7, <1>8
  <2>2. CASE /\ lastEmployee' = lastEmployee + 1
             /\ \E c \in Calls : NeedsEmployee(call[c]) /\ ~NeedsEmployee(call'[c])
    <3>1. PICK c \in Calls : NeedsEmployee(call[c]) /\ ~NeedsEmployee(call'[c])
      BY <2>2
    <3>2. c \in ForEmployees \ ForEmployees'
      BY <3>1 DEF ForEmployees, NeedsEmployee
    <3>3. Cardinality(ForEmployees') + 1 <= Cardinality(ForEmployees)
      BY <1>4, <3>2
    <3>4. QED
      BY <2>2, <3>3, <1>4, <1>7, <1>8
  <2>3. QED
    BY <2>1, <2>2
<1>10. lastPosition' + Cardinality(ForPositions') <= MaxPositions
  <2>1. CASE lastPosition' = lastPosition
    BY <2>1, <1>5, <1>7, <1>8
  <2>2. CASE /\ lastPosition' = lastPosition + 1
             /\ \E c \in Calls : NeedsPosition(call[c]) /\ ~NeedsPosition(call'[c])
    <3>1. PICK c \in Calls : NeedsPosition(call[c]) /\ ~NeedsPosition(call'[c])
      BY <2>2
    <3>2. c \in ForPositions \ ForPositions'
      BY <3>1 DEF ForPositions, NeedsPosition
    <3>3. Cardinality(ForPositions') + 1 <= Cardinality(ForPositions)
      BY <1>5, <3>2
    <3>4. QED
      BY <2>2, <3>3, <1>5, <1>7, <1>8
  <2>3. QED
    BY <2>1, <2>2
<1>11. QED
  BY <1>6, <1>9, <1>10 DEF RoomLeft


-----------------------------------------------------------------------------
(* Steps that write no row *)

Steps == {"idle", "read", "confirm", "count", "row", "index", "delete", "insert",
          "keys", "cascade", "find", "found", "hire", "password", "assign"}

(* The record q is r at another step. *)
GoesOnAs(q, r, step, want) ==
  /\ q \in Call
  /\ q.pc = step /\ q.want = want
  /\ q.op = r.op /\ q.id = r.id /\ q.ids = r.ids /\ q.odoo = r.odoo
  /\ q.locks = r.locks /\ q.touched = r.touched

LEMMA NextRecord ==
  ASSUME NEW r \in Call, NEW step \in Steps, NEW want, want \subseteq Locks
  PROVE  GoesOnAs([r EXCEPT !.pc = step, !.want = want], r, step, want)
BY DEF Call, Steps, Locks, GoesOnAs

LEMMA IdleRecord ==
  /\ Idle \in Call /\ Idle.pc = "idle" /\ Idle.op = "none" /\ Idle.id = 0 /\ Idle.ids = {}
  /\ Idle.odoo = NoRow /\ Idle.locks = {} /\ Idle.want = {} /\ Idle.touched = {}
BY DEF Idle, Call

(* Who has no locks, and has looked at nothing, is all right. *)
LEMMA IdleOK == CallOK(Idle)
BY IdleRecord DEF CallOK, Shape, Covers, Knows, Diffs

LEMMA CallPut ==
  ASSUME TypeOK, NEW c \in Calls, NEW q, call' = [call EXCEPT ![c] = q]
  PROVE  /\ call'[c] = q /\ \A d \in Calls \ {c} : call'[d] = call[d]
         /\ DOMAIN call' = Calls
BY DEF TypeOK

LEMMA TablesSpared ==
  ASSUME DirInv, UNCHANGED tables, confirmed \subseteq confirmed', NEW d \in Calls,
         call'[d] = call[d]
  PROVE  CallOK(call[d])'
<1>1. /\ employee' = employee /\ position' = position /\ assigned' = assigned
      /\ lastEmployee' = lastEmployee
  BY DEF tables
<1>2. TypeOK /\ CallOK(call[d])
  BY DEF DirInv
<1>3. lastEmployee \in Nat
  BY <1>2, DirectoryAssumption DEF TypeOK
<1>4. Employees' = Employees /\ Positions' = Positions
  BY <1>1 DEF Employees, Positions
<1>5. \A odoo : OdooFree(odoo)' <=> OdooFree(odoo)
  BY <1>1, <1>4 DEF OdooFree
<1>6. Spares(d)
  BY <1>1, <1>3, <1>4, <1>5 DEF Spares
<1>7. Tells(d)
  BY <1>1 DEF Tells
<1>8. call[d] \in Call
  BY <1>2 DEF TypeOK
<1>9. Stays(call'[d], call[d])
  BY <1>1, <1>8 DEF Stays
<1>10. QED
  BY <1>2, <1>6, <1>7, <1>9, Undisturbed

LEMMA RowsAsBefore ==
  ASSUME DirInv, UNCHANGED tables, confirmed \subseteq confirmed', confirmed' \subseteq OdooIds,
         made' \in 0 .. MaxCalls, DOMAIN call' = Calls, \A d \in Calls : call'[d] \in Call,
         Exclusive(Held)'
  PROVE  TypeOK' /\ OdooIdsConfirmed' /\ AdminHasPassword'
<1>1. /\ employee' = employee /\ position' = position /\ assigned' = assigned
      /\ lastEmployee' = lastEmployee /\ lastPosition' = lastPosition
  BY DEF tables
<1>2. Employees' = Employees /\ Positions' = Positions
  BY <1>1 DEF Employees, Positions
<1>3. TypeOK /\ OdooIdsConfirmed /\ AdminHasPassword
  BY DEF DirInv
<1>4. TypeOK'
  BY <1>1, <1>2, <1>3 DEF TypeOK
<1>5. QED
  BY <1>1, <1>2, <1>3, <1>4 DEF OdooIdsConfirmed, AdminHasPassword

(* c goes on as q, without a new lock. *)
LEMMA QuietStep ==
  ASSUME DirInv, NEW c \in Calls, NEW q \in Call, GoesWith(c, q), UNCHANGED <<tables, made>>,
         confirmed \subseteq confirmed', confirmed' \subseteq OdooIds,
         q.locks \subseteq call[c].locks, CallOK(call[c])'
  PROVE  DirInv'
<1>1. TypeOK /\ RoomLeft
  BY DEF DirInv
<1>2. /\ call' = [call EXCEPT ![c] = q] /\ UNCHANGED tables /\ made' = made
      /\ lastEmployee' = lastEmployee /\ lastPosition' = lastPosition
  BY DEF GoesWith, tables
<1>3. /\ call'[c] = q /\ \A d \in Calls \ {c} : call'[d] = call[d]
      /\ DOMAIN call' = Calls
  BY <1>1, <1>2, CallPut
<1>4. \A d \in Calls : CallOK(call[d])'
  BY <1>2, <1>3, TablesSpared
<1>5. \A d \in Calls : call'[d] \in Call /\ call'[d].locks \subseteq call[d].locks
  BY <1>1, <1>3 DEF TypeOK
<1>6. Exclusive(Held)'
  BY <1>1, <1>5, ExclusiveKept DEF TypeOK
<1>7. made' \in 0 .. MaxCalls
  BY <1>1, <1>2 DEF TypeOK
<1>8. TypeOK' /\ OdooIdsConfirmed' /\ AdminHasPassword'
  BY <1>2, <1>3, <1>5, <1>6, <1>7, RowsAsBefore
<1>9. NoNewNeeds
  BY <1>3 DEF NoNewNeeds, GoesWith
<1>10. RoomLeft'
  BY <1>1, <1>2, <1>9, RoomKept
<1>11. QED
  BY <1>4, <1>8, <1>10 DEF DirInv

LEMMA FailStep ==
  ASSUME DirInv, NEW c \in Calls, Fail(c)
  PROVE  DirInv'
<1>1. TypeOK
  BY DEF DirInv
<1>2. /\ call' = [call EXCEPT ![c] = Idle] /\ UNCHANGED tables /\ made' = made
      /\ confirmed' = confirmed
  BY DEF Fail, Becomes
<1>3. GoesWith(c, Idle)
  BY <1>2, IdleRecord DEF GoesWith, NeedsEmployee, NeedsPosition
<1>4. CallOK(Idle)'
  BY IdleOK, PTL
<1>5. call'[c] = Idle
  BY <1>1, <1>2, CallPut
<1>6. Shape(Idle) /\ CallOK(call[c])'
  BY <1>5, IdleRecord DEF CallOK, Shape, Covers, Knows, Diffs
<1>7. confirmed' \subseteq OdooIds
  BY <1>1, <1>2 DEF TypeOK
<1>8. QED
  BY <1>2, <1>3, <1>6, <1>7, IdleRecord, QuietStep


LEMMA OKAsBefore ==
  ASSUME DirInv, UNCHANGED tables, confirmed \subseteq confirmed', NEW c \in Calls, CallOK(call'[c])
  PROVE  CallOK(call[c])'
<1>1. /\ employee' = employee /\ position' = position /\ assigned' = assigned
      /\ lastEmployee' = lastEmployee
  BY DEF tables
<1>2. Employees' = Employees /\ Positions' = Positions
  BY <1>1 DEF Employees, Positions
<1>3. \A odoo : OdooFree(odoo)' <=> OdooFree(odoo)
  BY <1>1, <1>2 DEF OdooFree
<1>4. Shape(call'[c]) /\ Covers(call'[c]) /\ Knows(call'[c]) /\ Diffs(call'[c])
  BY DEF CallOK
<1>5. Covers(call[c])'
  BY <1>1, <1>2, <1>3, <1>4 DEF Covers
<1>6. Knows(call[c])'
  BY <1>1, <1>2, <1>4 DEF Knows
<1>7. Diffs(call[c])'
  BY <1>1, <1>4 DEF Diffs, PairAt
<1>8. QED
  BY <1>4, <1>5, <1>6, <1>7 DEF CallOK

(* c's next statement starts: what has to be shown of it. *)
LEMMA GoesStep ==
  ASSUME DirInv, NEW c \in Calls, NEW step \in Steps, NEW want, want \subseteq Locks,
         Goes(c, step, want),
         call[c].op = "bootstrap" => call[c].pc = "find" /\ step = "found",
         \A q : GoesOnAs(q, call[c], step, want) => Shape(q) /\ Knows(q) /\ Diffs(q)
  PROVE  DirInv'
<1> DEFINE r == call[c]
           q == [r EXCEPT !.pc = step, !.want = want]
<1>1. TypeOK /\ CallOK(r)
  BY DEF DirInv
<1>2. r \in Call
  BY <1>1 DEF TypeOK
<1>3. GoesOnAs(q, r, step, want)
  BY <1>2, NextRecord
<1>4. /\ call' = [call EXCEPT ![c] = q] /\ UNCHANGED tables /\ made' = made
      /\ confirmed' = confirmed
  BY DEF Goes, Becomes
<1> HIDE DEF q
<1>5. Shape(q) /\ Knows(q) /\ Diffs(q)
  BY <1>3
<1>6. q.op = r.op /\ q.locks = r.locks /\ q.pc = step /\ q \in Call
  BY <1>3 DEF GoesOnAs
<1>7. Covers(q)
  BY <1>1, <1>6 DEF CallOK, Covers
<1>8. call'[c] = q
  BY <1>1, <1>4, CallPut
<1>9. CallOK(call[c])'
  BY <1>4, <1>5, <1>7, <1>8, OKAsBefore DEF CallOK
<1>10. GoesWith(c, q)
  BY <1>4, <1>6 DEF GoesWith, NeedsEmployee, NeedsPosition
<1>11. confirmed' \subseteq OdooIds
  BY <1>1, <1>4 DEF TypeOK
<1>12. QED
  BY <1>4, <1>6, <1>9, <1>10, <1>11, QuietStep

-----------------------------------------------------------------------------
(* CreateEmployee *)

LEMMA CreateCountStep ==
  ASSUME DirInv, NEW c \in Calls, CreateCount(c)
  PROVE  DirInv'
<1>1. CASE Fail(c)
  BY <1>1, FailStep
<1>2. CASE Goes(c, "index", {Lock("key", O(call[c].odoo))})
  <2> DEFINE want == {Lock("key", O(call[c].odoo))}
  <2>1. call[c].pc = "count" /\ call[c].op = "create"
    BY DEF CreateCount, At
  <2>2. Shape(call[c]) /\ Knows(call[c])
    BY DEF DirInv, CallOK
  <2>3. call[c].odoo \in OdooIds
    BY <2>1, <2>2 DEF Shape
  <2>4. want \subseteq Locks /\ \A l \in want : l.row = O(call[c].odoo) /\ l.mode = "key"
    BY <2>3, RowsAre, LockFields DEF Locks, Lock, Modes
  <2>5. ASSUME NEW q, GoesOnAs(q, call[c], "index", want)
        PROVE  Shape(q) /\ Knows(q) /\ Diffs(q)
    <3>1. \A l \in q.want : l.mode = "key" /\ \A e \in EmployeeIds : l.row # E(e)
      BY <2>4, <2>5, RowsDiffer DEF GoesOnAs
    <3>2. /\ q.pc = "index" /\ q.op = "create" /\ q.locks = call[c].locks
          /\ q.odoo = call[c].odoo /\ q.ids = call[c].ids
      BY <2>1, <2>5 DEF GoesOnAs
    <3>3. Shape(q)
      BY <2>1, <2>2, <3>1, <3>2 DEF Shape
    <3>4. QED
      BY <2>1, <2>2, <3>2, <3>3 DEF Knows, Diffs
  <2>6. QED
    <3> HIDE DEF want
    <3>1. Goes(c, "index", want)
      BY <1>2 DEF want
    <3>2. QED
      BY <2>1, <2>4, <2>5, <3>1, GoesStep DEF Steps
<1>3. QED
  BY <1>1, <1>2 DEF CreateCount

LEMMA CreateInsertStep ==
  ASSUME DirInv, NEW c \in Calls, CreateInsert(c)
  PROVE  DirInv'
<1>1. CASE Fail(c)
  BY <1>1, FailStep
<1>2. CASE HasRow(c, O(call[c].odoo)) /\ Goes(c, "keys", LocksOf("share", {P(p) : p \in call[c].ids}))
  <2> DEFINE S == {P(p) : p \in call[c].ids}
             want == LocksOf("share", S)
  <2>1. call[c].pc = "index" /\ call[c].op = "create"
    BY DEF CreateInsert, Ready, At
  <2>2. Shape(call[c]) /\ Knows(call[c])
    BY DEF DirInv, CallOK
  <2>3. call[c].ids \subseteq PositionIds
    BY <2>1, <2>2 DEF Shape
  <2>4. S \subseteq Rows /\ \A row \in S : (\A e : row # E(e)) /\ (\A odoo : row # O(odoo))
    BY <2>3, RowsAre, RowsDiffer
  <2> HIDE DEF S
  <2>5. want \subseteq Locks /\ \A l \in want : l.row \in S
    BY <2>4, LocksOfType DEF Modes
  <2> HIDE DEF want
  <2>6. ASSUME NEW q, GoesOnAs(q, call[c], "keys", want)
        PROVE  Shape(q) /\ Knows(q) /\ Diffs(q)
    <3>1. \A l \in q.want : (\A e : l.row # E(e)) /\ (\A odoo : l.row # O(odoo))
      BY <2>4, <2>5, <2>6 DEF GoesOnAs
    <3>2. /\ q.pc = "keys" /\ q.op = "create" /\ q.locks = call[c].locks
          /\ q.odoo = call[c].odoo /\ q.ids = call[c].ids
      BY <2>1, <2>6 DEF GoesOnAs
    <3>3. On(q.locks, O(q.odoo))
      BY <1>2, <3>2 DEF HasRow, On
    <3>4. Shape(q)
      BY <2>1, <2>2, <3>1, <3>2, <3>3 DEF Shape
    <3>5. QED
      BY <2>1, <2>2, <3>2, <3>4 DEF Knows, Diffs
  <2>7. Goes(c, "keys", want)
    BY <1>2 DEF want, S
  <2>8. QED
    BY <2>1, <2>5, <2>6, <2>7, GoesStep DEF Steps
<1>3. QED
  BY <1>1, <1>2 DEF CreateInsert


-----------------------------------------------------------------------------
(* UpdateEmployee *)

LEMMA UpdateReadStep ==
  ASSUME DirInv, NEW c \in Calls, UpdateRead(c)
  PROVE  DirInv'
<1> DEFINE r == call[c]
           step == IF employee[r.id].odoo = r.odoo THEN "count" ELSE "confirm"
<1>1. CASE Fail(c)
  BY <1>1, FailStep
<1>2. CASE r.id \in Employees /\ Goes(c, step, {})
  <2>1. r.pc = "read" /\ r.op = "update"
    BY DEF UpdateRead, At
  <2>2. Shape(r) /\ Knows(r) /\ OdooIdsConfirmed
    BY DEF DirInv, CallOK
  <2>3. step = "count" =>
          r.odoo \in confirmed \/ employee[r.id].origin # "service"
    BY <1>2, <2>2 DEF OdooIdsConfirmed
  <2>4. step \in Steps /\ step \in {"count", "confirm"}
    BY DEF Steps
  <2> HIDE DEF step
  <2>5. ASSUME NEW q, GoesOnAs(q, r, step, {})
        PROVE  Shape(q) /\ Knows(q) /\ Diffs(q)
    <3>1. /\ q.pc = step /\ q.op = "update" /\ q.locks = r.locks /\ q.id = r.id
          /\ q.odoo = r.odoo /\ q.ids = r.ids /\ q.want = {} /\ r.locks = {}
      BY <2>1, <2>2, <2>5 DEF GoesOnAs, Shape
    <3>2. Shape(q)
      BY <2>1, <2>2, <2>4, <3>1 DEF Shape, Diffing
    <3>3. Knows(q)
      BY <2>1, <2>2, <2>3, <2>4, <3>1 DEF Knows, Diffing
    <3>4. Diffs(q)
      BY <2>4, <3>1 DEF Diffs, Diffing
    <3>5. QED
      BY <3>2, <3>3, <3>4
  <2>6. QED
    BY <1>2, <2>1, <2>4, <2>5, GoesStep
<1>3. QED
  BY <1>1, <1>2 DEF UpdateRead

LEMMA UpdateCountStep ==
  ASSUME DirInv, NEW c \in Calls, UpdateCount(c)
  PROVE  DirInv'
<1> DEFINE r == call[c]
<1>1. CASE Fail(c)
  BY <1>1, FailStep
<1>2. ASSUME NEW mode \in {"update", "key"}, Goes(c, "row", UpdateLocks(c, mode))
      PROVE  DirInv'
  <2>1. r.pc = "count" /\ r.op = "update"
    BY DEF UpdateCount, At
  <2>2. Shape(r) /\ Knows(r)
    BY DEF DirInv, CallOK
  <2>3. r.id \in EmployeeIds /\ r.locks = {}
    BY <2>1, <2>2 DEF Shape
  <2>4. UpdateLocks(c, mode) \subseteq Locks
    BY <2>3, RowsAre DEF UpdateLocks, Lock, Locks, Modes
  <2>5. \A l \in UpdateLocks(c, mode) : l.row = E(r.id) /\ l.mode \in {"update", "key"}
    BY LockFields DEF UpdateLocks
  <2>6. ASSUME NEW q, GoesOnAs(q, r, "row", UpdateLocks(c, mode))
        PROVE  Shape(q) /\ Knows(q) /\ Diffs(q)
    <3>1. /\ q.pc = "row" /\ q.op = "update" /\ q.locks = {} /\ q.id = r.id
          /\ q.odoo = r.odoo /\ q.ids = r.ids /\ q.want = UpdateLocks(c, mode)
      BY <2>1, <2>3, <2>6 DEF GoesOnAs
    <3>2. \A l \in q.locks \cup q.want :
            /\ \A e \in EmployeeIds : l.row = E(e) => e = q.id
            /\ (\A pair \in Pairs : l.row # A(pair)) /\ (\A odoo : l.row # O(odoo))
            /\ l.mode \in {"update", "key"}
      BY <2>5, <3>1, RowsDiffer
    <3>3. Shape(q)
      BY <2>1, <2>2, <2>3, <3>1, <3>2 DEF Shape, Diffing
    <3>4. Knows(q)
      BY <2>1, <2>2, <3>1 DEF Knows, Diffing
    <3>5. Diffs(q)
      BY <3>1 DEF Diffs, Diffing
    <3>6. QED
      BY <3>3, <3>4, <3>5
  <2>7. QED
    BY <1>2, <2>1, <2>4, <2>6, GoesStep DEF Steps
<1>3. QED
  BY <1>1, <1>2 DEF UpdateCount

(* The row is locked once more, in the stronger mode. *)
LEMMA UpdateRelock ==
  ASSUME DirInv, NEW c \in Calls, call[c].pc = "row", call[c].op = "update",
         Becomes(c, [call[c] EXCEPT !.locks = {}, !.want = {Lock("key", E(call[c].id))}]),
         UNCHANGED <<tables, made, confirmed>>
  PROVE  DirInv'
<1> DEFINE r == call[c]
           key == Lock("key", E(r.id))
           q == [r EXCEPT !.locks = {}, !.want = {key}]
<1>1. TypeOK /\ Shape(r) /\ Knows(r)
  BY DEF DirInv, CallOK
<1>2. r \in Call
  BY <1>1 DEF TypeOK
<1>3. r.id \in EmployeeIds
  BY <1>1 DEF Shape
<1>4. key \in Locks /\ key.row = E(r.id) /\ key.mode = "key"
  BY <1>3, RowsAre DEF Lock, Locks, Modes
<1> HIDE DEF key
<1>5. /\ q \in Call /\ q.pc = "row" /\ q.op = "update" /\ q.id = r.id /\ q.ids = r.ids
      /\ q.odoo = r.odoo /\ q.locks = {} /\ q.want = {key}
  BY <1>2, <1>4 DEF Call, Locks
<1>6. call' = [call EXCEPT ![c] = q]
  BY DEF Becomes, key
<1> HIDE DEF q
<1>7. \A l \in q.locks \cup q.want :
        /\ \A e \in EmployeeIds : l.row = E(e) => e = q.id
        /\ (\A pair \in Pairs : l.row # A(pair)) /\ (\A odoo : l.row # O(odoo))
        /\ l.mode \in {"update", "key"}
  BY <1>4, <1>5, RowsDiffer
<1>8. Shape(q)
  BY <1>1, <1>3, <1>5, <1>7 DEF Shape, Diffing
<1>9. Knows(q)
  BY <1>1, <1>5 DEF Knows, Diffing
<1>10. Covers(q) /\ Diffs(q)
  BY <1>5 DEF Covers, Diffs, Diffing
<1>11. call'[c] = q
  BY <1>1, <1>6, CallPut
<1>12. CallOK(call[c])'
  BY <1>8, <1>9, <1>10, <1>11, OKAsBefore DEF CallOK
<1>13. GoesWith(c, q)
  BY <1>5, <1>6 DEF GoesWith, NeedsEmployee, NeedsPosition
<1>14. confirmed' \subseteq OdooIds
  BY <1>1 DEF TypeOK
<1>15. QED
  BY <1>5, <1>12, <1>13, <1>14, QuietStep

LEMMA UpdateRowStep ==
  ASSUME DirInv, NEW c \in Calls, UpdateRow(c)
  PROVE  DirInv'
<1> DEFINE r == call[c]
           want == IF Rekeys(c) THEN {Lock("key", O(r.odoo))} ELSE {}
<1>1. r.pc = "row" /\ r.op = "update" /\ r.want = {}
  BY DEF UpdateRow, Ready, At
<1>2. CASE Fail(c)
  BY <1>2, FailStep
<1>3. CASE /\ Becomes(c, [call[c] EXCEPT !.locks = {}, !.want = {Lock("key", E(call[c].id))}])
           /\ UNCHANGED <<tables, made, confirmed>>
  BY <1>1, <1>3, UpdateRelock
<1>4. CASE HasRow(c, E(r.id)) /\ Goes(c, "index", want)
  <2>1. Shape(r) /\ Knows(r)
    BY DEF DirInv, CallOK
  <2>2. r.odoo \in OdooIds /\ r.id \in EmployeeIds
    BY <1>1, <2>1 DEF Shape
  <2>3. want \subseteq Locks /\ \A l \in want : l.row = O(r.odoo) /\ l.mode = "key"
    BY <2>2, RowsAre DEF Lock, Locks, Modes
  <2>4. Owns(r.locks, r.id)
    BY <1>1, <1>4, <2>1 DEF Shape, HasRow, Owns
  <2>5. Goes(c, "index", want)
    BY <1>4
  <2> HIDE DEF want
  <2>6. ASSUME NEW q, GoesOnAs(q, r, "index", want)
        PROVE  Shape(q) /\ Knows(q) /\ Diffs(q)
    <3>1. /\ q.pc = "index" /\ q.op = "update" /\ q.locks = r.locks /\ q.id = r.id
          /\ q.odoo = r.odoo /\ q.ids = r.ids /\ q.want = want
      BY <1>1, <2>6 DEF GoesOnAs
    <3>2. \A l \in q.want :
            /\ \A e \in EmployeeIds : l.row # E(e)
            /\ \A pair \in Pairs : l.row # A(pair)
            /\ l.mode = "key"
      BY <2>3, <3>1, RowsDiffer
    <3>3. Shape(q)
      BY <1>1, <2>1, <2>2, <2>4, <3>1, <3>2 DEF Shape, Diffing
    <3>4. Knows(q)
      BY <1>1, <2>1, <3>1 DEF Knows, Diffing
    <3>5. Diffs(q)
      BY <3>1 DEF Diffs, Diffing
    <3>6. QED
      BY <3>3, <3>4, <3>5
  <2>7. QED
    BY <1>1, <2>3, <2>5, <2>6, GoesStep DEF Steps
<1>5. QED
  BY <1>2, <1>3, <1>4 DEF UpdateRow


-----------------------------------------------------------------------------
(* The diff *)

LEMMA PairLocks ==
  ASSUME NEW S, S \subseteq Pairs
  PROVE  /\ LocksOf("key", {A(pair) : pair \in S}) \subseteq Locks
         /\ \A l \in LocksOf("key", {A(pair) : pair \in S}) :
              l.mode = "key" /\ \E pair \in S : l.row = A(pair)
         /\ \A pair : On(LocksOf("key", {A(a) : a \in S}), A(pair)) <=> pair \in S
<1> DEFINE R == {A(pair) : pair \in S}
<1>1. R \subseteq Rows /\ \A row \in R : \E pair \in S : row = A(pair)
  BY RowsAre
<1>2. \A pair : A(pair) \in R <=> pair \in S
  BY RowsDiffer
<1> HIDE DEF R
<1>3. /\ LocksOf("key", R) \subseteq Locks
      /\ \A l \in LocksOf("key", R) : l.mode = "key" /\ l.row \in R
      /\ \A row : On(LocksOf("key", R), row) <=> row \in R
  BY <1>1, LocksOfType DEF Modes
<1>4. QED
  BY <1>1, <1>2, <1>3 DEF R

LEMMA AssignedInPairs == TypeOK => assigned \subseteq Pairs
BY DEF TypeOK, Pairs, Employees, Positions

(* UpdateEmployee's DELETE. *)
LEMMA UpdateIndexStep ==
  ASSUME DirInv, NEW c \in Calls, UpdateIndex(c)
  PROVE  DirInv'
<1> DEFINE r == call[c]
           want == LocksOf("key", {A(pair) : pair \in Dropped(c)})
<1>1. CASE Fail(c)
  BY <1>1, FailStep
<1>2. CASE (Rekeys(c) => HasRow(c, O(r.odoo))) /\ DeleteNotIn(c)
  <2>1. r.pc = "index" /\ r.op = "update" /\ r.want = {}
    BY DEF UpdateIndex, Ready, At
  <2>2. Shape(r) /\ Knows(r) /\ TypeOK
    BY DEF DirInv, CallOK
  <2>3. r.id \in EmployeeIds
    BY <2>1, <2>2 DEF Shape
  <2>4. Dropped(c) = {pair \in assigned \ ({r.id} \X r.ids) : pair[1] = r.id}
    BY <2>1 DEF Dropped, Submitted
  <2>5. Dropped(c) \subseteq Pairs
    BY <2>2, <2>4, AssignedInPairs
  <2>6. /\ want \subseteq Locks
        /\ \A l \in want : l.mode = "key" /\ \E pair \in Dropped(c) : l.row = A(pair)
        /\ \A pair : On(want, A(pair)) <=> pair \in Dropped(c)
    BY <2>5, PairLocks
  <2>7. Goes(c, "delete", want)
    BY <1>2 DEF DeleteNotIn
  <2> HIDE DEF want
  <2>8. ASSUME NEW q, GoesOnAs(q, r, "delete", want)
        PROVE  Shape(q) /\ Knows(q) /\ Diffs(q)
    <3>1. /\ q.pc = "delete" /\ q.op = "update" /\ q.locks = r.locks /\ q.id = r.id
          /\ q.odoo = r.odoo /\ q.ids = r.ids /\ q.want = want
      BY <2>1, <2>8 DEF GoesOnAs
    <3>2. \A l \in q.want :
            /\ \A e \in EmployeeIds : l.row # E(e)
            /\ \A pair \in Pairs : l.row = A(pair) => pair[1] = q.id
            /\ l.mode = "key"
      BY <2>4, <2>6, <3>1, RowsDiffer
    <3>3. Shape(q)
      BY <2>1, <2>2, <2>3, <3>1, <3>2 DEF Shape, Diffing
    <3>4. employee[r.id].odoo = r.odoo \/ On(r.locks, O(r.odoo))
      BY <1>2 DEF Rekeys, HasRow, On
    <3>5. Knows(q)
      BY <2>1, <2>2, <3>1, <3>4 DEF Knows, Diffing
    <3>6. ASSUME NEW p \in PositionIds
          PROVE  PairAt(q, <<q.id, p>>, p \in q.ids)
      <4>1. <<r.id, p>> \in Pairs
        BY <2>3 DEF Pairs
      <4>2. ~On(q.locks, A(<<r.id, p>>))
        BY <2>1, <2>2, <3>1, <4>1 DEF Shape, On
      <4>3. On(q.want, A(<<r.id, p>>)) <=> <<r.id, p>> \in assigned /\ p \notin r.ids
        BY <2>4, <2>6, <3>1
      <4>4. On(q.locks \cup q.want, A(<<r.id, p>>)) <=> On(q.want, A(<<r.id, p>>))
        BY <4>2 DEF On
      <4>5. QED
        BY <3>1, <4>2, <4>3, <4>4 DEF PairAt
    <3>7. QED
      BY <3>3, <3>5, <3>6 DEF Diffs
  <2>9. QED
    BY <2>1, <2>6, <2>7, <2>8, GoesStep DEF Steps
<1>3. QED
  BY <1>1, <1>2 DEF UpdateIndex

(* SetPositionEmployees' DELETE. *)
LEMMA AppointCountStep ==
  ASSUME DirInv, NEW c \in Calls, AppointCount(c)
  PROVE  DirInv'
<1> DEFINE r == call[c]
           want == LocksOf("key", {A(pair) : pair \in Dropped(c)})
<1>1. CASE Fail(c)
  BY <1>1, FailStep
<1>2. CASE DeleteNotIn(c)
  <2>1. r.pc = "count" /\ r.op = "appoint"
    BY DEF AppointCount, At
  <2>2. Shape(r) /\ Knows(r) /\ TypeOK
    BY DEF DirInv, CallOK
  <2>3. Dropped(c) \subseteq Pairs
    BY <2>2, AssignedInPairs DEF Dropped
  <2>4. want \subseteq Locks /\ \A l \in want : l.mode = "key"
    BY <2>3, PairLocks
  <2>5. Goes(c, "delete", want)
    BY <1>2 DEF DeleteNotIn
  <2> HIDE DEF want
  <2>6. ASSUME NEW q, GoesOnAs(q, r, "delete", want)
        PROVE  Shape(q) /\ Knows(q) /\ Diffs(q)
    <3>1. /\ q.pc = "delete" /\ q.op = "appoint" /\ q.id = r.id /\ q.ids = r.ids
          /\ q.locks = r.locks /\ q.want = want
      BY <2>1, <2>6 DEF GoesOnAs
    <3>2. QED
      BY <2>1, <2>2, <2>4, <3>1 DEF Shape, Knows, Diffs
  <2>7. QED
    BY <2>1, <2>4, <2>5, <2>6, GoesStep DEF Steps
<1>3. QED
  BY <1>1, <1>2 DEF AppointCount

LEMMA InsertSetStep ==
  ASSUME DirInv, NEW c \in Calls, InsertSet(c)
  PROVE  DirInv'
<1> DEFINE r == call[c]
           want == LocksOf("key", {A(pair) : pair \in Submitted(c)})
<1>1. r.pc = "delete" /\ r.op \in {"update", "appoint"} /\ r.want = {}
  BY DEF InsertSet, Ready, At
<1>2. Shape(r) /\ Knows(r) /\ Diffs(r)
  BY DEF DirInv, CallOK
<1>3. /\ r.op = "update" => r.id \in EmployeeIds /\ r.ids \subseteq PositionIds
      /\ r.op = "appoint" => r.id \in PositionIds /\ r.ids \subseteq EmployeeIds
  BY <1>2 DEF Shape
<1>4. Submitted(c) = IF r.op = "appoint" THEN r.ids \X {r.id} ELSE {r.id} \X r.ids
  BY DEF Submitted
<1>5. Submitted(c) \subseteq Pairs
  BY <1>1, <1>3, <1>4 DEF Pairs
<1>6. /\ want \subseteq Locks
      /\ \A l \in want : l.mode = "key" /\ \E pair \in Submitted(c) : l.row = A(pair)
      /\ \A pair : On(want, A(pair)) <=> pair \in Submitted(c)
  BY <1>5, PairLocks
<1>7. Goes(c, "insert", want)
  BY DEF InsertSet
<1> HIDE DEF want
<1>8. ASSUME NEW q, GoesOnAs(q, r, "insert", want)
      PROVE  Shape(q) /\ Knows(q) /\ Diffs(q)
  <2>1. /\ q.pc = "insert" /\ q.op = r.op /\ q.locks = r.locks /\ q.id = r.id
        /\ q.odoo = r.odoo /\ q.ids = r.ids /\ q.want = want /\ q.touched = r.touched
    BY <1>8 DEF GoesOnAs
  <2>2. CASE r.op = "appoint"
    BY <1>2, <1>6, <2>1, <2>2 DEF Shape, Knows, Diffs
  <2>3. CASE r.op = "update"
    <3>1. \A l \in q.want :
            /\ \A e \in EmployeeIds : l.row # E(e)
            /\ \A pair \in Pairs : l.row = A(pair) => pair[1] = q.id
            /\ l.mode = "key"
      BY <1>4, <1>6, <2>1, <2>3, RowsDiffer
    <3>2. Shape(q)
      BY <1>1, <1>2, <1>3, <2>1, <2>3, <3>1 DEF Shape, Diffing
    <3>3. Knows(q)
      BY <1>1, <1>2, <2>1, <2>3 DEF Knows, Diffing
    <3>4. ASSUME NEW p \in PositionIds, PairAt(r, <<r.id, p>>, p \in r.ids)
          PROVE  PairAt(q, <<r.id, p>>, p \in r.ids)
      <4>1. On(q.want, A(<<r.id, p>>)) <=> p \in r.ids
        BY <1>4, <1>6, <2>1, <2>3
      <4>2. /\ On(r.locks \cup r.want, A(<<r.id, p>>)) <=> On(r.locks, A(<<r.id, p>>))
            /\ On(q.locks \cup q.want, A(<<r.id, p>>)) <=>
                 On(q.locks, A(<<r.id, p>>)) \/ On(q.want, A(<<r.id, p>>))
        BY <1>1 DEF On
      <4>3. QED
        BY <1>1, <2>1, <3>4, <4>1, <4>2 DEF PairAt
    <3>5. Diffs(q)
      BY <1>1, <1>2, <2>1, <2>3, <3>4 DEF Diffs, Diffing
    <3>6. QED
      BY <3>2, <3>3, <3>5
  <2>4. QED
    BY <1>1, <2>2, <2>3
<1>9. QED
  BY <1>1, <1>6, <1>7, <1>8, GoesStep DEF Steps

LEMMA CheckKeysStep ==
  ASSUME DirInv, NEW c \in Calls, CheckKeys(c)
  PROVE  DirInv'
<1> DEFINE r == call[c]
           S == UNION {{E(pair[1]), P(pair[2])} : pair \in Comers(c)}
           want == LocksOf("share", S)
<1>1. r.pc = "insert" /\ r.op \in {"update", "appoint"} /\ r.want = {}
  BY DEF CheckKeys, Ready, At
<1>2. Shape(r) /\ Knows(r) /\ Diffs(r)
  BY DEF DirInv, CallOK
<1>3. \A pair \in Comers(c) : /\ pair \in Pairs /\ pair[1] \in EmployeeIds /\ pair[2] \in PositionIds
                              /\ r.op = "update" => pair[1] = r.id
  BY <1>2 DEF Comers, Pairs, HasRow, Shape
<1>4. S \subseteq Rows
  BY <1>3, RowsAre
<1>5. \A row \in S : \E pair \in Comers(c) : row = E(pair[1]) \/ row = P(pair[2])
  OBVIOUS
<1> HIDE DEF S
<1>6. want \subseteq Locks /\ \A l \in want : l.row \in S
  BY <1>4, LocksOfType DEF Modes
<1>7. Goes(c, "keys", want)
  BY DEF CheckKeys, S
<1> HIDE DEF want
<1> \A l \in want : \A odoo : l.row # O(odoo)
  BY <1>5, <1>6, RowsDiffer
<1>8. ASSUME NEW q, GoesOnAs(q, r, "keys", want)
      PROVE  Shape(q) /\ Knows(q) /\ Diffs(q)
  <2>1. /\ q.pc = "keys" /\ q.op = r.op /\ q.locks = r.locks /\ q.id = r.id
        /\ q.odoo = r.odoo /\ q.ids = r.ids /\ q.want = want /\ q.touched = r.touched
    BY <1>8 DEF GoesOnAs
  <2>2. CASE r.op = "appoint"
    BY <1>2, <2>1, <2>2 DEF Shape, Knows, Diffs
  <2>3. CASE r.op = "update"
    <3>1. \A l \in q.want :
            /\ \A e \in EmployeeIds : l.row = E(e) => e = q.id
            /\ \A pair : l.row # A(pair)
      BY <1>3, <1>5, <1>6, <2>1, <2>3, RowsDiffer
    <3>2. Shape(q)
      BY <1>1, <1>2, <2>1, <2>3, <3>1 DEF Shape, Diffing
    <3>3. Knows(q)
      BY <1>1, <1>2, <2>1, <2>3 DEF Knows, Diffing
    <3>4. ASSUME NEW p \in PositionIds, PairAt(r, <<r.id, p>>, p \in r.ids)
          PROVE  PairAt(q, <<r.id, p>>, p \in r.ids)
      <4>1. ~On(q.want, A(<<r.id, p>>))
        BY <3>1 DEF On
      <4>2. On(r.locks \cup r.want, A(<<r.id, p>>)) <=> On(r.locks, A(<<r.id, p>>))
        BY <1>1 DEF On
      <4>3. QED
        BY <1>1, <2>1, <3>4, <4>1, <4>2 DEF PairAt
    <3>5. Diffs(q)
      BY <1>1, <1>2, <2>1, <2>3, <3>4 DEF Diffs, Diffing
    <3>6. QED
      BY <3>2, <3>3, <3>5
  <2>4. QED
    BY <1>1, <2>2, <2>3
<1>9. QED
  BY <1>1, <1>6, <1>7, <1>8, GoesStep DEF Steps


-----------------------------------------------------------------------------
(* Odoo's answer *)

LEMMA ConfirmStep ==
  ASSUME DirInv, NEW c \in Calls, Confirm(c)
  PROVE  DirInv'
<1> DEFINE r == call[c]
           q == [r EXCEPT !.pc = "count"]
<1>1. r.pc = "confirm" /\ r.op \in {"create", "update"}
  BY DEF Confirm, At
<1>2. TypeOK /\ Shape(r) /\ Covers(r) /\ Knows(r)
  BY DEF DirInv, CallOK
<1>3. CASE OdooRefuses(c)
  BY <1>3, FailStep DEF OdooRefuses
<1>4. CASE OdooConfirms(c, r.odoo)
  <2>1. r \in Call
    BY <1>2 DEF TypeOK
  <2>2. r.odoo \in OdooIds
    BY <1>1, <1>2 DEF Shape
  <2>3. /\ q \in Call /\ q.pc = "count" /\ q.op = r.op /\ q.id = r.id /\ q.ids = r.ids
        /\ q.odoo = r.odoo /\ q.locks = r.locks /\ q.want = r.want
    BY <2>1 DEF Call
  <2>4. /\ call' = [call EXCEPT ![c] = q] /\ UNCHANGED <<tables, made>>
        /\ confirmed' = confirmed \cup {r.odoo}
    BY <1>4 DEF OdooConfirms, Becomes
  <2> HIDE DEF q
  <2>5. /\ employee' = employee /\ position' = position /\ lastEmployee' = lastEmployee
        /\ Employees' = Employees /\ Positions' = Positions
    BY <2>4 DEF tables, Employees, Positions
  <2>6. \A odoo : OdooFree(odoo)' <=> OdooFree(odoo)
    BY <2>5 DEF OdooFree
  <2>7. call'[c] = q
    BY <1>2, <2>4, CallPut
  <2>8. Shape(q)
    BY <1>1, <1>2, <2>3 DEF Shape, Diffing
  <2>9. Covers(call[c])'
    BY <1>2, <2>3, <2>5, <2>6, <2>7 DEF Covers
  <2>10. Knows(call[c])'
    BY <1>1, <1>2, <2>3, <2>4, <2>5, <2>7 DEF Knows, Diffing
  <2>11. Diffs(call[c])'
    BY <2>3, <2>7 DEF Diffs, Diffing
  <2>12. CallOK(call[c])'
    BY <2>7, <2>8, <2>9, <2>10, <2>11 DEF CallOK
  <2>13. GoesWith(c, q)
    BY <1>1, <2>3, <2>4 DEF GoesWith, NeedsEmployee, NeedsPosition
  <2>14. confirmed \subseteq confirmed' /\ confirmed' \subseteq OdooIds
    BY <1>2, <2>2, <2>4 DEF TypeOK
  <2>15. QED
    BY <2>3, <2>4, <2>12, <2>13, <2>14, QuietStep
<1>5. QED
  BY <1>3, <1>4 DEF Confirm

-----------------------------------------------------------------------------
(* The deletions' statements *)

LEMMA DeleteEmployeesCascadeStep ==
  ASSUME DirInv, NEW c \in Calls, DeleteEmployeesCascade(c)
  PROVE  DirInv'
<1> DEFINE r == call[c]
           S == {a \in assigned : a[1] = r.id}
           want == LocksOf("key", {A(pair) : pair \in S})
<1>1. r.pc = "row" /\ r.op = "deleteEmployees" /\ r.want = {} /\ On(r.locks, E(r.id))
  BY DEF DeleteEmployeesCascade, Ready, At, HasRow, On
<1>2. Shape(r) /\ TypeOK
  BY DEF DirInv, CallOK
<1>3. S \subseteq Pairs
  BY <1>2, AssignedInPairs
<1>4. Goes(c, "cascade", want)
  BY DEF DeleteEmployeesCascade
<1> HIDE DEF S
<1>5. want \subseteq Locks /\ \A l \in want : l.mode = "key"
  BY <1>3, PairLocks
<1> HIDE DEF want
<1>6. ASSUME NEW q, GoesOnAs(q, r, "cascade", want)
      PROVE  Shape(q) /\ Knows(q) /\ Diffs(q)
  <2>1. /\ q.pc = "cascade" /\ q.op = "deleteEmployees" /\ q.id = r.id /\ q.ids = r.ids
        /\ q.locks = r.locks /\ q.want = want
    BY <1>1, <1>6 DEF GoesOnAs
  <2>2. QED
    BY <1>1, <1>2, <1>5, <2>1 DEF Shape, Knows, Diffs
<1>7. QED
  BY <1>1, <1>4, <1>5, <1>6, GoesStep DEF Steps

LEMMA DeletePositionsCountStep ==
  ASSUME DirInv, NEW c \in Calls, DeletePositionsCount(c)
  PROVE  DirInv'
<1> DEFINE r == call[c]
           S == {P(p) : p \in r.ids}
           want == LocksOf("key", S)
<1>1. r.pc = "count" /\ r.op = "deletePositions"
  BY DEF DeletePositionsCount, At
<1>2. CASE Fail(c)
  BY <1>2, FailStep
<1>3. CASE Goes(c, "row", want)
  <2>1. Shape(r)
    BY DEF DirInv, CallOK
  <2>2. S \subseteq Rows
    BY <1>1, <2>1, RowsAre DEF Shape
  <2> HIDE DEF S
  <2>3. want \subseteq Locks /\ \A l \in want : l.mode = "key"
    BY <2>2, LocksOfType DEF Modes
  <2> HIDE DEF want
  <2>4. ASSUME NEW q, GoesOnAs(q, r, "row", want)
        PROVE  Shape(q) /\ Knows(q) /\ Diffs(q)
    <3>1. /\ q.pc = "row" /\ q.op = "deletePositions" /\ q.ids = r.ids
          /\ q.locks = r.locks /\ q.want = want
      BY <1>1, <2>4 DEF GoesOnAs
    <3>2. QED
      BY <1>1, <2>1, <2>3, <3>1 DEF Shape, Knows, Diffs
  <2>5. QED
    BY <1>1, <1>3, <2>3, <2>4, GoesStep DEF Steps
<1>4. QED
  BY <1>2, <1>3 DEF DeletePositionsCount

LEMMA DeletePositionsCascadeStep ==
  ASSUME DirInv, NEW c \in Calls, DeletePositionsCascade(c)
  PROVE  DirInv'
<1> DEFINE r == call[c]
           S == {a \in assigned : a[2] \in Doomed(c)}
           want == LocksOf("key", {A(pair) : pair \in S})
<1>1. r.pc = "row" /\ r.op = "deletePositions"
  BY DEF DeletePositionsCascade, Ready, At
<1>2. Shape(r) /\ TypeOK
  BY DEF DirInv, CallOK
<1>3. S \subseteq Pairs
  BY <1>2, AssignedInPairs
<1>4. Goes(c, "cascade", want)
  BY DEF DeletePositionsCascade
<1> HIDE DEF S
<1>5. want \subseteq Locks /\ \A l \in want : l.mode = "key"
  BY <1>3, PairLocks
<1> HIDE DEF want
<1>6. ASSUME NEW q, GoesOnAs(q, r, "cascade", want)
      PROVE  Shape(q) /\ Knows(q) /\ Diffs(q)
  <2>1. /\ q.pc = "cascade" /\ q.op = "deletePositions" /\ q.ids = r.ids
        /\ q.locks = r.locks /\ q.want = want
    BY <1>1, <1>6 DEF GoesOnAs
  <2>2. QED
    BY <1>1, <1>2, <1>5, <2>1 DEF Shape, Knows, Diffs
<1>7. QED
  BY <1>1, <1>4, <1>5, <1>6, GoesStep DEF Steps

(* The record of one DELETE of the request. *)
LEMMA DeleteNextOK ==
  ASSUME NEW ids, ids \subseteq EmployeeIds, NEW q \in DeleteNext(ids)
  PROVE  /\ q \in Call /\ q.pc = "row" /\ q.op = "deleteEmployees"
         /\ q.locks = {} /\ q.want \subseteq Locks /\ CallOK(q)
<1>1. PICK e \in ids :
        q = [Idle EXCEPT !.op = "deleteEmployees", !.pc = "row", !.id = e, !.ids = ids \ {e},
                         !.want = {Lock("key", E(e))}]
  BY DEF DeleteNext
<1>2. Lock("key", E(e)) \in Locks /\ Lock("key", E(e)).mode = "key"
  BY RowsAre DEF Lock, Locks, Modes
<1>3. /\ q \in Call /\ q.pc = "row" /\ q.op = "deleteEmployees" /\ q.id = e
      /\ q.ids = ids \ {e} /\ q.locks = {} /\ q.want = {Lock("key", E(e))}
  BY <1>1, <1>2, IdleRecord DEF Call, Ops, Locks
<1>4. QED
  BY <1>2, <1>3 DEF CallOK, Shape, Covers, Knows, Diffs

LEMMA DeleteEmployeesSkipStep ==
  ASSUME DirInv, NEW c \in Calls, DeleteEmployeesSkip(c)
  PROVE  DirInv'
<1> DEFINE r == call[c]
<1>1. CASE Fail(c)
  BY <1>1, FailStep
<1>2. ASSUME NEW q \in DeleteNext(r.ids), Becomes(c, q), UNCHANGED <<tables, made, confirmed>>
      PROVE  DirInv'
  <2>1. r.op = "deleteEmployees"
    BY DEF DeleteEmployeesSkip, Ready, At
  <2>2. TypeOK /\ Shape(r)
    BY DEF DirInv, CallOK
  <2>3. r.ids \subseteq EmployeeIds
    BY <2>1, <2>2 DEF Shape
  <2>4. q \in Call /\ q.op = "deleteEmployees" /\ q.locks = {} /\ CallOK(q)
    BY <2>3, DeleteNextOK
  <2>5. call' = [call EXCEPT ![c] = q] /\ call'[c] = q
    BY <1>2, <2>2, CallPut DEF Becomes
  <2>6. CallOK(call[c])'
    BY <1>2, <2>4, <2>5, OKAsBefore
  <2>7. GoesWith(c, q)
    BY <2>1, <2>4, <2>5 DEF GoesWith, NeedsEmployee, NeedsPosition
  <2>8. confirmed' \subseteq OdooIds
    BY <1>2, <2>2 DEF TypeOK
  <2>9. QED
    BY <1>2, <2>4, <2>6, <2>7, <2>8, QuietStep
<1>3. QED
  BY <1>1, <1>2 DEF DeleteEmployeesSkip

-----------------------------------------------------------------------------
(* bootstrapadmin looks for the Position *)

LEMMA BootstrapFindStep ==
  ASSUME DirInv, NEW c \in Calls, BootstrapFind(c)
  PROVE  DirInv'
<1> DEFINE r == call[c]
<1>1. r.pc = "find" /\ r.op = "bootstrap"
  BY DEF BootstrapFind, At
<1>2. TypeOK /\ Shape(r) /\ Covers(r)
  BY DEF DirInv, CallOK
<1>3. CASE Goes(c, "found", {})
  <2>1. ASSUME NEW q, GoesOnAs(q, r, "found", {})
        PROVE  Shape(q) /\ Knows(q) /\ Diffs(q)
    <3>1. /\ q.pc = "found" /\ q.op = "bootstrap" /\ q.ids = r.ids /\ q.odoo = r.odoo
          /\ q.locks = r.locks /\ q.want = {}
      BY <1>1, <2>1 DEF GoesOnAs
    <3>2. QED
      BY <1>1, <1>2, <3>1 DEF Shape, Knows, Diffs
  <2>2. QED
    BY <1>1, <1>3, <2>1, GoesStep DEF Steps
<1>4. ASSUME NEW p \in Positions, Becomes(c, [r EXCEPT !.pc = "hire", !.ids = {p}]),
             UNCHANGED <<tables, made, confirmed>>
      PROVE  DirInv'
  <2> DEFINE q == [r EXCEPT !.pc = "hire", !.ids = {p}]
  <2>1. r \in Call /\ p \in PositionIds
    BY <1>2 DEF TypeOK, Positions
  <2>2. /\ q \in Call /\ q.pc = "hire" /\ q.op = "bootstrap" /\ q.ids = {p}
        /\ q.odoo = r.odoo /\ q.locks = r.locks /\ q.want = r.want
    BY <1>1, <2>1 DEF Call
  <2>3. call' = [call EXCEPT ![c] = q]
    BY <1>4 DEF Becomes
  <2> HIDE DEF q
  <2>4. call'[c] = q
    BY <1>2, <2>3, CallPut
  <2>5. CallOK(q)
    BY <1>1, <1>2, <2>1, <2>2 DEF CallOK, Shape, Covers, Knows, Diffs
  <2>6. CallOK(call[c])'
    BY <1>4, <2>4, <2>5, OKAsBefore
  <2>7. GoesWith(c, q)
    BY <1>1, <2>2, <2>3 DEF GoesWith, NeedsEmployee, NeedsPosition
  <2>8. confirmed' \subseteq OdooIds
    BY <1>2, <1>4 DEF TypeOK
  <2>9. QED
    BY <1>4, <2>2, <2>6, <2>7, <2>8, QuietStep
<1>5. QED
  BY <1>3, <1>4 DEF BootstrapFind


-----------------------------------------------------------------------------
(* A lock is granted *)

LEMMA TakenIs ==
  ASSUME TypeOK, NEW c \in Calls, NEW l \in Locks
  PROVE  /\ Taken(c, l) \subseteq Locks
         /\ \A e \in EmployeeIds : l.row = E(e) =>
              Taken(c, l) = IF e \notin Employees THEN {}
                            ELSE {l} \cup IF l.mode = "key"
                                          THEN {Lock("key", O(employee[e].odoo))} ELSE {}
         /\ \A p \in PositionIds : l.row = P(p) =>
              Taken(c, l) = IF p \in Positions THEN {l} ELSE {}
         /\ \A pair \in Pairs : l.row = A(pair) =>
              Taken(c, l) = IF (pair \in assigned) <=> (call[c].pc = "insert") THEN {} ELSE {l}
         /\ \A odoo \in OdooIds : l.row = O(odoo) =>
              Taken(c, l) = IF OdooFree(odoo) THEN {l} ELSE {}
<1>1. \A e \in EmployeeIds : l.row = E(e) =>
        Taken(c, l) = IF e \notin Employees THEN {}
                      ELSE {l} \cup IF l.mode = "key"
                                    THEN {Lock("key", O(employee[e].odoo))} ELSE {}
  BY DEF Taken, E
<1>2. \A p \in PositionIds : l.row = P(p) =>
        Taken(c, l) = IF p \in Positions THEN {l} ELSE {}
  BY DEF Taken, P
<1>3. \A pair \in Pairs : l.row = A(pair) =>
        Taken(c, l) = IF (pair \in assigned) <=> (call[c].pc = "insert") THEN {} ELSE {l}
  BY DEF Taken, A
<1>4. \A odoo \in OdooIds : l.row = O(odoo) =>
        Taken(c, l) = IF OdooFree(odoo) THEN {l} ELSE {}
  BY DEF Taken, O
<1>5. \A e \in Employees : Lock("key", O(employee[e].odoo)) \in Locks
  <2> SUFFICES ASSUME NEW e \in Employees
               PROVE  Lock("key", O(employee[e].odoo)) \in Locks
    OBVIOUS
  <2>1. employee[e] \in EmployeeRow
    BY DEF TypeOK, Employees
  <2>2. employee[e].odoo \in OdooIds
    BY <2>1 DEF EmployeeRow
  <2>3. QED
    BY <2>2, RowsAre DEF Lock, Locks, Modes
<1>6. l.row \in Rows
  BY DEF Locks
<1>7. \/ \E e \in EmployeeIds : l.row = E(e)
      \/ \E p \in PositionIds : l.row = P(p)
      \/ \E pair \in Pairs : l.row = A(pair)
      \/ \E odoo \in OdooIds : l.row = O(odoo)
  BY <1>6 DEF Rows
<1>8. Taken(c, l) \subseteq Locks
  BY <1>1, <1>2, <1>3, <1>4, <1>5, <1>7
<1>9. QED
  BY <1>1, <1>2, <1>3, <1>4, <1>8

(* Nothing but the lock itself, and with a key its entry of the index. *)
LEMMA TakenOnly ==
  ASSUME TypeOK, NEW c \in Calls, NEW l \in Locks, NEW k \in Taken(c, l)
  PROVE  \/ k = l
         \/ \E e \in Employees : /\ l = Lock("key", E(e)) /\ l \in Taken(c, l)
                                 /\ k = Lock("key", O(employee[e].odoo))
<1>1. l.row \in Rows /\ l = Lock(l.mode, l.row)
  BY DEF Locks, Lock
<1>2. CASE \E e \in EmployeeIds : l.row = E(e)
  <2>1. PICK e \in EmployeeIds : l.row = E(e)
    BY <1>2
  <2>2. Taken(c, l) = IF e \notin Employees THEN {}
                      ELSE {l} \cup IF l.mode = "key"
                                    THEN {Lock("key", O(employee[e].odoo))} ELSE {}
    BY <2>1, TakenIs
  <2>3. QED
    BY <1>1, <2>1, <2>2
<1>3. CASE \E p \in PositionIds : l.row = P(p)
  BY <1>3, TakenIs
<1>4. CASE \E pair \in Pairs : l.row = A(pair)
  BY <1>4, TakenIs
<1>5. CASE \E odoo \in OdooIds : l.row = O(odoo)
  BY <1>5, TakenIs
<1>6. QED
  BY <1>1, <1>2, <1>3, <1>4, <1>5 DEF Rows

(* What c's record becomes. *)
Takes(c, l, q) ==
  /\ q \in Call
  /\ q.locks = call[c].locks \cup Taken(c, l) /\ q.want = call[c].want \ {l}
  /\ q.pc = call[c].pc /\ q.op = call[c].op /\ q.id = call[c].id /\ q.ids = call[c].ids
  /\ q.odoo = call[c].odoo /\ q.touched = call[c].touched

LEMMA TakeExclusive ==
  ASSUME DirInv, NEW c \in Calls, NEW l \in call[c].want, Holders(Held, c, l) = {},
         NEW q, Takes(c, l, q), call' = [call EXCEPT ![c] = q]
  PROVE  Exclusive(Held)'
<1>1. TypeOK /\ Exclusive(Held) /\ l \in Locks
  BY CallFields DEF DirInv, TypeOK
<1>2. call'[c] = q /\ \A d \in Calls \ {c} : call'[d] = call[d]
  BY <1>1, CallPut
<1>3. \A d \in Calls \ {c} : \A k \in call[d].locks : k.row = l.row => ~Conflict(k.mode, l.mode)
  BY DEF Holders, Held
<1>4. ASSUME NEW d \in Calls \ {c}, NEW k \in Taken(c, l), NEW m \in call[d].locks, m.row = k.row
      PROVE  ~Conflict(m.mode, k.mode) /\ ~Conflict(k.mode, m.mode)
  <2>1. CASE k = l
    BY <1>3, <1>4, <2>1 DEF Conflict
  <2>2. CASE \E e \in Employees : l = Lock("key", E(e)) /\ k = Lock("key", O(employee[e].odoo))
    <3>1. PICK e \in Employees : l = Lock("key", E(e)) /\ k = Lock("key", O(employee[e].odoo))
      BY <2>2
    <3>2. m.row = O(employee[e].odoo)
      BY <1>4, <3>1, LockFields
    <3>3. employee[e].odoo \in OdooIds
      BY <1>1 DEF TypeOK, Employees, EmployeeRow
    <3>4. ~OdooFree(employee[e].odoo)
      BY DEF OdooFree
    <3>5. Covers(call[d])
      BY DEF DirInv, CallOK
    <3>6. PICK f \in Employees : Lock("key", E(f)) \in call[d].locks /\ employee[f].odoo = employee[e].odoo
      BY <3>2, <3>3, <3>4, <3>5 DEF Covers
    <3>7. f = e
      BY <1>1, <3>6 DEF TypeOK
    <3>8. ~Conflict("key", "key")
      BY <1>3, <3>1, <3>6, <3>7, LockFields
    <3>9. QED
      BY <3>8 DEF Conflict
  <2>3. QED
    BY <1>1, <2>1, <2>2, TakenOnly
<1>5. ASSUME NEW b \in Calls, NEW d \in Calls \ {b}, NEW k \in call'[b].locks, NEW m \in call'[d].locks,
             m.row = k.row
      PROVE  ~Conflict(m.mode, k.mode)
  <2>1. CASE b # c /\ d # c
    BY <1>1, <1>2, <1>5, <2>1, ExclusiveMeans
  <2>2. CASE b = c
    <3>1. d \in Calls \ {c} /\ m \in call[d].locks
      BY <1>2, <2>2
    <3>2. k \in call[c].locks \/ k \in Taken(c, l)
      BY <1>2, <2>2 DEF Takes
    <3>3. k \in call[c].locks => ~Conflict(m.mode, k.mode)
      BY <1>1, <1>5, <3>1, ExclusiveMeans
    <3>4. QED
      BY <1>4, <1>5, <3>1, <3>2, <3>3
  <2>3. CASE d = c
    <3>1. b \in Calls \ {c} /\ k \in call[b].locks
      BY <1>2, <2>3
    <3>2. m \in call[c].locks \/ m \in Taken(c, l)
      BY <1>2, <2>3 DEF Takes
    <3>3. m \in call[c].locks => ~Conflict(m.mode, k.mode)
      BY <1>1, <1>5, <2>3, <3>1, ExclusiveMeans
    <3>4. QED
      BY <1>4, <1>5, <3>1, <3>2, <3>3
  <2>4. QED
    BY <2>1, <2>2, <2>3
<1>6. QED
  BY <1>5, ExclusiveMeansNext

LEMMA TakeCovers ==
  ASSUME DirInv, NEW c \in Calls, NEW l \in call[c].want, NEW q, Takes(c, l, q)
  PROVE  Covers(q)
<1>1. TypeOK /\ Covers(call[c]) /\ l \in Locks
  BY CallFields DEF DirInv, CallOK, TypeOK
<1>2. q.locks = call[c].locks \cup Taken(c, l)
  BY DEF Takes
<1>3. ASSUME NEW k \in call[c].locks
      PROVE  /\ \A e \in EmployeeIds : k.row = E(e) => e \in Employees
             /\ \A p \in PositionIds : k.row = P(p) => p \in Positions
             /\ \A odoo \in OdooIds : k.row = O(odoo) =>
                  \/ OdooFree(odoo)
                  \/ \E e \in Employees : Lock("key", E(e)) \in q.locks /\ employee[e].odoo = odoo
  BY <1>1, <1>2 DEF Covers
<1>4. ASSUME l \in Taken(c, l)
      PROVE  /\ \A e \in EmployeeIds : l.row = E(e) => e \in Employees
             /\ \A p \in PositionIds : l.row = P(p) => p \in Positions
             /\ \A odoo \in OdooIds : l.row = O(odoo) => OdooFree(odoo)
  BY <1>1, <1>4, TakenIs
<1>5. ASSUME NEW e \in Employees, l = Lock("key", E(e)), l \in Taken(c, l),
             NEW k, k = Lock("key", O(employee[e].odoo))
      PROVE  /\ \A f \in EmployeeIds : k.row # E(f)
             /\ \A p \in PositionIds : k.row # P(p)
             /\ \A odoo \in OdooIds : k.row = O(odoo) =>
                  Lock("key", E(e)) \in q.locks /\ employee[e].odoo = odoo
  <2>1. k.row = O(employee[e].odoo)
    BY <1>5, LockFields
  <2>2. QED
    BY <1>2, <1>5, <2>1, RowsDiffer
<1>6. ASSUME NEW k \in Taken(c, l)
      PROVE  /\ \A e \in EmployeeIds : k.row = E(e) => e \in Employees
             /\ \A p \in PositionIds : k.row = P(p) => p \in Positions
             /\ \A odoo \in OdooIds : k.row = O(odoo) =>
                  \/ OdooFree(odoo)
                  \/ \E e \in Employees : Lock("key", E(e)) \in q.locks /\ employee[e].odoo = odoo
  <2>1. CASE k = l
    BY <1>4, <2>1
  <2>2. CASE \E e \in Employees : /\ l = Lock("key", E(e)) /\ l \in Taken(c, l)
                                  /\ k = Lock("key", O(employee[e].odoo))
    BY <1>5, <2>2
  <2>3. QED
    BY <1>1, <2>1, <2>2, TakenOnly
<1>7. QED
  BY <1>2, <1>3, <1>6 DEF Covers


LEMMA TakeShape ==
  ASSUME DirInv, NEW c \in Calls, NEW l \in call[c].want, NEW q, Takes(c, l, q)
  PROVE  Shape(q)
<1> DEFINE r == call[c]
<1>1. TypeOK /\ Shape(r) /\ l \in Locks
  BY CallFields DEF DirInv, CallOK, TypeOK
<1>2. /\ q.locks = r.locks \cup Taken(c, l) /\ q.want = r.want \ {l}
      /\ q.pc = r.pc /\ q.op = r.op /\ q.id = r.id /\ q.ids = r.ids /\ q.odoo = r.odoo
  BY DEF Takes
<1>3. \A row : On(r.locks, row) => On(q.locks, row)
  BY <1>2 DEF On
<1>4. \A e : Owns(r.locks, e) => Owns(q.locks, e)
  BY <1>2 DEF Owns
<1>5. \A k \in q.locks \cup q.want :
        \/ k \in r.locks \cup r.want
        \/ k.mode = "key" /\ (\A e : k.row # E(e)) /\ (\A pair : k.row # A(pair))
  <2> SUFFICES ASSUME NEW k \in Taken(c, l), k # l
               PROVE  k.mode = "key" /\ (\A e : k.row # E(e)) /\ (\A pair : k.row # A(pair))
    BY <1>2
  <2>1. PICK e \in Employees : k = Lock("key", O(employee[e].odoo))
    BY <1>1, TakenOnly
  <2>2. QED
    BY <2>1, LockFields, RowsDiffer
<1> HIDE DEF r
<1>6. r.want # {}
  BY DEF r
<1>7. r.op # "bootstrap"
  BY <1>1, <1>6 DEF Shape
<1>8. r.op = "update" => r.pc \notin {"read", "confirm", "count"}
  BY <1>1, <1>6 DEF Shape
<1>9. r.op \in {"deleteEmployees", "deletePositions"} => \A k \in q.locks \cup q.want : k.mode = "key"
  BY <1>1, <1>5 DEF Shape
<1>10. r.op = "create" => \A k \in q.locks \cup q.want : \A e \in EmployeeIds : k.row # E(e)
  BY <1>1, <1>5 DEF Shape
<1>11. r.op = "update" => \A k \in q.locks \cup q.want :
         /\ \A e \in EmployeeIds : k.row = E(e) => e = r.id
         /\ \A pair \in Pairs : k.row = A(pair) => pair[1] = r.id
         /\ r.pc = "row" /\ k.row = E(r.id) => k.mode \in {"update", "key"}
  BY <1>1, <1>5 DEF Shape
<1>12. r.op = "update" /\ r.pc \in {"row", "index"} =>
         \A k \in q.locks \cup q.want : \A pair \in Pairs : k.row # A(pair)
  BY <1>1, <1>5 DEF Shape
<1>13. \A k \in q.locks \cup q.want : \A odoo \in OdooIds : k.row = O(odoo) => k.mode = "key"
  BY <1>1, <1>5 DEF Shape
<1>14. QED
  BY <1>1, <1>2, <1>3, <1>4, <1>7, <1>8, <1>9, <1>10, <1>11, <1>12, <1>13 DEF Shape

LEMMA TakePair ==
  ASSUME DirInv, NEW c \in Calls, NEW l \in call[c].want, NEW q, Takes(c, l, q),
         call[c].pc \in Diffing, NEW pair \in Pairs, NEW submitted \in BOOLEAN,
         PairAt(call[c], pair, submitted)
  PROVE  PairAt(q, pair, submitted)
<1> DEFINE r == call[c]
<1>1. TypeOK /\ l \in Locks
  BY CallFields DEF DirInv, TypeOK
<1>2. q.locks = r.locks \cup Taken(c, l) /\ q.want = r.want \ {l} /\ q.pc = r.pc
  BY DEF Takes
<1>3. /\ On(r.locks \cup r.want, A(pair)) <=> On(r.locks, A(pair)) \/ On(r.want, A(pair))
      /\ On(q.locks \cup q.want, A(pair)) <=> On(q.locks, A(pair)) \/ On(q.want, A(pair))
      /\ On(q.locks, A(pair)) <=> On(r.locks, A(pair)) \/ On(Taken(c, l), A(pair))
      /\ On(q.want, A(pair)) => On(r.want, A(pair))
  BY <1>2 DEF On
<1>4. CASE l.row = A(pair)
  <2>1. On(r.want, A(pair))
    BY <1>4 DEF On
  <2>2. Taken(c, l) = IF (pair \in assigned) <=> (r.pc = "insert") THEN {} ELSE {l}
    BY <1>1, <1>4, TakenIs
  <2>3. On(Taken(c, l), A(pair)) <=> ~((pair \in assigned) <=> (r.pc = "insert"))
    BY <1>4, <2>2 DEF On
  <2> HIDE DEF r
  <2>4. CASE r.pc = "delete"
    BY <1>2, <1>3, <2>1, <2>3, <2>4 DEF PairAt, r
  <2>5. CASE r.pc = "insert"
    BY <1>2, <1>3, <2>1, <2>3, <2>5 DEF PairAt, r
  <2>6. CASE r.pc = "keys"
    BY <1>2, <1>3, <2>1, <2>3, <2>6 DEF PairAt, r
  <2>7. QED
    BY <2>4, <2>5, <2>6 DEF Diffing, r
<1>5. CASE l.row # A(pair)
  <2>1. ~On(Taken(c, l), A(pair))
    <3> SUFFICES ASSUME NEW k \in Taken(c, l), k.row = A(pair)
                 PROVE  FALSE
      BY DEF On
    <3>1. PICK e \in Employees : k = Lock("key", O(employee[e].odoo))
      BY <1>1, <1>5, TakenOnly
    <3>2. QED
      BY <3>1, LockFields, RowsDiffer
  <2>2. On(q.want, A(pair)) <=> On(r.want, A(pair))
    BY <1>2, <1>5 DEF On
  <2>3. QED
    BY <1>2, <1>3, <2>1, <2>2 DEF PairAt
<1>6. QED
  BY <1>4, <1>5

LEMMA TakeStep ==
  ASSUME DirInv, NEW c \in Calls, Take(c)
  PROVE  DirInv'
<1> DEFINE r == call[c]
<1>1. PICK l \in r.want :
        /\ Holders(Held, c, l) = {}
        /\ Becomes(c, [r EXCEPT !.want = @ \ {l}, !.locks = @ \cup Taken(c, l)])
        /\ UNCHANGED <<tables, made, confirmed>>
  BY DEF Take
<1> DEFINE q == [r EXCEPT !.want = @ \ {l}, !.locks = @ \cup Taken(c, l)]
<1>2. TypeOK /\ RoomLeft /\ Shape(r) /\ Covers(r) /\ Knows(r) /\ Diffs(r)
  BY DEF DirInv, CallOK
<1>3. r \in Call /\ l \in Locks
  BY <1>2, CallFields DEF TypeOK
<1>4. Taken(c, l) \subseteq Locks
  BY <1>2, <1>3, TakenIs
<1>5. Takes(c, l, q)
  BY <1>3, <1>4 DEF Takes, Call, Locks
<1>6. call' = [call EXCEPT ![c] = q]
  BY <1>1 DEF Becomes
<1> HIDE DEF q
<1>7. /\ call'[c] = q /\ \A d \in Calls \ {c} : call'[d] = call[d]
      /\ DOMAIN call' = Calls
  BY <1>2, <1>6, CallPut
<1>8. Exclusive(Held)'
  BY <1>1, <1>5, <1>6, TakeExclusive
<1>9. /\ q.pc = r.pc /\ q.op = r.op /\ q.id = r.id /\ q.ids = r.ids /\ q.odoo = r.odoo
      /\ q.locks = r.locks \cup Taken(c, l) /\ q.touched = r.touched /\ q \in Call
  BY <1>5 DEF Takes
<1>10. Shape(q) /\ Covers(q)
  BY <1>5, TakeShape, TakeCovers
<1>11. Knows(q)
  <2>1. \A row : On(r.locks, row) => On(q.locks, row)
    BY <1>9 DEF On
  <2> HIDE DEF r
  <2>2. QED
    BY <1>2, <1>9, <2>1 DEF Knows
<1>12. Diffs(q)
  <2> SUFFICES ASSUME r.op = "update", r.pc \in Diffing, NEW p \in PositionIds,
                      <<r.id, p>> \notin r.touched
               PROVE  PairAt(q, <<r.id, p>>, p \in r.ids)
    BY <1>9 DEF Diffs
  <2>1. <<r.id, p>> \in Pairs
    BY <1>2 DEF Shape, Pairs
  <2>2. PairAt(r, <<r.id, p>>, p \in r.ids) /\ (p \in r.ids) \in BOOLEAN
    BY <1>2 DEF Diffs
  <2>3. QED
    BY <1>5, <2>1, <2>2, TakePair
<1>13. CallOK(call[c])'
  BY <1>1, <1>7, <1>10, <1>11, <1>12, OKAsBefore DEF CallOK
<1>14. \A d \in Calls : CallOK(call[d])'
  BY <1>1, <1>7, <1>13, TablesSpared
<1>15. \A d \in Calls : call'[d] \in Call
  BY <1>2, <1>7, <1>9 DEF TypeOK
<1>16. made' \in 0 .. MaxCalls /\ confirmed \subseteq confirmed' /\ confirmed' \subseteq OdooIds
  BY <1>1, <1>2 DEF TypeOK
<1>17. TypeOK' /\ OdooIdsConfirmed' /\ AdminHasPassword'
  BY <1>1, <1>7, <1>8, <1>15, <1>16, RowsAsBefore
<1>18. NoNewNeeds
  BY <1>7, <1>9 DEF NoNewNeeds, NeedsEmployee, NeedsPosition
<1>19. lastEmployee' = lastEmployee /\ lastPosition' = lastPosition
  BY <1>1 DEF tables
<1>20. RoomLeft'
  BY <1>2, <1>18, <1>19, RoomKept
<1>21. QED
  BY <1>14, <1>17, <1>20 DEF DirInv


-----------------------------------------------------------------------------
(* A call begins *)

LEMMA RoomBegun ==
  ASSUME TypeOK, RoomLeft, NEW c \in Calls, \A d \in Calls \ {c} : call'[d] = call[d],
         lastEmployee' = lastEmployee, lastPosition' = lastPosition,
         NeedsEmployee(call'[c]) => RoomForEmployee,
         NeedsPosition(call'[c]) => RoomForPosition
  PROVE  RoomLeft'
<1>1. IsFiniteSet(Busy)
  BY DEF RoomLeft
<1>2. Busy' \in SUBSET (Busy \cup {c})
  BY DEF Busy
<1>3. IsFiniteSet(Busy \cup {c})
  BY <1>1, FS_AddElement
<1>4. IsFiniteSet(Busy')
  BY <1>2, <1>3, FS_Subset
<1>5. /\ lastEmployee \in Nat /\ lastPosition \in Nat
      /\ MaxEmployees \in Nat /\ MaxPositions \in Nat
  BY DirectoryAssumption DEF TypeOK
<1>6. /\ lastEmployee + Cardinality(ForEmployees) <= MaxEmployees
      /\ lastPosition + Cardinality(ForPositions) <= MaxPositions
      /\ IsFiniteSet(ForEmployees) /\ IsFiniteSet(ForPositions)
      /\ Cardinality(ForEmployees) \in Nat /\ Cardinality(ForPositions) \in Nat
  BY NeedsWithin DEF RoomLeft
<1>7. /\ ForEmployees' = {d \in Calls : NeedsEmployee(call'[d])}
      /\ ForPositions' = {d \in Calls : NeedsPosition(call'[d])}
  BY DEF ForEmployees, ForPositions, NeedsEmployee, NeedsPosition
<1>8. lastEmployee' + Cardinality(ForEmployees') <= MaxEmployees
  <2>1. CASE NeedsEmployee(call'[c])
    <3> DEFINE S == {d \in Calls : call[d].op \in {"create", "bootstrap"}}
    <3>1. S \in SUBSET Busy /\ ForEmployees \in SUBSET S
      BY DEF Busy, ForEmployees, NeedsEmployee
    <3>2. IsFiniteSet(S)
      BY <1>1, <3>1, FS_Subset
    <3>3. lastEmployee + Cardinality(S) < MaxEmployees
      BY <2>1 DEF RoomForEmployee, InFlight
    <3> HIDE DEF S
    <3>4. Cardinality(ForEmployees) <= Cardinality(S) /\ Cardinality(S) \in Nat
      BY <3>1, <3>2, FewerNeeds
    <3>5. ForEmployees' \in SUBSET (ForEmployees \cup {c})
      BY <1>7 DEF ForEmployees
    <3>6. IsFiniteSet(ForEmployees \cup {c})
      BY <1>6, FS_AddElement
    <3>7. /\ Cardinality(ForEmployees') <= Cardinality(ForEmployees \cup {c})
          /\ Cardinality(ForEmployees') \in Nat /\ Cardinality(ForEmployees \cup {c}) \in Nat
      BY <3>5, <3>6, FewerNeeds
    <3>8. Cardinality(ForEmployees \cup {c}) <= Cardinality(ForEmployees) + 1
      <4>1. CASE c \in ForEmployees
        <5>1. ForEmployees \cup {c} = ForEmployees
          BY <4>1
        <5>2. QED
          BY <1>6, <5>1
      <4>2. CASE c \notin ForEmployees
        <5>1. Cardinality(ForEmployees \cup {c}) = Cardinality(ForEmployees) + 1
          BY <1>6, <4>2, FS_AddElement
        <5>2. QED
          BY <1>6, <5>1
      <4>3. QED
        BY <4>1, <4>2
    <3>9. QED
      BY <1>5, <1>6, <3>3, <3>4, <3>7, <3>8
  <2>2. CASE ~NeedsEmployee(call'[c])
    <3>1. ForEmployees' \in SUBSET ForEmployees
      BY <1>7, <2>2 DEF ForEmployees
    <3>2. Cardinality(ForEmployees') <= Cardinality(ForEmployees) /\ Cardinality(ForEmployees') \in Nat
      BY <1>6, <3>1, FewerNeeds
    <3>3. QED
      BY <1>5, <1>6, <3>2
  <2>3. QED
    BY <2>1, <2>2
<1>9. lastPosition' + Cardinality(ForPositions') <= MaxPositions
  <2>1. CASE NeedsPosition(call'[c])
    <3> DEFINE S == {d \in Calls : call[d].op \in {"bootstrap"}}
    <3>1. S \in SUBSET Busy /\ ForPositions \in SUBSET S
      BY DEF Busy, ForPositions, NeedsPosition
    <3>2. IsFiniteSet(S)
      BY <1>1, <3>1, FS_Subset
    <3>3. lastPosition + Cardinality(S) < MaxPositions
      BY <2>1 DEF RoomForPosition, InFlight
    <3> HIDE DEF S
    <3>4. Cardinality(ForPositions) <= Cardinality(S) /\ Cardinality(S) \in Nat
      BY <3>1, <3>2, FewerNeeds
    <3>5. ForPositions' \in SUBSET (ForPositions \cup {c})
      BY <1>7 DEF ForPositions
    <3>6. IsFiniteSet(ForPositions \cup {c})
      BY <1>6, FS_AddElement
    <3>7. /\ Cardinality(ForPositions') <= Cardinality(ForPositions \cup {c})
          /\ Cardinality(ForPositions') \in Nat /\ Cardinality(ForPositions \cup {c}) \in Nat
      BY <3>5, <3>6, FewerNeeds
    <3>8. Cardinality(ForPositions \cup {c}) <= Cardinality(ForPositions) + 1
      <4>1. CASE c \in ForPositions
        <5>1. ForPositions \cup {c} = ForPositions
          BY <4>1
        <5>2. QED
          BY <1>6, <5>1
      <4>2. CASE c \notin ForPositions
        <5>1. Cardinality(ForPositions \cup {c}) = Cardinality(ForPositions) + 1
          BY <1>6, <4>2, FS_AddElement
        <5>2. QED
          BY <1>6, <5>1
      <4>3. QED
        BY <4>1, <4>2
    <3>9. QED
      BY <1>5, <1>6, <3>3, <3>4, <3>7, <3>8
  <2>2. CASE ~NeedsPosition(call'[c])
    <3>1. ForPositions' \in SUBSET ForPositions
      BY <1>7, <2>2 DEF ForPositions
    <3>2. Cardinality(ForPositions') <= Cardinality(ForPositions) /\ Cardinality(ForPositions') \in Nat
      BY <1>6, <3>1, FewerNeeds
    <3>3. QED
      BY <1>5, <1>6, <3>2
  <2>3. QED
    BY <2>1, <2>2
<1>10. QED
  BY <1>4, <1>8, <1>9 DEF RoomLeft

LEMMA BeginStep ==
  ASSUME DirInv, NEW c \in Calls, NEW r \in Call, NEW step \in Steps,
         NEW locks, locks \subseteq Locks, Begin(c, step, r, locks), r.locks = {},
         r.op \in {"create", "bootstrap"} => RoomForEmployee,
         r.op = "bootstrap" => RoomForPosition,
         \A q : GoesOnAs(q, r, step, locks) => Shape(q) /\ Knows(q) /\ Diffs(q)
  PROVE  DirInv'
<1> DEFINE q == [r EXCEPT !.pc = step, !.want = locks]
<1>1. TypeOK /\ RoomLeft
  BY DEF DirInv
<1>2. GoesOnAs(q, r, step, locks)
  BY NextRecord
<1>3. /\ call' = [call EXCEPT ![c] = q] /\ UNCHANGED tables /\ confirmed' = confirmed
      /\ made < MaxCalls /\ made' = made + 1
      /\ lastEmployee' = lastEmployee /\ lastPosition' = lastPosition
  BY DEF Begin, Becomes, tables
<1> HIDE DEF q
<1>4. /\ call'[c] = q /\ \A d \in Calls \ {c} : call'[d] = call[d]
      /\ DOMAIN call' = Calls
  BY <1>1, <1>3, CallPut
<1>5. q \in Call /\ q.locks = {} /\ q.op = r.op
  BY <1>2 DEF GoesOnAs
<1>6. Shape(q) /\ Knows(q) /\ Diffs(q) /\ Covers(q)
  BY <1>2, <1>5 DEF Covers
<1>7. CallOK(call[c])'
  BY <1>3, <1>4, <1>6, OKAsBefore DEF CallOK
<1>8. \A d \in Calls : CallOK(call[d])'
  BY <1>3, <1>4, <1>7, TablesSpared
<1>9. \A d \in Calls : call'[d] \in Call /\ call'[d].locks \subseteq call[d].locks
  BY <1>1, <1>4, <1>5 DEF TypeOK
<1>10. Exclusive(Held)'
  BY <1>1, <1>9, ExclusiveKept DEF TypeOK
<1>11. made' \in 0 .. MaxCalls
  BY <1>1, <1>3, DirectoryAssumption DEF TypeOK
<1>12. confirmed' \subseteq OdooIds
  BY <1>1, <1>3 DEF TypeOK
<1>13. TypeOK' /\ OdooIdsConfirmed' /\ AdminHasPassword'
  BY <1>3, <1>4, <1>9, <1>10, <1>11, <1>12, RowsAsBefore
<1>14. /\ NeedsEmployee(call'[c]) => RoomForEmployee
       /\ NeedsPosition(call'[c]) => RoomForPosition
  BY <1>4, <1>5 DEF NeedsEmployee, NeedsPosition
<1>15. RoomLeft'
  BY <1>1, <1>3, <1>4, <1>14, RoomBegun
<1>16. QED
  BY <1>8, <1>13, <1>15 DEF DirInv

LEMMA RequestStep ==
  ASSUME DirInv, NEW c \in Calls, Request(c)
  PROVE  DirInv'
<1>1. CASE CreateBegin(c)
  <2>1. PICK odoo \in OdooIds, ids \in SUBSET PositionIds :
          /\ RoomForEmployee
          /\ Begin(c, "confirm", [Idle EXCEPT !.op = "create", !.odoo = odoo, !.ids = ids], {})
    BY <1>1 DEF CreateBegin
  <2> DEFINE r == [Idle EXCEPT !.op = "create", !.odoo = odoo, !.ids = ids]
  <2>2. r \in Call /\ r.op = "create" /\ r.odoo = odoo /\ r.ids = ids /\ r.locks = {}
    BY IdleRecord DEF Call, Ops
  <2>3. Begin(c, "confirm", r, {})
    BY <2>1
  <2> HIDE DEF r
  <2>4. ASSUME NEW q, GoesOnAs(q, r, "confirm", {})
        PROVE  Shape(q) /\ Knows(q) /\ Diffs(q)
    BY <2>2, <2>4 DEF GoesOnAs, Shape, Knows, Diffs
  <2>5. QED
    BY <2>1, <2>2, <2>3, <2>4, BeginStep DEF Steps
<1>2. CASE UpdateBegin(c)
  <2>1. PICK e \in EmployeeIds, odoo \in OdooIds, ids \in SUBSET PositionIds :
          /\ e <= lastEmployee
          /\ Begin(c, "read", [Idle EXCEPT !.op = "update", !.id = e, !.odoo = odoo, !.ids = ids], {})
    BY <1>2 DEF UpdateBegin
  <2> DEFINE r == [Idle EXCEPT !.op = "update", !.id = e, !.odoo = odoo, !.ids = ids]
  <2>2. r \in Call /\ r.op = "update" /\ r.id = e /\ r.odoo = odoo /\ r.ids = ids /\ r.locks = {}
    BY IdleRecord DEF Call, Ops
  <2>3. Begin(c, "read", r, {})
    BY <2>1
  <2> HIDE DEF r
  <2>4. ASSUME NEW q, GoesOnAs(q, r, "read", {})
        PROVE  Shape(q) /\ Knows(q) /\ Diffs(q)
    BY <2>1, <2>2, <2>4 DEF GoesOnAs, Shape, Knows, Diffs, Diffing
  <2>5. QED
    BY <2>2, <2>3, <2>4, BeginStep DEF Steps
<1>3. CASE AppointBegin(c)
  <2>1. PICK p \in PositionIds, ids \in SUBSET EmployeeIds :
          Begin(c, "count", [Idle EXCEPT !.op = "appoint", !.id = p, !.ids = ids], {})
    BY <1>3 DEF AppointBegin
  <2> DEFINE r == [Idle EXCEPT !.op = "appoint", !.id = p, !.ids = ids]
  <2>2. r \in Call /\ r.op = "appoint" /\ r.id = p /\ r.ids = ids /\ r.locks = {}
    BY IdleRecord DEF Call, Ops
  <2>3. Begin(c, "count", r, {})
    BY <2>1
  <2> HIDE DEF r
  <2>4. ASSUME NEW q, GoesOnAs(q, r, "count", {})
        PROVE  Shape(q) /\ Knows(q) /\ Diffs(q)
    BY <2>1, <2>2, <2>4 DEF GoesOnAs, Shape, Knows, Diffs, Diffing
  <2>5. QED
    BY <2>2, <2>3, <2>4, BeginStep DEF Steps
<1>4. CASE DeleteEmployeesBegin(c)
  <2>1. PICK ids \in SUBSET EmployeeIds : \E r \in DeleteNext(ids) : Begin(c, "row", r, r.want)
    BY <1>4 DEF DeleteEmployeesBegin
  <2> PICK r \in DeleteNext(ids) : Begin(c, "row", r, r.want)
    BY <2>1
  <2>2. /\ r \in Call /\ r.pc = "row" /\ r.op = "deleteEmployees" /\ r.locks = {}
        /\ r.want \subseteq Locks /\ Shape(r)
    BY DeleteNextOK DEF CallOK
  <2>3. ASSUME NEW q, GoesOnAs(q, r, "row", r.want)
        PROVE  Shape(q) /\ Knows(q) /\ Diffs(q)
    BY <2>2, <2>3 DEF GoesOnAs, Shape, Knows, Diffs
  <2>4. QED
    BY <2>1, <2>2, <2>3, BeginStep DEF Steps
<1>5. CASE DeletePositionsBegin(c)
  <2>1. PICK ids \in SUBSET PositionIds \ {{}} :
          LET r == [Idle EXCEPT !.op = "deletePositions", !.ids = ids] IN
          \/ Begin(c, "row", r, LocksOf("key", {P(p) : p \in ids}))
          \/ Begin(c, "count", r, {})
    BY <1>5 DEF DeletePositionsBegin
  <2> DEFINE r == [Idle EXCEPT !.op = "deletePositions", !.ids = ids]
             S == {P(p) : p \in ids}
             want == LocksOf("key", S)
  <2>2. r \in Call /\ r.op = "deletePositions" /\ r.ids = ids /\ r.locks = {}
    BY IdleRecord DEF Call, Ops
  <2>3. S \subseteq Rows
    BY RowsAre
  <2>4. Begin(c, "row", r, want) \/ Begin(c, "count", r, {})
    BY <2>1
  <2> HIDE DEF r, S
  <2>5. want \subseteq Locks /\ \A l \in want : l.mode = "key"
    BY <2>3, LocksOfType DEF Modes
  <2> HIDE DEF want
  <2>6. ASSUME NEW q, NEW step, NEW locks \in {want, {}}, GoesOnAs(q, r, step, locks)
        PROVE  Shape(q) /\ Knows(q) /\ Diffs(q)
    BY <2>2, <2>5, <2>6 DEF GoesOnAs, Shape, Knows, Diffs
  <2>7. CASE Begin(c, "row", r, want)
    BY <2>2, <2>5, <2>6, <2>7, BeginStep DEF Steps
  <2>8. CASE Begin(c, "count", r, {})
    BY <2>2, <2>6, <2>8, BeginStep DEF Steps
  <2>9. QED
    BY <2>4, <2>7, <2>8
<1>6. CASE BootstrapBegin(c)
  <2>1. PICK odoo \in OdooIds :
          /\ RoomForEmployee /\ RoomForPosition
          /\ Begin(c, "find", [Idle EXCEPT !.op = "bootstrap", !.odoo = odoo], {})
    BY <1>6 DEF BootstrapBegin
  <2> DEFINE r == [Idle EXCEPT !.op = "bootstrap", !.odoo = odoo]
  <2>2. r \in Call /\ r.op = "bootstrap" /\ r.odoo = odoo /\ r.ids = {} /\ r.locks = {}
    BY IdleRecord DEF Call, Ops
  <2>3. Begin(c, "find", r, {})
    BY <2>1
  <2> HIDE DEF r
  <2>4. ASSUME NEW q, GoesOnAs(q, r, "find", {})
        PROVE  Shape(q) /\ Knows(q) /\ Diffs(q)
    BY <2>2, <2>4 DEF GoesOnAs, Shape, Knows, Diffs
  <2>5. QED
    BY <2>1, <2>2, <2>3, <2>4, BeginStep DEF Steps
<1>7. QED
  BY <1>1, <1>2, <1>3, <1>4, <1>5, <1>6 DEF Request


-----------------------------------------------------------------------------
(* Steps that write rows *)

RowsOK ==
  /\ employee \in [EmployeeIds -> EmployeeRow \cup {NoRow}]
  /\ position \in [PositionIds -> PositionNames \cup {NoRow}]
  /\ assigned \subseteq Employees \X Positions
  /\ lastEmployee \in 0 .. MaxEmployees /\ \A e \in Employees : e <= lastEmployee
  /\ lastPosition \in 0 .. MaxPositions /\ \A p \in Positions : p <= lastPosition
  /\ \A e, f \in Employees : employee[e].odoo = employee[f].odoo => e = f
  /\ \A p, q \in Positions : position[p] = position[q] => p = q

LEMMA TypeParts ==
  TypeOK <=> /\ RowsOK
             /\ DOMAIN call = Calls /\ \A c \in Calls : call[c] \in Call
             /\ Exclusive(Held)
             /\ made \in 0 .. MaxCalls
             /\ confirmed \subseteq OdooIds
BY DEF TypeOK, RowsOK

LEMMA TypePartsNext ==
  (TypeOK <=> /\ RowsOK
              /\ DOMAIN call = Calls /\ \A c \in Calls : call[c] \in Call
              /\ Exclusive(Held)
              /\ made \in 0 .. MaxCalls
              /\ confirmed \subseteq OdooIds)'
BY TypeParts, PTL

(* c goes on as q, the others wait as they did. *)
Waits(c, q) ==
  /\ DOMAIN call' = Calls /\ call'[c] = q
  /\ \A d \in Calls \ {c} : Stays(call'[d], call[d])

LEMMA CallsWait ==
  ASSUME TypeOK, NEW c \in Calls, NEW q \in Call, call' = [call EXCEPT ![c] = q]
  PROVE  Waits(c, q)
<1>1. /\ call'[c] = q /\ \A d \in Calls \ {c} : call'[d] = call[d]
      /\ DOMAIN call' = Calls
  BY CallPut
<1>2. QED
  BY <1>1 DEF Waits, Stays, TypeOK

LEMMA CommitWrites ==
  ASSUME TypeOK, NEW c \in Calls, NEW q \in Call, NEW employees, NEW positions,
         NEW pairs, pairs \subseteq Pairs, CommitThen(c, q, employees, positions, pairs)
  PROVE  /\ employee' = employees /\ position' = positions /\ assigned' = pairs
         /\ made' = made /\ confirmed' = confirmed
         /\ Waits(c, q)
         /\ Elsewhere(c) => \A d \in Calls \ {c} : Tells(d)
<1> DEFINE changed == (assigned \ pairs) \cup (pairs \ assigned)
           gone == LocksOf("key", {A(pair) : pair \in assigned \ pairs})
           wanted(d) == IF call[d].pc \in {"delete", "cascade"}
                        THEN call[d].want \ gone ELSE call[d].want
           told(d) == IF Elsewhere(c) /\ call[d].pc \in {"delete", "insert", "keys"}
                      THEN call[d].touched \cup changed ELSE call[d].touched
<1>1. /\ employee' = employees /\ position' = positions /\ assigned' = pairs
      /\ made' = made /\ confirmed' = confirmed
      /\ DOMAIN call' = Calls /\ call'[c] = q
      /\ \A d \in Calls \ {c} :
           call'[d] = [call[d] EXCEPT !.want = wanted(d), !.touched = told(d)]
  BY DEF CommitThen
<1>2. changed \subseteq Pairs
  BY AssignedInPairs
<1>3. \A l \in gone : \E pair \in assigned \ pairs : l.row = A(pair)
  <2>1. assigned \ pairs \subseteq Pairs
    BY AssignedInPairs
  <2>2. QED
    BY <2>1, PairLocks
<1> HIDE DEF changed, gone
<1>4. ASSUME NEW d \in Calls \ {c}
      PROVE  /\ Stays(call'[d], call[d])
             /\ Elsewhere(c) => Tells(d)
  <2> DEFINE r == call[d]
             w == wanted(d)
             u == told(d)
             x == [r EXCEPT !.want = w, !.touched = u]
  <2>1. r \in Call
    BY DEF TypeOK
  <2>2. w \subseteq r.want /\ r.touched \subseteq u /\ w \subseteq Locks /\ u \subseteq Pairs
    BY <1>2, <2>1, CallFields
  <2>3. \A pair : On(r.want, A(pair)) /\ (pair \in pairs \/ r.pc \notin {"delete", "cascade"})
          => On(w, A(pair))
    BY <1>3, RowsDiffer DEF On
  <2>4. Elsewhere(c) /\ r.pc \in Diffing => changed \subseteq u
    BY DEF Diffing
  <2> HIDE DEF w, u
  <2>5. /\ x \in Call /\ x.pc = r.pc /\ x.op = r.op /\ x.id = r.id /\ x.ids = r.ids
        /\ x.odoo = r.odoo /\ x.locks = r.locks /\ x.want = w /\ x.touched = u
    BY <2>1, <2>2 DEF Call, Locks
  <2>6. call'[d] = x
    BY <1>1 DEF w, u
  <2> HIDE DEF x
  <2>7. Stays(call'[d], call[d])
    BY <1>1, <2>2, <2>3, <2>5, <2>6 DEF Stays
  <2>8. Elsewhere(c) => Tells(d)
    BY <1>1, <2>4, <2>5, <2>6 DEF Tells, changed
  <2>9. QED
    BY <2>7, <2>8
<1>5. QED
  BY <1>1, <1>4 DEF Waits


LEMMA LocklessNext ==
  ASSUME NEW c \in Calls, Shape(call'[c]), call'[c].locks = {}, call'[c].op \in {"none", "deleteEmployees"}
  PROVE  CallOK(call[c])'
BY DEF CallOK, Covers, Knows, Diffs

(* c writes rows, and gives up its locks. *)
LEMMA WriteStep ==
  ASSUME DirInv, NEW c \in Calls, NEW q \in Call, Waits(c, q), made' = made, confirmed' = confirmed,
         q.locks = {}, q.op \in {call[c].op, "none"},
         NeedsEmployee(q) => NeedsEmployee(call[c]), NeedsPosition(q) => NeedsPosition(call[c]),
         \/ lastEmployee' = lastEmployee
         \/ lastEmployee' = lastEmployee + 1 /\ NeedsEmployee(call[c]) /\ ~NeedsEmployee(q),
         \/ lastPosition' = lastPosition
         \/ lastPosition' = lastPosition + 1 /\ NeedsPosition(call[c]) /\ ~NeedsPosition(q),
         RowsOK', OdooIdsConfirmed', AdminHasPassword', CallOK(call[c])',
         \A d \in Calls \ {c} : Spares(d) /\ Tells(d)
  PROVE  DirInv'
<1>1. TypeOK /\ RoomLeft /\ \A d \in Calls : CallOK(call[d])
  BY DEF DirInv
<1>2. /\ DOMAIN call' = Calls /\ call'[c] = q
      /\ \A d \in Calls \ {c} : Stays(call'[d], call[d])
  BY DEF Waits
<1>3. \A d \in Calls : CallOK(call[d])'
  BY <1>1, <1>2, Undisturbed
<1>4. \A d \in Calls : call'[d] \in Call /\ call'[d].locks \subseteq call[d].locks
  BY <1>2 DEF Stays
<1>5. Exclusive(Held)'
  BY <1>1, <1>4, ExclusiveKept DEF TypeOK
<1>6. TypeOK'
  BY <1>1, <1>2, <1>4, <1>5, TypeParts, TypePartsNext
<1>7. NoNewNeeds
  BY <1>2 DEF NoNewNeeds, Stays, NeedsEmployee, NeedsPosition
<1>8. RoomLeft'
  BY <1>1, <1>2, <1>7, RoomKept
<1>9. QED
  BY <1>3, <1>6, <1>8 DEF DirInv

LEMMA RowFacts ==
  TypeOK => /\ employee \in [EmployeeIds -> EmployeeRow \cup {NoRow}]
            /\ \A e \in Employees : e \in EmployeeIds /\ employee[e] \in EmployeeRow
            /\ lastEmployee \in Nat /\ lastPosition \in Nat
            /\ MaxEmployees \in Nat /\ MaxPositions \in Nat
BY DirectoryAssumption DEF TypeOK, Employees

(* The pairs that a replacement leaves have their Employee and Position. *)
LEMMA ReplacedRefers ==
  ASSUME DirInv, NEW c \in Calls, KeysHold(c, Comers(c))
  PROVE  Replaced(c) \subseteq Employees \X Positions /\ Replaced(c) \subseteq Pairs
<1>1. assigned \subseteq Employees \X Positions /\ assigned \subseteq Pairs
  BY AssignedInPairs DEF DirInv, TypeOK
<1>2. Covers(call[c])
  BY DEF DirInv, CallOK
<1>3. \A pair \in Comers(c) : pair \in Pairs /\ HasRow(c, E(pair[1])) /\ HasRow(c, P(pair[2]))
  BY DEF KeysHold, Comers
<1>4. \A pair \in Comers(c) : pair \in Employees \X Positions
  <2> SUFFICES ASSUME NEW pair \in Comers(c)
               PROVE  pair \in Employees \X Positions
    OBVIOUS
  <2>1. pair = <<pair[1], pair[2]>> /\ pair[1] \in EmployeeIds /\ pair[2] \in PositionIds
    BY <1>3 DEF Pairs
  <2>2. pair[1] \in Employees /\ pair[2] \in Positions
    BY <1>2, <1>3, <2>1 DEF Covers, HasRow
  <2>3. QED
    BY <2>1, <2>2
<1>5. QED
  BY <1>1, <1>3, <1>4 DEF Replaced

LEMMA AppointCommitStep ==
  ASSUME DirInv, NEW c \in Calls, AppointCommit(c)
  PROVE  DirInv'
<1>1. CASE Fail(c)
  BY <1>1, FailStep
<1>2. CASE /\ KeysHold(c, Comers(c)) /\ Commit(c, employee, position, Replaced(c))
           /\ UNCHANGED <<lastEmployee, lastPosition>>
  <2>1. call[c].op = "appoint" /\ TypeOK /\ Elsewhere(c)
    BY DEF AppointCommit, Ready, At, DirInv, Elsewhere
  <2>2. Replaced(c) \subseteq Employees \X Positions /\ Replaced(c) \subseteq Pairs
    BY <1>2, ReplacedRefers
  <2>3. CommitThen(c, Idle, employee, position, Replaced(c))
    BY <1>2 DEF Commit
  <2>4. /\ employee' = employee /\ position' = position /\ assigned' = Replaced(c)
        /\ made' = made /\ confirmed' = confirmed /\ Waits(c, Idle)
        /\ \A d \in Calls \ {c} : Tells(d)
    BY <2>1, <2>2, <2>3, CommitWrites, IdleRecord
  <2>5. Employees' = Employees /\ Positions' = Positions
    BY <2>4 DEF Employees, Positions
  <2>6. \A odoo : OdooFree(odoo)' <=> OdooFree(odoo)
    BY <2>4, <2>5 DEF OdooFree
  <2>7. lastEmployee' = lastEmployee /\ lastPosition' = lastPosition /\ lastEmployee \in Nat
    BY <1>2, <2>1, RowFacts
  <2>8. \A d \in Calls \ {c} : Spares(d)
    BY <2>4, <2>5, <2>6, <2>7 DEF Spares
  <2>9. RowsOK'
    BY <2>1, <2>2, <2>4, <2>5, <2>7, TypeParts DEF RowsOK
  <2>10. OdooIdsConfirmed' /\ AdminHasPassword'
    BY <2>4, <2>5 DEF DirInv, OdooIdsConfirmed, AdminHasPassword
  <2>11. CallOK(call[c])'
    BY <2>4, IdleRecord, IdleOK, LocklessNext DEF Waits, CallOK
  <2>12. QED
    BY <2>4, <2>7, <2>8, <2>9, <2>10, <2>11, IdleRecord, WriteStep DEF NeedsEmployee, NeedsPosition
<1>3. QED
  BY <1>1, <1>2 DEF AppointCommit

LEMMA UpdateCommitStep ==
  ASSUME DirInv, NEW c \in Calls, UpdateCommit(c)
  PROVE  DirInv'
<1> DEFINE r == call[c]
           e == r.id
<1>1. CASE Fail(c)
  BY <1>1, FailStep
<1>2. ASSUME KeysHold(c, Comers(c)), NEW password \in {employee[e].password, TRUE},
             Commit(c, [employee EXCEPT ![e].odoo = r.odoo, ![e].password = password],
                    position, Replaced(c)),
             UNCHANGED <<lastEmployee, lastPosition>>
      PROVE  DirInv'
  <2>1. r.op = "update" /\ r.pc = "keys"
    BY DEF UpdateCommit, Ready, At
  <2>2. TypeOK /\ Shape(r) /\ Covers(r) /\ Knows(r) /\ OdooIdsConfirmed /\ AdminHasPassword /\ Exclusive(Held)
    BY DEF DirInv, CallOK, TypeOK
  <2>3. e \in EmployeeIds /\ r.odoo \in OdooIds /\ Owns(r.locks, e)
    BY <2>1, <2>2 DEF Shape, Diffing
  <2>4. e \in Employees /\ employee[e] \in EmployeeRow
    BY <2>2, <2>3, RowFacts DEF Owns, Covers
  <2> DEFINE employees == [employee EXCEPT ![e].odoo = r.odoo, ![e].password = password]
  <2>5. /\ employees \in [EmployeeIds -> EmployeeRow \cup {NoRow}]
        /\ employees[e] \in EmployeeRow
        /\ employees[e].odoo = r.odoo /\ employees[e].password = password
        /\ employees[e].origin = employee[e].origin
        /\ \A f \in EmployeeIds \ {e} : employees[f] = employee[f]
    BY <2>2, <2>3, <2>4, RowFacts DEF EmployeeRow
  <2>6. Replaced(c) \subseteq Employees \X Positions /\ Replaced(c) \subseteq Pairs
    BY <1>2, ReplacedRefers
  <2>7. CommitThen(c, Idle, employees, position, Replaced(c))
    BY <1>2 DEF Commit
  <2> HIDE DEF employees
  <2>8. /\ employee' = employees /\ position' = position /\ assigned' = Replaced(c)
        /\ made' = made /\ confirmed' = confirmed /\ Waits(c, Idle)
    BY <2>2, <2>6, <2>7, CommitWrites, IdleRecord
  <2>9. Employees' = Employees /\ Positions' = Positions
    BY <2>4, <2>5, <2>8, NoEmployeeAssumption DEF Employees, Positions
  <2>10. employees[e].odoo # employee[e].odoo => On(r.locks, O(r.odoo)) /\ OdooFree(r.odoo)
    <3> SUFFICES ASSUME employee[e].odoo # r.odoo
                 PROVE  On(r.locks, O(r.odoo)) /\ OdooFree(r.odoo)
      BY <2>5
    <3>1. On(r.locks, O(r.odoo))
      BY <2>1, <2>2 DEF Knows, Diffing
    <3>2. \A f \in EmployeeIds : Lock("key", E(f)) \in r.locks => f = e
      BY <2>1, <2>2, LockFields DEF Shape
    <3>3. QED
      BY <2>2, <2>3, <3>1, <3>2 DEF Covers, On, Employees
  <2>11. ASSUME NEW d \in Calls \ {c}
         PROVE  Spares(d) /\ Tells(d)
    <3>1. ~Owns(call[d].locks, e)
      BY <2>2, <2>3, OwnerAlone
    <3>2. \A odoo \in OdooIds : OdooFree(odoo) /\ ~OdooFree(odoo)' =>
            odoo = r.odoo /\ employees[e].odoo # employee[e].odoo
      <4> SUFFICES ASSUME NEW odoo \in OdooIds, OdooFree(odoo), ~OdooFree(odoo)'
                   PROVE  odoo = r.odoo /\ employees[e].odoo # employee[e].odoo
        OBVIOUS
      <4>1. PICK f \in Employees : employees[f].odoo = odoo
        BY <2>8, <2>9 DEF OdooFree
      <4>2. employee[f].odoo # odoo
        BY DEF OdooFree
      <4>3. f = e
        BY <2>5, <4>1, <4>2 DEF Employees
      <4>4. QED
        BY <2>5, <4>1, <4>2, <4>3
    <3>3. On(r.locks, O(r.odoo)) => ~On(call[d].locks, O(r.odoo))
      <4> SUFFICES ASSUME NEW l \in r.locks, l.row = O(r.odoo)
                   PROVE  ~On(call[d].locks, O(r.odoo))
        BY DEF On
      <4>1. l.mode = "key"
        BY <2>2, <2>3 DEF Shape
      <4>2. QED
        BY <2>2, <4>1, KeyAlone
    <3>4. \A f \in Employees : /\ employees[f].odoo = employee[f].odoo \/ ~Owns(call[d].locks, f)
                               /\ employees[f].origin = employee[f].origin
                               /\ employee[f].password => employees[f].password
      BY <2>5, <3>1 DEF Employees
    <3>5. Spares(d)
      BY <1>2, <2>2, <2>8, <2>9, <2>10, <3>2, <3>3, <3>4, RowFacts DEF Spares
    <3>6. ASSUME NEW pair \in Pairs, ~(pair \in assigned <=> pair \in assigned')
          PROVE  pair[1] = e
      <4>1. HasRow(c, A(pair))
        BY <2>8, <3>6 DEF Replaced, Goners, Comers
      <4>2. QED
        BY <2>1, <2>2, <4>1 DEF Shape, HasRow
    <3>7. Tells(d)
      BY <3>1, <3>6 DEF Tells
    <3>8. QED
      BY <3>5, <3>7
  <2>12. \A f, g \in Employees : employees[f].odoo = employees[g].odoo => f = g
    <3>1. \A f \in Employees \ {e} : employees[f].odoo # r.odoo
      BY <2>2, <2>4, <2>5, <2>10 DEF OdooFree, TypeOK, Employees
    <3>2. \A f \in Employees \ {e} : employees[f] = employee[f]
      BY <2>5 DEF Employees
    <3>3. QED
      BY <2>2, <2>5, <3>1, <3>2 DEF TypeOK
  <2>13. RowsOK'
    BY <1>2, <2>2, <2>5, <2>6, <2>8, <2>9, <2>12, TypeParts DEF RowsOK
  <2>14. OdooIdsConfirmed'
    <3>1. employees[e].origin = "service" => r.odoo \in confirmed
      BY <2>1, <2>2, <2>4, <2>5 DEF Knows, Diffing
    <3>2. QED
      BY <2>2, <2>5, <2>8, <2>9, <3>1 DEF OdooIdsConfirmed, Employees
  <2>15. AdminHasPassword'
    <3>1. employees[e].origin = "admin" => employees[e].password
      BY <1>2, <2>2, <2>4, <2>5 DEF AdminHasPassword
    <3>2. QED
      BY <2>2, <2>5, <2>8, <2>9, <3>1 DEF AdminHasPassword, Employees
  <2>16. CallOK(call[c])'
    BY <2>8, IdleRecord, IdleOK, LocklessNext DEF Waits, CallOK
  <2>17. lastEmployee' = lastEmployee /\ lastPosition' = lastPosition
    BY <1>2
  <2>18. QED
    BY <2>8, <2>11, <2>13, <2>14, <2>15, <2>16, <2>17, IdleRecord, WriteStep DEF NeedsEmployee, NeedsPosition
<1>3. QED
  BY <1>1, <1>2 DEF UpdateCommit


LEMMA CreateCommitStep ==
  ASSUME DirInv, NEW c \in Calls, CreateCommit(c)
  PROVE  DirInv'
<1> DEFINE r == call[c]
           n == lastEmployee + 1
<1>1. CASE Fail(c)
  BY <1>1, FailStep
<1>2. CASE /\ \A p \in r.ids : HasRow(c, P(p))
           /\ lastEmployee' = lastEmployee + 1
           /\ Commit(c, NewEmployee(r.odoo, "service"), position,
                     assigned \cup ({lastEmployee'} \X r.ids))
           /\ UNCHANGED lastPosition
  <2>1. r.op = "create" /\ r.pc = "keys"
    BY DEF CreateCommit, Ready, At
  <2>2. /\ TypeOK /\ Shape(r) /\ Covers(r) /\ Knows(r) /\ OdooIdsConfirmed /\ AdminHasPassword
        /\ Exclusive(Held) /\ RoomLeft
    BY DEF DirInv, CallOK, TypeOK
  <2>3. r.odoo \in OdooIds /\ r.ids \subseteq PositionIds /\ On(r.locks, O(r.odoo)) /\ r.odoo \in confirmed
    BY <2>1, <2>2 DEF Shape, Knows
  <2>4. r.ids \subseteq Positions
    BY <1>2, <2>2, <2>3 DEF Covers, HasRow
  <2>5. OdooFree(r.odoo)
    <3>1. \A f \in EmployeeIds : Lock("key", E(f)) \notin r.locks
      BY <2>1, <2>2, LockFields DEF Shape
    <3>2. QED
      BY <2>2, <2>3, <3>1 DEF Covers, On, Employees
  <2>6. n \in EmployeeIds /\ n \notin Employees /\ lastEmployee \in Nat
    <3>1. c \in ForEmployees
      BY <2>1 DEF ForEmployees, NeedsEmployee
    <3>2. Cardinality(ForEmployees) >= 1
      <4>1. IsFiniteSet(ForEmployees) /\ {} \in SUBSET ForEmployees
        BY <2>2, NeedsWithin
      <4>2. Cardinality({}) + 1 <= Cardinality(ForEmployees) /\ Cardinality({}) = 0
        BY <3>1, <4>1, FewerNeeds, FS_EmptySet
      <4>3. QED
        BY <2>2, <4>2, NeedsWithin
    <3>3. QED
      BY <2>2, <3>2, RowFacts, NeedsWithin DEF RoomLeft, EmployeeIds, TypeOK
  <2> DEFINE row == [odoo |-> r.odoo, password |-> FALSE, origin |-> "service"]
             employees == [employee EXCEPT ![n] = row]
             pairs == assigned \cup ({n} \X r.ids)
  <2>7. row \in EmployeeRow /\ row # NoRow /\ row.odoo = r.odoo /\ row.origin = "service"
    <3>1. row \in EmployeeRow /\ row.odoo = r.odoo /\ row.origin = "service"
      BY <2>3 DEF EmployeeRow
    <3>2. QED
      BY <3>1, NoEmployeeAssumption
  <2> HIDE DEF row
  <2>8. /\ employees \in [EmployeeIds -> EmployeeRow \cup {NoRow}]
        /\ employees[n] = row /\ \A f \in EmployeeIds \ {n} : employees[f] = employee[f]
    BY <2>2, <2>6, <2>7, RowFacts
  <2>9. pairs \subseteq Pairs
    BY <2>2, <2>3, <2>6, AssignedInPairs DEF Pairs
  <2>10. CommitThen(c, Idle, employees, position, pairs)
    BY <1>2 DEF Commit, NewEmployee, row
  <2>11. /\ employee' = employees /\ position' = position /\ assigned' = pairs
         /\ made' = made /\ confirmed' = confirmed /\ Waits(c, Idle)
    BY <2>2, <2>9, <2>10, CommitWrites, IdleRecord
  <2> HIDE DEF employees
  <2>12. Employees' = Employees \cup {n} /\ Positions' = Positions
    BY <2>6, <2>7, <2>8, <2>11 DEF Employees, Positions
  <2>13. lastEmployee' = n /\ lastPosition' = lastPosition /\ \A f \in Employees : f <= lastEmployee
    BY <1>2, <2>2 DEF TypeOK
  <2>14. ASSUME NEW d \in Calls \ {c}
         PROVE  Spares(d) /\ Tells(d)
    <3>1. \A odoo \in OdooIds : OdooFree(odoo) /\ ~OdooFree(odoo)' => odoo = r.odoo
      BY <2>7, <2>8, <2>11, <2>12 DEF OdooFree, Employees
    <3>2. ~On(call[d].locks, O(r.odoo))
      <4>1. PICK l \in r.locks : l.row = O(r.odoo)
        BY <2>3 DEF On
      <4>2. l.mode = "key"
        BY <2>2, <2>3, <4>1 DEF Shape
      <4>3. QED
        BY <2>2, <4>1, <4>2, KeyAlone
    <3>3. \A f \in Employees : employees[f] = employee[f]
      BY <2>6, <2>8 DEF Employees
    <3>4. Spares(d)
      BY <2>6, <2>11, <2>12, <2>13, <3>1, <3>2, <3>3 DEF Spares
    <3>5. Tells(d)
      BY <2>6, <2>11 DEF Tells
    <3>6. QED
      BY <3>4, <3>5
  <2>15. RowsOK'
    <3>1. \A f, g \in Employees' : employees[f].odoo = employees[g].odoo => f = g
      BY <2>2, <2>5, <2>6, <2>7, <2>8, <2>12 DEF OdooFree, TypeOK, Employees
    <3>2. pairs \subseteq Employees' \X Positions
      BY <2>2, <2>4, <2>12 DEF TypeOK
    <3>3. n \in 0 .. MaxEmployees /\ \A f \in Employees' : f <= n
      BY <2>2, <2>6, <2>12, <2>13, RowFacts DEF EmployeeIds, Employees
    <3>4. QED
      BY <2>2, <2>8, <2>11, <2>12, <2>13, <3>1, <3>2, <3>3 DEF RowsOK, TypeOK
  <2>16. OdooIdsConfirmed' /\ AdminHasPassword'
    BY <2>2, <2>3, <2>6, <2>7, <2>8, <2>11, <2>12 DEF OdooIdsConfirmed, AdminHasPassword, Employees
  <2>17. CallOK(call[c])'
    BY <2>11, IdleRecord, IdleOK, LocklessNext DEF Waits, CallOK
  <2>18. QED
    BY <2>1, <2>11, <2>13, <2>14, <2>15, <2>16, <2>17, IdleRecord, WriteStep DEF NeedsEmployee, NeedsPosition
<1>3. QED
  BY <1>1, <1>2 DEF CreateCommit

LEMMA DeleteEmployeesCommitStep ==
  ASSUME DirInv, NEW c \in Calls, DeleteEmployeesCommit(c)
  PROVE  DirInv'
<1> DEFINE r == call[c]
           e == r.id
           employees == [employee EXCEPT ![e] = NoRow]
           pairs == {a \in assigned : a[1] # e}
<1>1. r.op = "deleteEmployees" /\ r.pc = "cascade" /\ Elsewhere(c)
  BY DEF DeleteEmployeesCommit, Ready, At, Elsewhere
<1>2. /\ TypeOK /\ Shape(r) /\ OdooIdsConfirmed /\ AdminHasPassword /\ Exclusive(Held)
  BY DEF DirInv, CallOK, TypeOK
<1>3. e \in EmployeeIds /\ r.ids \subseteq EmployeeIds /\ On(r.locks, E(e))
  BY <1>1, <1>2 DEF Shape
<1>4. PICK q \in IF r.ids = {} THEN {Idle} ELSE DeleteNext(r.ids) :
        CommitThen(c, q, employees, position, pairs)
  BY DEF DeleteEmployeesCommit
<1>5. q \in Call /\ q.locks = {} /\ q.op \in {"none", "deleteEmployees"} /\ Shape(q)
  BY <1>3, IdleRecord, IdleOK, DeleteNextOK DEF CallOK
<1>6. pairs \subseteq Pairs
  BY <1>2, AssignedInPairs
<1>7. /\ employees \in [EmployeeIds -> EmployeeRow \cup {NoRow}]
      /\ employees[e] = NoRow /\ \A f \in EmployeeIds \ {e} : employees[f] = employee[f]
  BY <1>2, <1>3, RowFacts
<1>8. /\ employee' = employees /\ position' = position /\ assigned' = pairs
      /\ made' = made /\ confirmed' = confirmed /\ Waits(c, q)
      /\ \A d \in Calls \ {c} : Tells(d)
  BY <1>1, <1>2, <1>4, <1>5, <1>6, CommitWrites
<1> HIDE DEF employees
<1>9. Employees' = Employees \ {e} /\ Positions' = Positions
  BY <1>7, <1>8 DEF Employees, Positions
<1>10. lastEmployee' = lastEmployee /\ lastPosition' = lastPosition /\ lastEmployee \in Nat
  BY <1>2, RowFacts DEF DeleteEmployeesCommit
<1>11. ASSUME NEW d \in Calls \ {c}
       PROVE  Spares(d)
  <2>1. ~On(call[d].locks, E(e))
    <3>1. PICK l \in r.locks : l.row = E(e)
      BY <1>3 DEF On
    <3>2. l.mode = "key"
      BY <1>1, <1>2 DEF Shape
    <3>3. QED
      BY <1>2, <3>1, <3>2, KeyAlone
  <2>2. \A odoo \in OdooIds : OdooFree(odoo) => OdooFree(odoo)'
    BY <1>7, <1>8, <1>9 DEF OdooFree, Employees
  <2>3. \A f \in Employees' : employees[f] = employee[f]
    BY <1>7, <1>9 DEF Employees
  <2>4. QED
    BY <1>8, <1>9, <1>10, <2>1, <2>2, <2>3 DEF Spares
<1>12. \A f \in Employees' : f \in Employees /\ employees[f] = employee[f]
  BY <1>7, <1>9 DEF Employees
<1>13. RowsOK'
  <2>1. pairs \subseteq Employees' \X Positions
    BY <1>2, <1>9 DEF TypeOK
  <2>2. QED
    BY <1>2, <1>7, <1>8, <1>9, <1>10, <1>12, <2>1 DEF RowsOK, TypeOK
<1>14. OdooIdsConfirmed' /\ AdminHasPassword'
  BY <1>2, <1>8, <1>12 DEF OdooIdsConfirmed, AdminHasPassword
<1>15. CallOK(call[c])'
  BY <1>5, <1>8, LocklessNext DEF Waits
<1>16. QED
  BY <1>1, <1>5, <1>8, <1>10, <1>11, <1>13, <1>14, <1>15, WriteStep DEF NeedsEmployee, NeedsPosition

LEMMA DeletePositionsCommitStep ==
  ASSUME DirInv, NEW c \in Calls, DeletePositionsCommit(c)
  PROVE  DirInv'
<1> DEFINE r == call[c]
           positions == [p \in PositionIds |-> IF p \in Doomed(c) THEN NoRow ELSE position[p]]
           pairs == {a \in assigned : a[2] \notin Doomed(c)}
<1>1. r.op = "deletePositions" /\ Elsewhere(c)
  BY DEF DeletePositionsCommit, Ready, At, Elsewhere
<1>2. /\ TypeOK /\ Shape(r) /\ OdooIdsConfirmed /\ AdminHasPassword /\ Exclusive(Held)
  BY DEF DirInv, CallOK, TypeOK
<1>3. CommitThen(c, Idle, employee, positions, pairs)
  BY DEF DeletePositionsCommit, Commit
<1>4. pairs \subseteq Pairs
  BY <1>2, AssignedInPairs
<1>5. /\ positions \in [PositionIds -> PositionNames \cup {NoRow}]
      /\ \A p \in PositionIds : positions[p] = IF p \in Doomed(c) THEN NoRow ELSE position[p]
  BY <1>2 DEF TypeOK
<1>6. /\ employee' = employee /\ position' = positions /\ assigned' = pairs
      /\ made' = made /\ confirmed' = confirmed /\ Waits(c, Idle)
      /\ \A d \in Calls \ {c} : Tells(d)
  BY <1>1, <1>2, <1>3, <1>4, CommitWrites, IdleRecord
<1> HIDE DEF positions
<1>7. Employees' = Employees /\ Positions' = Positions \ Doomed(c)
  BY <1>5, <1>6 DEF Employees, Positions
<1>8. lastEmployee' = lastEmployee /\ lastPosition' = lastPosition /\ lastEmployee \in Nat
  BY <1>2, RowFacts DEF DeletePositionsCommit
<1>9. \A odoo : OdooFree(odoo)' <=> OdooFree(odoo)
  BY <1>6, <1>7 DEF OdooFree
<1>10. ASSUME NEW d \in Calls \ {c}
       PROVE  Spares(d)
  <2>1. ASSUME NEW p \in Doomed(c)
        PROVE  ~On(call[d].locks, P(p))
    <3>1. PICK l \in r.locks : l.row = P(p)
      BY DEF Doomed, HasRow
    <3>2. l.mode = "key"
      BY <1>1, <1>2 DEF Shape
    <3>3. QED
      BY <1>2, <3>1, <3>2, KeyAlone
  <2>2. QED
    BY <1>6, <1>7, <1>8, <1>9, <2>1 DEF Spares
<1>11. \A p \in Positions' : p \in Positions /\ positions[p] = position[p]
  BY <1>5, <1>7 DEF Positions
<1>12. RowsOK'
  <2>1. pairs \subseteq Employees \X Positions'
    BY <1>2, <1>7 DEF TypeOK
  <2>2. QED
    BY <1>2, <1>5, <1>6, <1>7, <1>8, <1>11, <2>1 DEF RowsOK, TypeOK
<1>13. OdooIdsConfirmed' /\ AdminHasPassword'
  BY <1>2, <1>6, <1>7 DEF OdooIdsConfirmed, AdminHasPassword
<1>14. CallOK(call[c])'
  BY <1>6, IdleRecord, IdleOK, LocklessNext DEF Waits, CallOK
<1>15. QED
  BY <1>6, <1>8, <1>10, <1>12, <1>13, <1>14, IdleRecord, WriteStep DEF NeedsEmployee, NeedsPosition


-----------------------------------------------------------------------------
(* Positions are created and renamed *)

LEMMA PositionStep ==
  ASSUME DirInv, UNCHANGED <<employee, assigned, lastEmployee, call, made, confirmed>>,
         RowsOK', RoomLeft', Positions \subseteq Positions'
  PROVE  DirInv'
<1>1. TypeOK /\ OdooIdsConfirmed /\ AdminHasPassword /\ lastEmployee \in Nat
  BY RowFacts DEF DirInv
<1>2. Employees' = Employees
  BY DEF Employees
<1>3. \A odoo : OdooFree(odoo)' <=> OdooFree(odoo)
  BY <1>2 DEF OdooFree
<1>4. ASSUME NEW d \in Calls
      PROVE  CallOK(call[d])'
  <2>1. call'[d] = call[d] /\ call[d] \in Call /\ CallOK(call[d])
    BY DEF DirInv, TypeOK
  <2>2. Stays(call'[d], call[d])
    BY <2>1 DEF Stays
  <2>3. Spares(d) /\ Tells(d)
    BY <1>1, <1>2, <1>3 DEF Spares, Tells
  <2>4. QED
    BY <1>1, <2>1, <2>2, <2>3, Undisturbed
<1>5. \A d \in Calls : call'[d].locks \subseteq call[d].locks
  OBVIOUS
<1>6. Exclusive(Held)'
  BY <1>1, <1>5, ExclusiveKept DEF TypeOK
<1>7. TypeOK'
  BY <1>1, <1>6, TypeParts, TypePartsNext
<1>8. OdooIdsConfirmed' /\ AdminHasPassword'
  BY <1>1, <1>2 DEF OdooIdsConfirmed, AdminHasPassword
<1>9. QED
  BY <1>4, <1>7, <1>8 DEF DirInv

(* A Position with a name that no other has. *)
LEMMA NewName ==
  ASSUME DirInv, NEW n \in PositionIds, NEW name \in PositionNames, NameFree(name),
         position' = [position EXCEPT ![n] = name],
         UNCHANGED <<employee, assigned, lastEmployee>>,
         lastPosition' \in 0 .. MaxPositions, lastPosition <= lastPosition', n <= lastPosition'
  PROVE  RowsOK' /\ Employees' = Employees /\ Positions' = Positions \cup {n}
<1>1. TypeOK /\ lastPosition \in Nat
  BY RowFacts DEF DirInv
<1>2. /\ position' \in [PositionIds -> PositionNames \cup {NoRow}]
      /\ position'[n] = name /\ \A p \in PositionIds \ {n} : position'[p] = position[p]
  BY <1>1 DEF TypeOK
<1>3. Employees' = Employees
  BY DEF Employees
<1>4. Positions' = Positions \cup {n}
  BY <1>2, DirectoryAssumption DEF Positions
<1>5. \A p, q \in Positions' : position'[p] = position'[q] => p = q
  BY <1>1, <1>2, <1>4 DEF NameFree, TypeOK, Positions
<1>6. \A p \in Positions' : p <= lastPosition'
  BY <1>1, <1>4, DirectoryAssumption DEF TypeOK, Positions, PositionIds
<1>7. assigned' \subseteq Employees' \X Positions'
  BY <1>1, <1>3, <1>4 DEF TypeOK
<1>8. QED
  BY <1>1, <1>2, <1>3, <1>4, <1>5, <1>6, <1>7 DEF RowsOK, TypeOK

LEMMA CreatePositionStep ==
  ASSUME DirInv, NEW name \in PositionNames, CreatePosition(name)
  PROVE  DirInv'
<1> DEFINE S == {c \in Calls : call[c].op \in {"bootstrap"}}
<1>1. TypeOK /\ RoomLeft
  BY DEF DirInv
<1>2. /\ NameFree(name) /\ lastPosition' = lastPosition + 1
      /\ position' = [position EXCEPT ![lastPosition + 1] = name]
      /\ UNCHANGED <<employee, assigned, lastEmployee, call, made, confirmed>>
  BY DEF CreatePosition
<1>3. IsFiniteSet(Busy) /\ S \in SUBSET Busy /\ ForPositions \in SUBSET S
  BY <1>1 DEF RoomLeft, Busy, ForPositions, NeedsPosition
<1>4. lastPosition + Cardinality(S) < MaxPositions
  BY DEF CreatePosition, RoomForPosition, InFlight
<1>5. IsFiniteSet(S)
  BY <1>3, FS_Subset
<1> HIDE DEF S
<1>6. /\ Cardinality(ForPositions) <= Cardinality(S)
      /\ Cardinality(S) \in Nat /\ Cardinality(ForPositions) \in Nat
  BY <1>3, <1>5, FewerNeeds
<1>7. lastPosition \in Nat /\ MaxPositions \in Nat
  BY <1>1, RowFacts
<1>8. /\ lastPosition + 1 + Cardinality(ForPositions) <= MaxPositions
      /\ lastPosition + 1 \in 0 .. MaxPositions /\ lastPosition + 1 \in PositionIds
  BY <1>4, <1>6, <1>7 DEF PositionIds
<1>9. RowsOK' /\ Positions' = Positions \cup {lastPosition + 1}
  <2> DEFINE n == lastPosition + 1
  <2>1. /\ n \in PositionIds /\ lastPosition' \in 0 .. MaxPositions
        /\ lastPosition <= lastPosition' /\ n <= lastPosition'
    BY <1>2, <1>7, <1>8
  <2>2. position' = [position EXCEPT ![n] = name]
    BY <1>2
  <2>3. UNCHANGED <<employee, assigned, lastEmployee>>
    BY <1>2
  <2> HIDE DEF n
  <2>4. RowsOK' /\ Positions' = Positions \cup {n}
    BY <1>2, <2>1, <2>2, <2>3, NewName
  <2>5. QED
    BY <2>4 DEF n
<1>10. RoomLeft'
  <2>1. Busy' = Busy /\ ForEmployees' = ForEmployees /\ ForPositions' = ForPositions
    BY <1>2 DEF Busy, ForEmployees, ForPositions, NeedsEmployee, NeedsPosition
  <2>2. QED
    BY <1>1, <1>2, <1>8, <2>1 DEF RoomLeft
<1>11. QED
  BY <1>2, <1>9, <1>10, PositionStep

LEMMA UpdatePositionStep ==
  ASSUME DirInv, NEW name \in PositionNames, NEW p \in PositionIds, UpdatePosition(p, name)
  PROVE  DirInv'
<1>1. TypeOK /\ RoomLeft /\ lastPosition \in 0 .. MaxPositions
  BY DEF DirInv, TypeOK
<1>2. /\ p \in Positions /\ NameFree(name) /\ lastPosition' = lastPosition
      /\ position' = [position EXCEPT ![p] = name]
      /\ UNCHANGED <<employee, assigned, lastEmployee, call, made, confirmed>>
  BY DEF UpdatePosition
<1>3. p <= lastPosition
  BY <1>1, <1>2 DEF TypeOK
<1>4. RowsOK' /\ Positions' = Positions \cup {p}
  <2>1. lastPosition' \in 0 .. MaxPositions /\ lastPosition <= lastPosition' /\ p <= lastPosition'
    BY <1>1, <1>2, <1>3, RowFacts
  <2>2. UNCHANGED <<employee, assigned, lastEmployee>>
    BY <1>2
  <2>3. QED
    BY <1>2, <2>1, <2>2, NewName
<1>5. RoomLeft'
  <2>1. Busy' = Busy /\ ForEmployees' = ForEmployees /\ ForPositions' = ForPositions
    BY <1>2 DEF Busy, ForEmployees, ForPositions, NeedsEmployee, NeedsPosition
  <2>2. QED
    BY <1>1, <1>2, <2>1 DEF RoomLeft
<1>6. QED
  BY <1>2, <1>4, <1>5, PositionStep

-----------------------------------------------------------------------------
(* bootstrapadmin writes *)

LEMMA BootstrapPositionStep ==
  ASSUME DirInv, NEW c \in Calls, BootstrapPosition(c)
  PROVE  DirInv'
<1> DEFINE r == call[c]
           n == lastPosition + 1
           q == [r EXCEPT !.pc = "hire", !.ids = {n}]
<1>1. CASE Fail(c)
  BY <1>1, FailStep
<1>2. CASE /\ NameFree(Admin)
           /\ lastPosition' = lastPosition + 1
           /\ position' = [position EXCEPT ![lastPosition'] = Admin]
           /\ Becomes(c, [call[c] EXCEPT !.pc = "hire", !.ids = {lastPosition'}])
           /\ UNCHANGED <<employee, assigned, lastEmployee, made, confirmed>>
  <2>1. r.pc = "found" /\ r.op = "bootstrap"
    BY DEF BootstrapPosition, At
  <2>2. TypeOK /\ RoomLeft /\ Shape(r) /\ OdooIdsConfirmed /\ AdminHasPassword
    BY DEF DirInv, CallOK
  <2>3. r \in Call /\ r.locks = {} /\ r.want = {} /\ r.odoo \in OdooIds
    BY <2>1, <2>2 DEF TypeOK, Shape
  <2>4. n \in PositionIds /\ n \in 0 .. MaxPositions /\ lastPosition \in Nat /\ lastEmployee \in Nat
    <3>1. c \in ForPositions
      BY <2>1 DEF ForPositions, NeedsPosition
    <3>2. IsFiniteSet(ForPositions) /\ {} \in SUBSET ForPositions
      BY <2>2, NeedsWithin
    <3>3. Cardinality({}) + 1 <= Cardinality(ForPositions) /\ Cardinality({}) = 0
      BY <3>1, <3>2, FewerNeeds, FS_EmptySet
    <3>4. Cardinality(ForPositions) >= 1
      BY <2>2, <3>3, NeedsWithin
    <3>5. QED
      BY <2>2, <3>4, RowFacts, NeedsWithin DEF RoomLeft, PositionIds
  <2>5. /\ q \in Call /\ q.pc = "hire" /\ q.op = "bootstrap" /\ q.ids = {n}
        /\ q.odoo = r.odoo /\ q.locks = {} /\ q.want = {}
    BY <2>1, <2>3, <2>4 DEF Call
  <2>6. call' = [call EXCEPT ![c] = q]
    BY <1>2 DEF Becomes
  <2> HIDE DEF q
  <2>7. Waits(c, q)
    BY <2>2, <2>5, <2>6, CallsWait
  <2>8. Admin \in PositionNames
    BY DirectoryAssumption
  <2>9. RowsOK' /\ Employees' = Employees /\ Positions' = Positions \cup {n}
    <3>1. /\ lastPosition' \in 0 .. MaxPositions
          /\ lastPosition <= lastPosition' /\ n <= lastPosition'
      BY <1>2, <2>4
    <3>2. position' = [position EXCEPT ![n] = Admin] /\ n \in PositionIds
      BY <1>2, <2>4
    <3>3. UNCHANGED <<employee, assigned, lastEmployee>>
      BY <1>2
    <3> HIDE DEF n
    <3>4. QED
      BY <1>2, <2>8, <3>1, <3>2, <3>3, NewName
  <2>10. \A odoo : OdooFree(odoo)' <=> OdooFree(odoo)
    BY <1>2, <2>9 DEF OdooFree
  <2>11. \A d \in Calls \ {c} : Spares(d) /\ Tells(d)
    BY <1>2, <2>4, <2>9, <2>10 DEF Spares, Tells
  <2>12. OdooIdsConfirmed' /\ AdminHasPassword'
    BY <1>2, <2>2, <2>9 DEF OdooIdsConfirmed, AdminHasPassword
  <2>13. CallOK(call[c])'
    <3>1. Shape(q)
      BY <2>3, <2>4, <2>5 DEF Shape
    <3>2. QED
      BY <2>5, <2>7, <3>1 DEF Waits, CallOK, Covers, Knows, Diffs
  <2>14. QED
    BY <1>2, <2>1, <2>5, <2>7, <2>9, <2>11, <2>12, <2>13, WriteStep DEF NeedsEmployee, NeedsPosition
<1>3. QED
  BY <1>1, <1>2 DEF BootstrapPosition

LEMMA BootstrapHireStep ==
  ASSUME DirInv, NEW c \in Calls, BootstrapHire(c)
  PROVE  DirInv'
<1> DEFINE r == call[c]
           n == lastEmployee + 1
           row == [odoo |-> r.odoo, password |-> FALSE, origin |-> "command"]
           employees == [employee EXCEPT ![n] = row]
           q == [r EXCEPT !.pc = "password", !.id = n]
<1>1. CASE Fail(c)
  BY <1>1, FailStep
<1>2. CASE /\ OdooFree(call[c].odoo)
           /\ lastEmployee' = lastEmployee + 1
           /\ employee' = NewEmployee(call[c].odoo, "command")
           /\ Becomes(c, [call[c] EXCEPT !.pc = "password", !.id = lastEmployee'])
           /\ UNCHANGED <<position, assigned, lastPosition, made, confirmed>>
  <2>1. r.pc = "hire" /\ r.op = "bootstrap" /\ Holders(Held, c, Lock("key", O(r.odoo))) = {}
    BY DEF BootstrapHire, At
  <2>2. TypeOK /\ RoomLeft /\ Shape(r) /\ OdooIdsConfirmed /\ AdminHasPassword
    BY DEF DirInv, CallOK
  <2>3. r \in Call /\ r.locks = {} /\ r.want = {} /\ r.odoo \in OdooIds /\ r.ids \subseteq PositionIds
    BY <2>1, <2>2 DEF TypeOK, Shape
  <2>4. n \in EmployeeIds /\ n \notin Employees /\ lastEmployee \in Nat
    <3>1. c \in ForEmployees
      BY <2>1 DEF ForEmployees, NeedsEmployee
    <3>2. IsFiniteSet(ForEmployees) /\ {} \in SUBSET ForEmployees
      BY <2>2, NeedsWithin
    <3>3. Cardinality({}) + 1 <= Cardinality(ForEmployees) /\ Cardinality({}) = 0
      BY <3>1, <3>2, FewerNeeds, FS_EmptySet
    <3>4. Cardinality(ForEmployees) >= 1
      BY <2>2, <3>3, NeedsWithin
    <3>5. QED
      BY <2>2, <3>4, RowFacts, NeedsWithin DEF RoomLeft, EmployeeIds, TypeOK
  <2>5. row \in EmployeeRow /\ row.odoo = r.odoo /\ row.origin = "command"
    BY <2>3 DEF EmployeeRow
  <2>6. row # NoRow
    BY <2>5, NoEmployeeAssumption
  <2>7. employee' = employees
    BY <1>2 DEF NewEmployee
  <2> HIDE DEF row
  <2>8. /\ employees \in [EmployeeIds -> EmployeeRow \cup {NoRow}]
        /\ employees[n] = row /\ \A f \in EmployeeIds \ {n} : employees[f] = employee[f]
    BY <2>2, <2>4, <2>5, RowFacts
  <2> HIDE DEF employees
  <2>9. /\ q \in Call /\ q.pc = "password" /\ q.op = "bootstrap" /\ q.id = n /\ q.ids = r.ids
        /\ q.odoo = r.odoo /\ q.locks = {} /\ q.want = {}
    BY <2>1, <2>3, <2>4 DEF Call
  <2>10. call' = [call EXCEPT ![c] = q]
    BY <1>2 DEF Becomes
  <2> HIDE DEF q
  <2>11. Waits(c, q)
    BY <2>2, <2>9, <2>10, CallsWait
  <2>12. Employees' = Employees \cup {n} /\ Positions' = Positions
    BY <1>2, <2>4, <2>6, <2>7, <2>8 DEF Employees, Positions
  <2>13. \A f \in Employees : f <= lastEmployee
    BY <2>2 DEF TypeOK
  <2>14. ASSUME NEW d \in Calls \ {c}
         PROVE  Spares(d) /\ Tells(d)
    <3>1. \A odoo \in OdooIds : OdooFree(odoo) /\ ~OdooFree(odoo)' => odoo = r.odoo
      BY <2>5, <2>7, <2>8, <2>12 DEF OdooFree, Employees
    <3>2. ~On(call[d].locks, O(r.odoo))
      <4> SUFFICES ASSUME NEW l \in call[d].locks, l.row = O(r.odoo)
                   PROVE  FALSE
        BY DEF On
      <4>1. Conflict(l.mode, Lock("key", O(r.odoo)).mode) /\ l.row = Lock("key", O(r.odoo)).row
        BY LockFields DEF Conflict
      <4>2. d \in Holders(Held, c, Lock("key", O(r.odoo)))
        BY <4>1 DEF Holders, Held
      <4>3. QED
        BY <2>1, <4>2
    <3>3. \A f \in Employees : employees[f] = employee[f]
      BY <2>4, <2>8 DEF Employees
    <3>4. QED
      BY <1>2, <2>4, <2>7, <2>12, <2>13, <3>1, <3>2, <3>3 DEF Spares, Tells
  <2>15. RowsOK'
    <3>1. \A f, g \in Employees' : employees[f].odoo = employees[g].odoo => f = g
      BY <1>2, <2>2, <2>4, <2>5, <2>8, <2>12 DEF OdooFree, TypeOK, Employees
    <3>2. assigned \subseteq Employees' \X Positions
      BY <2>2, <2>12 DEF TypeOK
    <3>3. n \in 0 .. MaxEmployees /\ \A f \in Employees' : f <= n
      BY <2>2, <2>4, <2>12, <2>13, RowFacts DEF EmployeeIds, Employees
    <3>4. QED
      BY <1>2, <2>2, <2>7, <2>8, <2>12, <3>1, <3>2, <3>3 DEF RowsOK, TypeOK
  <2>16. OdooIdsConfirmed' /\ AdminHasPassword'
    BY <1>2, <2>2, <2>4, <2>5, <2>7, <2>8, <2>12 DEF OdooIdsConfirmed, AdminHasPassword, Employees
  <2>17. CallOK(call[c])'
    <3>1. Shape(q)
      BY <2>3, <2>4, <2>9 DEF Shape
    <3>2. n <= n
      BY <2>4
    <3>3. QED
      BY <1>2, <2>9, <2>11, <3>1, <3>2 DEF Waits, CallOK, Covers, Knows, Diffs
  <2>18. QED
    BY <1>2, <2>1, <2>9, <2>11, <2>14, <2>15, <2>16, <2>17, WriteStep DEF NeedsEmployee, NeedsPosition
<1>3. QED
  BY <1>1, <1>2 DEF BootstrapHire


(* The command writes its Employee's password, or the mark that it has     *)
(* finished.                                                               *)
LEMMA FlagsWritten ==
  ASSUME DirInv, NEW c \in Calls, NEW e \in Employees,
         employee' \in [EmployeeIds -> EmployeeRow \cup {NoRow}],
         \A f \in EmployeeIds \ {e} : employee'[f] = employee[f],
         employee'[e] \in EmployeeRow, employee'[e].odoo = employee[e].odoo,
         employee'[e].origin \in {employee[e].origin, "admin"},
         employee[e].password => employee'[e].password,
         employee'[e].origin = "admin" => employee'[e].password,
         position' = position, lastEmployee' = lastEmployee, lastPosition' = lastPosition,
         confirmed' = confirmed, assigned' \subseteq Employees \X Positions
  PROVE  /\ RowsOK' /\ OdooIdsConfirmed' /\ AdminHasPassword'
         /\ Employees' = Employees /\ Positions' = Positions
         /\ \A d \in Calls \ {c} : Spares(d)
<1>1. TypeOK /\ OdooIdsConfirmed /\ AdminHasPassword /\ e \in EmployeeIds /\ lastEmployee \in Nat
  BY RowFacts DEF DirInv, Employees
<1>2. Employees' = Employees /\ Positions' = Positions
  BY <1>1, NoEmployeeAssumption DEF Employees, Positions
<1>3. \A f \in Employees : f \in EmployeeIds /\ employee'[f].odoo = employee[f].odoo
  BY DEF Employees
<1>4. \A odoo : OdooFree(odoo)' <=> OdooFree(odoo)
  BY <1>2, <1>3 DEF OdooFree
<1>5. RowsOK'
  BY <1>1, <1>2, <1>3 DEF RowsOK, TypeOK
<1>6. OdooIdsConfirmed'
  BY <1>1, <1>2, <1>3 DEF OdooIdsConfirmed
<1>7. AdminHasPassword'
  BY <1>1, <1>2, <1>3 DEF AdminHasPassword
<1>8. \A f \in Employees : /\ employee'[f].origin \in {employee[f].origin, "admin"}
                           /\ employee[f].password => employee'[f].password
  BY <1>3
<1>9. \A d \in Calls \ {c} : Spares(d)
  BY <1>1, <1>2, <1>3, <1>4, <1>8 DEF Spares
<1>10. QED
  BY <1>2, <1>5, <1>6, <1>7, <1>9

LEMMA BootstrapPasswordStep ==
  ASSUME DirInv, NEW c \in Calls, BootstrapPassword(c)
  PROVE  DirInv'
<1> DEFINE r == call[c]
           e == r.id
           q == [r EXCEPT !.pc = "assign"]
           employees == [employee EXCEPT ![e].password = TRUE]
<1>1. /\ r.pc = "password" /\ r.op = "bootstrap"
      /\ call' = [call EXCEPT ![c] = q]
      /\ UNCHANGED <<position, assigned, lastEmployee, lastPosition, made, confirmed>>
      /\ employee' = IF e \in Employees THEN employees ELSE employee
  BY DEF BootstrapPassword, At, Becomes
<1>2. TypeOK /\ Shape(r) /\ Covers(r) /\ Knows(r) /\ OdooIdsConfirmed /\ AdminHasPassword
  BY DEF DirInv, CallOK
<1>3. /\ r \in Call /\ r.locks = {} /\ r.want = {} /\ r.odoo \in OdooIds /\ r.ids \subseteq PositionIds
      /\ e \in EmployeeIds /\ e <= lastEmployee
  BY <1>1, <1>2 DEF TypeOK, Shape, Knows
<1>4. /\ q \in Call /\ q.pc = "assign" /\ q.op = "bootstrap" /\ q.id = e /\ q.ids = r.ids
      /\ q.odoo = r.odoo /\ q.locks = {} /\ q.want = {}
  BY <1>1, <1>3 DEF Call
<1> HIDE DEF q
<1>5. Shape(q)
  BY <1>3, <1>4 DEF Shape
<1>6. Waits(c, q) /\ call'[c] = q
  BY <1>1, <1>2, <1>4, CallsWait DEF Waits
<1>7. CASE e \notin Employees
  <2>1. UNCHANGED tables /\ made' = made /\ confirmed' = confirmed /\ employee' = employee
    BY <1>1, <1>7 DEF tables
  <2>2. CallOK(q)
    BY <1>3, <1>4, <1>5, <1>7 DEF CallOK, Covers, Knows, Diffs
  <2>3. CallOK(call[c])'
    BY <1>6, <2>1, <2>2, OKAsBefore
  <2>4. GoesWith(c, q)
    BY <1>1, <1>4 DEF GoesWith, NeedsEmployee, NeedsPosition
  <2>5. confirmed' \subseteq OdooIds /\ confirmed \subseteq confirmed' /\ q.locks \subseteq r.locks
    BY <1>2, <1>4, <2>1 DEF TypeOK
  <2>6. QED
    BY <1>4, <2>1, <2>3, <2>4, <2>5, QuietStep
<1>8. CASE e \in Employees
  <2>1. employee[e] \in EmployeeRow
    BY <1>2, <1>8, RowFacts
  <2>2. /\ employees \in [EmployeeIds -> EmployeeRow \cup {NoRow}]
        /\ \A f \in EmployeeIds \ {e} : employees[f] = employee[f]
        /\ employees[e] \in EmployeeRow /\ employees[e].odoo = employee[e].odoo
        /\ employees[e].origin = employee[e].origin /\ employees[e].password
    BY <1>2, <1>3, <2>1, RowFacts DEF EmployeeRow
  <2>3. employee' = employees
    BY <1>1, <1>8
  <2> HIDE DEF employees
  <2>4. assigned' \subseteq Employees \X Positions
    BY <1>1, <1>2 DEF TypeOK
  <2>5. /\ RowsOK' /\ OdooIdsConfirmed' /\ AdminHasPassword'
        /\ Employees' = Employees /\ Positions' = Positions
        /\ \A d \in Calls \ {c} : Spares(d)
    BY <1>1, <1>8, <2>2, <2>3, <2>4, FlagsWritten
  <2>6. \A d \in Calls \ {c} : Tells(d)
    BY <1>1 DEF Tells
  <2>7. CallOK(call[c])'
    BY <1>1, <1>3, <1>4, <1>5, <1>6, <2>2, <2>3 DEF CallOK, Covers, Knows, Diffs
  <2>8. QED
    BY <1>1, <1>4, <1>6, <2>5, <2>6, <2>7, WriteStep DEF NeedsEmployee, NeedsPosition
<1>9. QED
  BY <1>7, <1>8

LEMMA BootstrapAssignStep ==
  ASSUME DirInv, NEW c \in Calls, BootstrapAssign(c)
  PROVE  DirInv'
<1> DEFINE r == call[c]
           e == r.id
           employees == [employee EXCEPT ![e].origin = "admin"]
           pairs == assigned \cup ({e} \X r.ids)
<1>1. CASE Fail(c)
  BY <1>1, FailStep
<1>2. CASE /\ e \in Employees /\ r.ids \subseteq Positions
           /\ Commit(c, [employee EXCEPT ![e].origin = "admin"], position,
                     assigned \cup ({e} \X r.ids))
           /\ UNCHANGED <<lastEmployee, lastPosition>>
  <2>1. r.pc = "assign" /\ r.op = "bootstrap" /\ Elsewhere(c)
    BY DEF BootstrapAssign, At, Elsewhere
  <2>2. TypeOK /\ Shape(r) /\ Knows(r)
    BY DEF DirInv, CallOK
  <2>3. e \in EmployeeIds /\ employee[e] \in EmployeeRow /\ employee[e].password
    BY <1>2, <2>1, <2>2, RowFacts DEF Knows
  <2>4. /\ employees \in [EmployeeIds -> EmployeeRow \cup {NoRow}]
        /\ \A f \in EmployeeIds \ {e} : employees[f] = employee[f]
        /\ employees[e] \in EmployeeRow /\ employees[e].odoo = employee[e].odoo
        /\ employees[e].origin = "admin" /\ employees[e].password
    BY <2>2, <2>3, RowFacts DEF EmployeeRow
  <2>5. pairs \subseteq Employees \X Positions
    BY <1>2, <2>2 DEF TypeOK
  <2>6. pairs \subseteq Pairs
    BY <2>5 DEF Pairs, Employees, Positions
  <2>7. CommitThen(c, Idle, employees, position, pairs)
    BY <1>2 DEF Commit
  <2> HIDE DEF employees, pairs
  <2>8. /\ employee' = employees /\ position' = position /\ assigned' = pairs
        /\ made' = made /\ confirmed' = confirmed /\ Waits(c, Idle)
        /\ \A d \in Calls \ {c} : Tells(d)
    BY <2>1, <2>2, <2>6, <2>7, CommitWrites, IdleRecord
  <2>9. /\ RowsOK' /\ OdooIdsConfirmed' /\ AdminHasPassword'
        /\ \A d \in Calls \ {c} : Spares(d)
    BY <1>2, <2>4, <2>5, <2>8, FlagsWritten
  <2>10. CallOK(call[c])'
    BY <2>8, IdleRecord, IdleOK, LocklessNext DEF Waits, CallOK
  <2>11. QED
    BY <1>2, <2>8, <2>9, <2>10, IdleRecord, WriteStep DEF NeedsEmployee, NeedsPosition
<1>3. QED
  BY <1>1, <1>2 DEF BootstrapAssign

-----------------------------------------------------------------------------
(* The invariant *)

LEMMA DirInvInit == Init => DirInv
<1> SUFFICES ASSUME Init
             PROVE  DirInv
  OBVIOUS
<1>1. PICK odoo \in [1 .. Employed -> OdooIds] :
        /\ \A e, f \in 1 .. Employed : odoo[e] = odoo[f] => e = f
        /\ employee = [e \in EmployeeIds |->
             IF e \in 1 .. Employed
             THEN [odoo |-> odoo[e], password |-> TRUE, origin |-> "service"] ELSE NoRow]
        /\ confirmed = {odoo[e] : e \in 1 .. Employed}
  BY DEF Init
<1>2. PICK name \in [1 .. lastPosition -> PositionNames] :
        /\ \A p, q \in 1 .. lastPosition : name[p] = name[q] => p = q
        /\ position = [p \in PositionIds |-> IF p <= lastPosition THEN name[p] ELSE NoRow]
  BY DEF Init
<1>3. /\ lastEmployee = Employed /\ lastPosition \in {Staffed - 1, Staffed}
      /\ assigned \in {{}, Employees \X Positions}
      /\ call = [c \in Calls |-> Idle] /\ made = 0
  BY DEF Init
<1>4. /\ Employed \in Nat /\ Staffed \in Nat /\ MaxEmployees \in Nat /\ MaxPositions \in Nat
      /\ MaxCalls \in Nat /\ Employed <= MaxEmployees
      /\ 1 <= Staffed /\ Staffed <= MaxPositions
  BY DirectoryAssumption
<1>5. lastPosition = Staffed - 1 \/ lastPosition = Staffed
  BY <1>3
<1>6. /\ lastPosition \in 0 .. MaxPositions /\ lastEmployee \in 0 .. MaxEmployees
  BY <1>3, <1>4, <1>5
<1>7. \A e \in 1 .. Employed :
        /\ employee[e] \in EmployeeRow /\ employee[e].odoo = odoo[e]
        /\ employee[e].password /\ employee[e].origin = "service" /\ e \in EmployeeIds
  BY <1>1, <1>4 DEF EmployeeRow, EmployeeIds
<1>8. Employees = 1 .. Employed
  <2>1. \A e \in 1 .. Employed : e \in EmployeeIds /\ employee[e] # NoRow
    BY <1>7, NoEmployeeAssumption
  <2>2. \A e \in EmployeeIds : e \notin 1 .. Employed => employee[e] = NoRow
    BY <1>1
  <2>3. QED
    BY <2>1, <2>2 DEF Employees
<1>9. Positions = 1 .. lastPosition
  BY <1>2, <1>6, DirectoryAssumption DEF Positions, PositionIds
<1>10. employee \in [EmployeeIds -> EmployeeRow \cup {NoRow}]
  BY <1>1, <1>7
<1>11. position \in [PositionIds -> PositionNames \cup {NoRow}]
  BY <1>2, <1>6 DEF PositionIds
<1>12. RowsOK
  <2>1. assigned \subseteq Employees \X Positions
    BY <1>3
  <2>2. \A e \in Employees : e <= lastEmployee
    BY <1>3, <1>4, <1>8
  <2>3. \A p \in Positions : p <= lastPosition
    BY <1>6, <1>9
  <2>4. \A e, f \in Employees : employee[e].odoo = employee[f].odoo => e = f
    BY <1>1, <1>7, <1>8
  <2>5. ASSUME NEW p \in Positions
        PROVE  position[p] = name[p]
    <3>1. p \in PositionIds
      BY DEF Positions
    <3>2. p <= lastPosition
      BY <1>6, <1>9
    <3>3. position = [x \in PositionIds |-> IF x <= lastPosition THEN name[x] ELSE NoRow]
      BY <1>2
    <3>4. QED
      BY <3>1, <3>2, <3>3
  <2>6. \A p, q \in Positions : position[p] = position[q] => p = q
    BY <1>2, <1>9, <2>5
  <2>7. QED
    BY <1>6, <1>10, <1>11, <2>1, <2>2, <2>3, <2>4, <2>6 DEF RowsOK
<1>13. confirmed \subseteq OdooIds
  BY <1>1
<1>14. \A c \in Calls : call[c] = Idle
  BY <1>3
<1>15. Exclusive(Held)
  BY <1>14, IdleRecord, ExclusiveMeans
<1>16. TypeOK
  BY <1>3, <1>4, <1>12, <1>13, <1>14, <1>15, IdleRecord, TypeParts
<1>17. RoomLeft
  <2>1. Busy = {} /\ ForEmployees = {} /\ ForPositions = {}
    BY <1>14, IdleRecord DEF Busy, ForEmployees, ForPositions, NeedsEmployee, NeedsPosition
  <2>2. QED
    BY <1>4, <1>6, <2>1, FS_EmptySet DEF RoomLeft
<1>18. OdooIdsConfirmed /\ AdminHasPassword
  BY <1>1, <1>7, <1>8 DEF OdooIdsConfirmed, AdminHasPassword
<1>19. QED
  BY <1>14, <1>16, <1>17, <1>18, IdleOK DEF DirInv

LEMMA ProgressStep ==
  ASSUME DirInv, NEW c \in Calls, Progress(c)
  PROVE  DirInv'
<1>1. CASE \/ Take(c) \/ Confirm(c) \/ InsertSet(c) \/ CheckKeys(c)
           \/ CreateCount(c) \/ CreateInsert(c) \/ CreateCommit(c)
  BY <1>1, TakeStep, ConfirmStep, InsertSetStep, CheckKeysStep, CreateCountStep,
     CreateInsertStep, CreateCommitStep
<1>2. CASE UpdateRead(c) \/ UpdateCount(c) \/ UpdateRow(c) \/ UpdateIndex(c) \/ UpdateCommit(c)
  BY <1>2, UpdateReadStep, UpdateCountStep, UpdateRowStep, UpdateIndexStep, UpdateCommitStep
<1>3. CASE AppointCount(c) \/ AppointCommit(c)
  BY <1>3, AppointCountStep, AppointCommitStep
<1>4. CASE \/ DeleteEmployeesSkip(c) \/ DeleteEmployeesCascade(c) \/ DeleteEmployeesCommit(c)
           \/ DeletePositionsCount(c) \/ DeletePositionsCascade(c) \/ DeletePositionsCommit(c)
  BY <1>4, DeleteEmployeesSkipStep, DeleteEmployeesCascadeStep, DeleteEmployeesCommitStep,
     DeletePositionsCountStep, DeletePositionsCascadeStep, DeletePositionsCommitStep
<1>5. CASE \/ BootstrapFind(c) \/ BootstrapPosition(c) \/ BootstrapHire(c)
           \/ BootstrapPassword(c) \/ BootstrapAssign(c)
  BY <1>5, BootstrapFindStep, BootstrapPositionStep, BootstrapHireStep,
     BootstrapPasswordStep, BootstrapAssignStep
<1>6. QED
  BY <1>1, <1>2, <1>3, <1>4, <1>5 DEF Progress

LEMMA DirInvStep == DirInv /\ [Next]_vars => DirInv'
<1> SUFFICES ASSUME DirInv, [Next]_vars
             PROVE  DirInv'
  OBVIOUS
<1>1. CASE UNCHANGED vars
  <2>1. /\ UNCHANGED <<employee, assigned, lastEmployee, call, made, confirmed>>
        /\ position' = position /\ lastPosition' = lastPosition
    BY <1>1 DEF vars
  <2>2. Employees' = Employees /\ Positions' = Positions
    BY <2>1 DEF Employees, Positions
  <2>3. RowsOK'
    BY <2>1, <2>2, TypeParts DEF RowsOK, DirInv
  <2>4. Busy' = Busy /\ ForEmployees' = ForEmployees /\ ForPositions' = ForPositions
    BY <2>1 DEF Busy, ForEmployees, ForPositions, NeedsEmployee, NeedsPosition
  <2>5. RoomLeft'
    BY <2>1, <2>4 DEF RoomLeft, DirInv
  <2>6. QED
    BY <2>1, <2>2, <2>3, <2>5, PositionStep
<1>2. ASSUME NEW c \in Calls, Request(c) \/ Progress(c) \/ Abort(c) \/ DeadlockVictim(c)
      PROVE  DirInv'
  <2>1. CASE Abort(c) \/ DeadlockVictim(c)
    BY <2>1, FailStep DEF Abort, DeadlockVictim
  <2>2. QED
    BY <1>2, <2>1, RequestStep, ProgressStep
<1>3. ASSUME NEW name \in PositionNames,
             CreatePosition(name) \/ \E p \in PositionIds : UpdatePosition(p, name)
      PROVE  DirInv'
  BY <1>3, CreatePositionStep, UpdatePositionStep
<1>4. QED
  BY <1>1, <1>2, <1>3 DEF Next

LEMMA DirInvHolds == Spec => []DirInv
BY DirInvInit, DirInvStep, PTL DEF Spec

-----------------------------------------------------------------------------
(* What an update leaves behind *)

LEMMA UpdateReplaces ==
  ASSUME DirInv, NEW c \in Calls, UpdateCommit(c), KeysHold(c, Comers(c)),
         NEW p \in PositionIds, <<call[c].id, p>> \notin call[c].touched
  PROVE  <<call[c].id, p>> \in assigned' <=> p \in call[c].ids
<1> DEFINE pair == <<call[c].id, p>>
<1>1. /\ call[c].pc = "keys" /\ call[c].op = "update"
  BY DEF UpdateCommit, Ready, At
<1>2. assigned' = Replaced(c)
  BY DEF UpdateCommit, Commit, CommitThen, Fail
<1>3. Shape(call[c]) /\ Diffs(call[c])
  BY DEF DirInv, CallOK
<1>4. pair \in Pairs
  BY <1>1, <1>3 DEF Shape, Pairs
<1>5. On(call[c].locks, A(pair)) <=> (pair \in assigned <=> p \notin call[c].ids)
  BY <1>1, <1>3 DEF Diffs, Diffing, PairAt
<1>6. pair \in Goners(c) <=> pair \in assigned /\ On(call[c].locks, A(pair))
  BY DEF Goners, HasRow, On
<1>7. pair \in Comers(c) <=> pair \notin assigned /\ On(call[c].locks, A(pair))
  BY <1>4 DEF Comers, HasRow, On
<1>8. QED
  BY <1>2, <1>5, <1>6, <1>7 DEF Replaced

-----------------------------------------------------------------------------
(* The theorems *)

(* The tables keep their types, their foreign keys and their unique        *)
(* columns, and no two transactions have locks that exclude each other,    *)
(* whatever calls overlap.                                                 *)
THEOREM DirectoryTypeCorrect == Spec => []TypeOK
<1>1. DirInv => TypeOK
  BY DEF DirInv
<1>2. QED
  BY <1>1, DirInvHolds, PTL

(* Whoever was created through the service has an Odoo id that Odoo has    *)
(* confirmed, also where an update writes an id that it only compared.     *)
THEOREM IdsConfirmed == Spec => []OdooIdsConfirmed
<1>1. DirInv => OdooIdsConfirmed
  BY DEF DirInv
<1>2. QED
  BY <1>1, DirInvHolds, PTL

(* The Admin that bootstrapadmin leaves behind has a password, wherever it *)
(* is cut off and whatever the services write meanwhile.                   *)
THEOREM AdminsCanLogIn == Spec => []AdminHasPassword
<1>1. DirInv => AdminHasPassword
  BY DEF DirInv
<1>2. QED
  BY <1>1, DirInvHolds, PTL

(* An update that commits leaves the Employee with the Positions it        *)
(* submitted, but for those that a Position-first write or a deletion has  *)
(* changed meanwhile.                                                      *)
THEOREM SetReplaced == Spec => EmployeeSetReplaced
<1>1. DirInv =>
        \A c \in Calls : UpdateCommit(c) /\ KeysHold(c, Comers(c)) =>
          \A p \in PositionIds :
            LET a == <<call[c].id, p>> IN
            a \notin call[c].touched => (a \in assigned' <=> p \in call[c].ids)
  BY UpdateReplaces
<1>2. QED
  BY <1>1, DirInvHolds, PTL DEF EmployeeSetReplaced

=============================================================================
