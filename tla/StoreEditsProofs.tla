-------------------------- MODULE StoreEditsProofs --------------------------
(***************************************************************************)
(* The optimistic lock of the stores service for any number of Stores,     *)
(* requests and transactions: no edit that commits overwrites what its     *)
(* admin has not seen, and updated_at is a version of the Store.           *)
(***************************************************************************)
EXTENDS StoreEdits, FiniteSetTheorems, TLAPS

-----------------------------------------------------------------------------
(* The inductive invariant.  Its parts are about the record q of a request *)

(* The Stores of a view: Target. *)
Viewed(q) == {s \in Ids : q.view[s] # NoRow}

(* Which steps each kind of request goes through. *)
Path(kind) ==
  CASE kind = "none"   -> {"idle", "reading", "seen"}
    [] kind = "patch"  -> {"cas", "replace"}
    [] kind = "cut"    -> {"check", "cut", "bump"}
    [] kind = "toggle" -> {"cas"}
    [] kind = "bulk"   -> {"lock"}
    [] kind = "sync"   -> {"fetch", "upsert", "stale"}

OnPath(q) ==
  /\ q.pc \in Path(q.edit.kind)
  /\ q.edit.kind \in {"patch", "cut", "toggle"} => \E s \in Ids : Viewed(q) = {s}

(* A Store that has still the version of the view is still as in the view. *)
Sees(q) ==
  \A s \in Viewed(q) :
    /\ s <= lastId
    /\ q.view[s].version \in used
    /\ store[s] # NoRow /\ store[s].version = q.view[s].version => store[s] = q.view[s]

(* What a statement has locked, or is about to, before it is written to; a *)
(* patch has also compared the version of its Store.                       *)
Locks(q) ==
  /\ q.pc = "replace" =>
       \A s \in Viewed(q) : s \in q.holds /\ store[s].version = q.view[s].version
  /\ q.pc = "lock" => Viewed(q) \cap Rows \subseteq q.want \cup q.holds
  /\ q.pc = "upsert" => Rows \ Stale(q.report) \subseteq q.want \cup q.holds
  /\ q.pc = "stale" => Rows \subseteq q.want \cup q.holds

(* There are ids for the Stores that a sync is going to insert. *)
Room(q) ==
  q.pc \in {"upsert", "stale"} => lastId + Cardinality(New(q.report)) <= MaxId

RequestOK(q) == OnPath(q) /\ Sees(q) /\ Locks(q) /\ Room(q)

(* One sync at a time, and the guard is taken as long. *)
OneSync ==
  \A r, q \in Requests :
    req[r].edit.kind = "sync" => syncing /\ (req[q].edit.kind = "sync" => q = r)

(* Open transactions have numbers of their own, which no commit has used. *)
Numbered ==
  /\ \A r \in Requests : req[r].pc \in InTransaction =>
       req[r].began \in 1 .. started /\ req[r].began \notin used
  /\ \A r, q \in Requests :
       req[r].pc \in InTransaction /\ req[q].pc \in InTransaction
         /\ req[r].began = req[q].began => r = q
  /\ \A v \in used : v <= started

RowsVersioned == \A s \in Rows : store[s].version \in used

StoreInv ==
  /\ TypeOK
  /\ OneSync
  /\ Numbered
  /\ RowsVersioned
  /\ \A r \in Requests : RequestOK(req[r])

-----------------------------------------------------------------------------
(* Records *)

LEMMA ViewedIsTarget == \A r : Target(r) = Viewed(req[r])
BY DEF Target, Viewed

LEMMA Bounds ==
  /\ MaxId \in Nat /\ MaxTransactions \in Nat
  /\ IsFiniteSet(OdooStores) /\ Cardinality(OdooStores) <= MaxId
BY StoreBoundsAssumption

LEMMA RequestFields ==
  ASSUME NEW q \in Request
  PROVE  /\ q.pc \in InService \cup {"idle", "reading", "seen"}
         /\ q.view \in [Ids -> Row \cup {NoRow}]
         /\ q.edit \in Edits
         /\ q.report \in Reports
         /\ q.began \in 0 .. MaxTransactions
         /\ q.want \subseteq Ids /\ q.holds \subseteq Ids /\ q.cut \subseteq Entries
         /\ \A s \in Viewed(q) : q.view[s] \in Row
BY DEF Request, Viewed

LEMMA StoreRows ==
  ASSUME store \in [Ids -> Row \cup {NoRow}]
  PROVE  /\ \A s \in Rows : s \in Ids /\ store[s] \in Row
         /\ \A s \in Ids : s \in Rows <=> store[s] # NoRow
BY DEF Rows

LEMMA RowFields ==
  ASSUME NEW row \in Row
  PROVE  /\ row.odoo \in OdooStores /\ row.name \in Names
         /\ row.geo \in Geofences \cup {Unset} /\ row.enabled \in BOOLEAN
         /\ row.entries \subseteq Entries /\ row.version \in 0 .. MaxTransactions
         /\ row # NoRow
BY NoStoreAssumption DEF Row

LEMMA IdleRecord ==
  /\ Idle \in Request
  /\ Idle.pc = "idle" /\ Idle.edit.kind = "none" /\ Idle.view = NoView
  /\ Idle.edit = NoEdit /\ Idle.began = 0 /\ Idle.want = {} /\ Idle.holds = {} /\ Idle.cut = {}
  /\ Viewed(Idle) = {}
<1>1. NoView \in [Ids -> Row \cup {NoRow}]
  BY DEF NoView
<1>2. NoReport \in Reports
  <2>1. NoReport \in [{} -> Names]
    BY DEF NoReport
  <2>2. {} \in SUBSET OdooStores
    OBVIOUS
  <2>3. QED
    BY <2>1, <2>2 DEF Reports
<1>3. NoEdit \in Edits /\ NoEdit.kind = "none"
  BY DEF NoEdit, Edits
<1>4. Idle \in Request
  BY <1>1, <1>2, <1>3, Bounds DEF Idle, Request
<1>5. QED
  BY <1>3, <1>4 DEF Idle, NoView, Viewed

LEMMA IdleOK == RequestOK(Idle)
BY IdleRecord DEF RequestOK, OnPath, Path, Sees, Locks, Room

(* The steps at which a request of each kind may be. *)
LEMMA PathMeans ==
  ASSUME NEW q \in Request, OnPath(q)
  PROVE  /\ q.edit.kind = "none" <=> q.pc \in {"idle", "reading", "seen"}
         /\ q.pc = "replace" => q.edit.kind = "patch"
         /\ q.pc \in {"check", "cut", "bump"} <=> q.edit.kind = "cut"
         /\ q.pc = "lock" <=> q.edit.kind = "bulk"
         /\ q.pc = "cas" => q.edit.kind \in {"patch", "toggle"}
         /\ q.edit.kind = "toggle" => q.pc = "cas"
         /\ q.edit.kind = "patch" => q.pc \in {"cas", "replace"}
         /\ q.pc \in {"fetch", "upsert", "stale"} <=> q.edit.kind = "sync"
         /\ q.edit.kind \notin {"none", "sync"} => q.pc \in InTransaction
<1>1. q.edit.kind \in {"none", "patch", "cut", "toggle", "bulk", "sync"}
  BY RequestFields DEF Edits
<1>2. QED
  BY <1>1 DEF OnPath, Path, InTransaction

-----------------------------------------------------------------------------
(* Steps that write nothing *)

LEMMA ReqNext ==
  ASSUME TypeOK, NEW r \in Requests, NEW q \in Request, Becomes(r, q)
  PROVE  /\ req' \in [Requests -> Request]
         /\ req'[r] = q
         /\ \A d \in Requests \ {r} : req'[d] = req[d]
BY DEF TypeOK, Becomes

(* What a request relies on is about store, lastId and used alone. *)
LEMMA OKUnchanged ==
  ASSUME NEW d, NEW q, req'[d] = q, RequestOK(q), UNCHANGED <<store, lastId, used>>
  PROVE  RequestOK(req[d])'
<1>1. Viewed(req[d])' = Viewed(q)
  BY DEF Viewed
<1>2. Rows' = Rows /\ Stale(req[d].report)' = Stale(q.report) /\ New(req[d].report)' = New(q.report)
  BY DEF Rows, Stale, New, Known
<1>3. OnPath(req[d])'
  BY <1>1 DEF RequestOK, OnPath, Path
<1>4. Sees(req[d])'
  BY <1>1 DEF RequestOK, Sees
<1>5. Locks(req[d])'
  BY <1>1, <1>2 DEF RequestOK, Locks
<1>6. Room(req[d])'
  BY <1>2 DEF RequestOK, Room
<1>7. QED
  BY <1>3, <1>4, <1>5, <1>6 DEF RequestOK

LEMMA OneSyncNext ==
  ASSUME TypeOK, OneSync, NEW r \in Requests, NEW q \in Request, Becomes(r, q),
         q.edit.kind = "sync" => syncing' /\ (req[r].edit.kind = "sync" \/ ~syncing),
         syncing => syncing' \/ req[r].edit.kind = "sync"
  PROVE  OneSync'
<1>1. /\ req'[r] = q
      /\ \A d \in Requests \ {r} : req'[d] = req[d]
  BY ReqNext
<1>2. QED
  BY <1>1 DEF OneSync

LEMMA QuietStep ==
  ASSUME StoreInv, NEW r \in Requests, NEW q \in Request, Becomes(r, q),
         UNCHANGED <<store, lastId, used>>,
         started' \in started .. MaxTransactions,
         q.pc \in InTransaction =>
           \/ req[r].pc \in InTransaction /\ q.began = req[r].began
           \/ q.began = started' /\ started' = started + 1,
         syncing' \in BOOLEAN,
         q.edit.kind = "sync" => syncing' /\ (req[r].edit.kind = "sync" \/ ~syncing),
         syncing => syncing' \/ req[r].edit.kind = "sync",
         q.holds \subseteq Rows,
         \A d \in Requests \ {r} : q.holds \cap req[d].holds = {},
         RequestOK(q)
  PROVE  StoreInv'
<1>1. /\ req' \in [Requests -> Request]
      /\ req'[r] = q
      /\ \A d \in Requests \ {r} : req'[d] = req[d]
  BY ReqNext DEF StoreInv
<1>2. Rows' = Rows
  BY DEF Rows
<1>3. started \in 0 .. MaxTransactions /\ started' \in 0 .. MaxTransactions /\ started <= started'
  BY Bounds DEF StoreInv, TypeOK
<1>4. TypeOK'
  <2>1. \A d \in Requests : req'[d].holds \subseteq Rows'
    BY <1>1, <1>2 DEF StoreInv, TypeOK
  <2>2. \A d, e \in Requests : d # e => req'[d].holds \cap req'[e].holds = {}
    BY <1>1 DEF StoreInv, TypeOK
  <2>3. /\ store' \in [Ids -> Row \cup {NoRow}] /\ lastId' \in 0 .. MaxId
        /\ \A s \in Rows' : s <= lastId'
        /\ used' \subseteq 0 .. MaxTransactions
    BY <1>2 DEF StoreInv, TypeOK
  <2>4. QED
    BY <1>1, <1>3, <2>1, <2>2, <2>3 DEF TypeOK
<1>5. OneSync'
  BY OneSyncNext DEF StoreInv
<1>6. Numbered'
  <2>1. \A v \in used : v \in Nat /\ v <= started
    BY DEF StoreInv, TypeOK, Numbered
  <2>2. \A d \in Requests : req[d].pc \in InTransaction =>
          req[d].began \in 1 .. started /\ req[d].began \notin used
    BY DEF StoreInv, Numbered
  <2>3. q.pc \in InTransaction => q.began \in 1 .. started' /\ q.began \notin used
    BY <1>3, <2>1, <2>2
  <2>4. \A d \in Requests : req'[d].pc \in InTransaction =>
          req'[d].began \in 1 .. started' /\ req'[d].began \notin used'
    BY <1>1, <1>3, <2>2, <2>3
  <2>5. \A d \in Requests \ {r} :
          q.pc \in InTransaction /\ req[d].pc \in InTransaction => q.began # req[d].began
    <3>1. \A d \in Requests \ {r} :
            req[r].pc \in InTransaction /\ req[d].pc \in InTransaction =>
              req[r].began # req[d].began
      BY DEF StoreInv, Numbered
    <3>2. QED
      BY <1>3, <2>2, <3>1
  <2>6. \A d, e \in Requests :
          req'[d].pc \in InTransaction /\ req'[e].pc \in InTransaction
            /\ req'[d].began = req'[e].began => d = e
    BY <1>1, <2>5 DEF StoreInv, Numbered
  <2>7. \A v \in used' : v <= started'
    BY <1>3, <2>1
  <2>8. QED
    BY <2>4, <2>6, <2>7 DEF Numbered
<1>7. RowsVersioned'
  BY <1>2 DEF StoreInv, RowsVersioned
<1>8. \A d \in Requests : RequestOK(req[d])'
  BY <1>1, OKUnchanged DEF StoreInv
<1>9. QED
  BY <1>4, <1>5, <1>6, <1>7, <1>8 DEF StoreInv

LEMMA RollBackStep ==
  ASSUME StoreInv, NEW r \in Requests, RollBack(r)
  PROVE  StoreInv'
<1>1. /\ Becomes(r, Idle) /\ UNCHANGED <<store, lastId, used>> /\ started' = started
      /\ syncing' = (syncing /\ req[r].edit.kind # "sync")
  BY DEF RollBack, End
<1>2. started' \in started .. MaxTransactions
  BY <1>1, Bounds DEF StoreInv, TypeOK
<1>3. Idle.pc \notin InTransaction /\ Idle.edit.kind # "sync"
  BY IdleRecord DEF InTransaction
<1>4. syncing' \in BOOLEAN
  BY <1>1
<1>5. syncing => syncing' \/ req[r].edit.kind = "sync"
  BY <1>1
<1>6. QED
  BY <1>1, <1>2, <1>3, <1>4, <1>5, IdleRecord, IdleOK, QuietStep

(* A step within a transaction, or outside of any. *)
LEMMA StillStep ==
  ASSUME StoreInv, NEW r \in Requests, NEW q \in Request, Becomes(r, q),
         UNCHANGED <<store, lastId, started, syncing, used>>,
         q.edit.kind = req[r].edit.kind,
         q.pc \in InTransaction => req[r].pc \in InTransaction /\ q.began = req[r].began,
         q.holds \subseteq Rows,
         \A d \in Requests \ {r} : q.holds \cap req[d].holds = {},
         RequestOK(q)
  PROVE  StoreInv'
<1>1. started' \in started .. MaxTransactions
  BY Bounds DEF StoreInv, TypeOK
<1>2. syncing' \in BOOLEAN
  BY DEF StoreInv, TypeOK
<1>3. q.edit.kind = "sync" => syncing' /\ (req[r].edit.kind = "sync" \/ ~syncing)
  BY DEF StoreInv, OneSync
<1>4. QED
  BY <1>1, <1>2, <1>3, QuietStep

(* What is true of a request in a state that satisfies the invariant. *)
LEMMA RequestIs ==
  ASSUME StoreInv, NEW r \in Requests
  PROVE  /\ req[r] \in Request /\ RequestOK(req[r])
         /\ req[r].holds \subseteq Rows
         /\ \A d \in Requests \ {r} : req[r].holds \cap req[d].holds = {}
         /\ Target(r) = Viewed(req[r])
BY ViewedIsTarget DEF StoreInv, TypeOK

(* A view of rows as they are. *)
LEMMA FreshView ==
  ASSUME StoreInv, NEW q \in Request, q.edit.kind = "none", q.pc \in {"reading", "seen"},
         \A s \in Viewed(q) : s \in Rows /\ q.view[s] = store[s]
  PROVE  RequestOK(q)
<1>1. OnPath(q)
  BY DEF OnPath, Path
<1>2. Sees(q)
  <2>1. \A s \in Rows : s <= lastId /\ store[s].version \in used
    BY DEF StoreInv, TypeOK, RowsVersioned
  <2>2. QED
    BY <2>1 DEF Sees
<1>3. Locks(q) /\ Room(q)
  BY DEF Locks, Room
<1>4. QED
  BY <1>1, <1>2, <1>3 DEF RequestOK

LEMMA ReadListStep ==
  ASSUME StoreInv, NEW r \in Requests, NEW ss, ReadList(r, ss)
  PROVE  StoreInv'
<1> DEFINE view == [s \in Ids |-> IF s \in ss THEN store[s] ELSE NoRow]
           q == [Idle EXCEPT !.pc = "seen", !.view = view]
<1>1. /\ At(r, "idle") /\ ss \subseteq Rows /\ Becomes(r, q)
      /\ UNCHANGED <<store, lastId, started, syncing, used>>
  BY DEF ReadList
<1>2. view \in [Ids -> Row \cup {NoRow}]
  BY DEF StoreInv, TypeOK
<1>3. \A s \in Ids : view[s] # NoRow => s \in Rows /\ view[s] = store[s]
  BY <1>1
<1> HIDE DEF view
<1>4. q \in Request
  BY <1>2, IdleRecord DEF Request
<1>5. q.pc = "seen" /\ q.view = view /\ q.edit = NoEdit /\ q.holds = {} /\ q.edit.kind = "none"
  BY IdleRecord DEF Request
<1> HIDE DEF q
<1>6. RequestOK(q)
  BY <1>3, <1>4, <1>5, FreshView DEF Viewed
<1>7. req[r].edit.kind = "none"
  BY <1>1, RequestIs, PathMeans DEF At, RequestOK
<1>8. q.pc \notin InTransaction
  BY <1>5 DEF InTransaction
<1>9. QED
  BY <1>1, <1>4, <1>5, <1>6, <1>7, <1>8, StillStep

LEMMA ReadRowStep ==
  ASSUME StoreInv, NEW r \in Requests, NEW s \in Ids, ReadRow(r, s)
  PROVE  StoreInv'
<1> DEFINE view == [NoView EXCEPT ![s] = store[s]]
           q == [Idle EXCEPT !.pc = "reading", !.view = view]
<1>1. /\ At(r, "idle") /\ s \in Rows
      /\ UNCHANGED <<store, lastId, started, syncing, used>>
  BY DEF ReadRow
<1>2. Becomes(r, q)
  <2>1. q = [Idle EXCEPT !.pc = "reading", !.view[s] = store[s]]
    BY IdleRecord DEF Request
  <2>2. QED
    BY <2>1 DEF ReadRow
<1>3. view \in [Ids -> Row \cup {NoRow}]
  BY DEF NoView, StoreInv, TypeOK
<1>4. \A o \in Ids : view[o] # NoRow => o \in Rows /\ view[o] = store[o]
  BY <1>1 DEF NoView
<1> HIDE DEF view
<1>5. q \in Request
  BY <1>3, IdleRecord DEF Request
<1>6. q.pc = "reading" /\ q.view = view /\ q.edit = NoEdit /\ q.holds = {} /\ q.edit.kind = "none"
  BY IdleRecord DEF Request
<1> HIDE DEF q
<1>7. RequestOK(q)
  BY <1>4, <1>5, <1>6, FreshView DEF Viewed
<1>8. req[r].edit.kind = "none"
  BY <1>1, RequestIs, PathMeans DEF At, RequestOK
<1>9. q.pc \notin InTransaction
  BY <1>6 DEF InTransaction
<1>10. QED
  BY <1>1, <1>2, <1>5, <1>6, <1>7, <1>8, <1>9, StillStep

LEMMA ReadEntriesStep ==
  ASSUME StoreInv, NEW r \in Requests, ReadEntries(r)
  PROVE  StoreInv'
<1> DEFINE old == req[r].view
           es(s) == IF store[s] = NoRow THEN {} ELSE store[s].entries
           view == [s \in Ids |-> IF s \notin Target(r) THEN NoRow
                                  ELSE [old[s] EXCEPT !.entries = es(s)]]
           q == [req[r] EXCEPT !.pc = "seen", !.view = view]
<1>1. /\ At(r, "reading") /\ Becomes(r, q)
      /\ UNCHANGED <<store, lastId, started, syncing, used>>
  BY DEF ReadEntries
<1>2. /\ req[r] \in Request /\ RequestOK(req[r]) /\ Target(r) = Viewed(req[r])
      /\ req[r].holds \subseteq Rows
      /\ \A d \in Requests \ {r} : req[r].holds \cap req[d].holds = {}
  BY RequestIs
<1>3. \A s \in Target(r) : s \in Ids /\ old[s] \in Row
  BY <1>2, RequestFields DEF Viewed
<1>4. \A s \in Ids : es(s) \in SUBSET Entries
  BY RowFields DEF StoreInv, TypeOK
<1> HIDE DEF es
<1>5. \A s \in Target(r) : /\ [old[s] EXCEPT !.entries = es(s)] \in Row
                           /\ [old[s] EXCEPT !.entries = es(s)].version = old[s].version
  BY <1>3, <1>4 DEF Row
<1>6. \A s \in Target(r) :
        store[s] # NoRow /\ store[s].version = old[s].version =>
          [old[s] EXCEPT !.entries = es(s)] = store[s]
  <2>1. \A s \in Target(r) :
          store[s] # NoRow /\ store[s].version = old[s].version => store[s] = old[s]
    BY <1>2 DEF RequestOK, Sees
  <2>2. \A s \in Target(r) : store[s] # NoRow => es(s) = store[s].entries
    BY DEF es
  <2>3. QED
    BY <1>3, <2>1, <2>2 DEF Row
<1>7. view \in [Ids -> Row \cup {NoRow}]
  BY <1>5
<1>8. \A s \in Ids : /\ s \notin Target(r) => view[s] = NoRow
                     /\ s \in Target(r) => view[s] = [old[s] EXCEPT !.entries = es(s)]
  OBVIOUS
<1> HIDE DEF view
<1>9. q \in Request
  BY <1>2, <1>7 DEF Request
<1>10. /\ q.pc = "seen" /\ q.view = view /\ q.edit = req[r].edit /\ q.holds = req[r].holds
  BY <1>2 DEF Request
<1> HIDE DEF q
<1>11. req[r].edit.kind = "none"
  BY <1>1, <1>2, PathMeans DEF At, RequestOK
<1>12. RequestOK(q)
  <2>1. OnPath(q)
    BY <1>10, <1>11 DEF OnPath, Path
  <2>2. \A s \in Viewed(q) : s \in Target(r)
    BY <1>8, <1>10 DEF Viewed
  <2>3. \A s \in Target(r) : s <= lastId /\ old[s].version \in used
    BY <1>2 DEF RequestOK, Sees
  <2>4. Sees(q)
    <3>1. ASSUME NEW s \in Viewed(q)
          PROVE  /\ s <= lastId /\ q.view[s].version \in used
                 /\ store[s] # NoRow /\ store[s].version = q.view[s].version =>
                      store[s] = q.view[s]
      <4>1. s \in Target(r) /\ s \in Ids
        BY <1>3, <2>2
      <4>2. q.view[s] = [old[s] EXCEPT !.entries = es(s)]
        BY <1>8, <1>10, <4>1
      <4>3. q.view[s].version = old[s].version
        BY <1>5, <4>1, <4>2
      <4>4. QED
        BY <1>6, <2>3, <4>1, <4>2, <4>3
    <3>2. QED
      BY <3>1 DEF Sees
  <2>5. Locks(q) /\ Room(q)
    BY <1>10 DEF Locks, Room
  <2>6. QED
    BY <2>1, <2>4, <2>5 DEF RequestOK
<1>13. q.pc \notin InTransaction
  BY <1>10 DEF InTransaction
<1>14. QED
  BY <1>1, <1>2, <1>9, <1>10, <1>12, <1>13, StillStep

(* A view of the same Stores relies on the same. *)
LEMMA SameView ==
  ASSUME NEW p, NEW q, q.view = p.view, Sees(p)
  PROVE  Sees(q) /\ Viewed(q) = Viewed(p)
BY DEF Sees, Viewed

LEMMA BeginStep ==
  ASSUME StoreInv, NEW r \in Requests, NEW step, NEW edit \in Edits, NEW want \in SUBSET Ids,
         Begin(r, step, edit, want),
         step \in {"cas", "check", "lock"}, step \in Path(edit.kind),
         edit.kind # "sync",
         edit.kind \in {"patch", "cut", "toggle"} => \E s \in Ids : Target(r) = {s},
         step = "lock" => Target(r) \subseteq want
  PROVE  StoreInv'
<1> DEFINE q == [req[r] EXCEPT !.pc = step, !.edit = edit, !.began = started', !.want = want]
<1>1. /\ At(r, "seen") /\ started < MaxTransactions /\ started' = started + 1 /\ Becomes(r, q)
      /\ UNCHANGED <<store, lastId, syncing, used>>
  BY DEF Begin
<1>2. /\ req[r] \in Request /\ RequestOK(req[r]) /\ Target(r) = Viewed(req[r])
      /\ req[r].holds \subseteq Rows
      /\ \A d \in Requests \ {r} : req[r].holds \cap req[d].holds = {}
  BY RequestIs
<1>3. started' \in 0 .. MaxTransactions /\ started' \in started .. MaxTransactions
  BY <1>1, Bounds DEF StoreInv, TypeOK
<1>4. q \in Request
  BY <1>2, <1>3 DEF Request, InService, InTransaction
<1>5. /\ q.pc = step /\ q.edit = edit /\ q.began = started' /\ q.want = want
      /\ q.view = req[r].view /\ q.holds = req[r].holds
  BY <1>2 DEF Request
<1> HIDE DEF q
<1>6. Sees(q) /\ Viewed(q) = Target(r)
  BY <1>2, <1>5, SameView DEF RequestOK
<1>7. OnPath(q)
  BY <1>5, <1>6 DEF OnPath
<1>8. Locks(q) /\ Room(q)
  BY <1>5, <1>6 DEF Locks, Room
<1>9. RequestOK(q)
  BY <1>6, <1>7, <1>8 DEF RequestOK
<1>10. syncing' \in BOOLEAN
  BY <1>1 DEF StoreInv, TypeOK
<1>11. QED
  BY <1>1, <1>2, <1>3, <1>4, <1>5, <1>9, <1>10, QuietStep

LEMMA OneTargetMeans ==
  ASSUME NEW r, OneTarget(r)
  PROVE  \E s \in Ids : Target(r) = {s}
<1>1. IsFiniteSet(Ids)
  BY Bounds, FS_Interval DEF Ids
<1>2. Target(r) \in SUBSET Ids
  BY DEF Target
<1>3. IsFiniteSet(Target(r))
  BY <1>1, <1>2, FS_Subset
<1>4. \E s : Target(r) = {s}
  BY <1>3, FS_Singleton DEF OneTarget
<1>5. QED
  BY <1>2, <1>4

LEMMA EditsBegin ==
  ASSUME StoreInv, NEW r \in Requests,
         PatchBegin(r) \/ CutBegin(r) \/ ToggleBegin(r) \/ BulkBegin(r)
  PROVE  StoreInv'
<1>1. {} \in SUBSET Ids /\ Target(r) \in SUBSET Ids
  BY DEF Target
<1>2. CASE PatchBegin(r)
  <2>1. PICK g \in Geofences \cup {Unset}, es \in {Unset} \cup SUBSET Entries :
          Begin(r, "cas", [NoEdit EXCEPT !.kind = "patch", !.geo = g, !.entries = es], {})
    BY <1>2 DEF PatchBegin
  <2> DEFINE edit == [NoEdit EXCEPT !.kind = "patch", !.geo = g, !.entries = es]
  <2>2. edit \in Edits /\ edit.kind = "patch"
    BY DEF NoEdit, Edits
  <2>3. \E s \in Ids : Target(r) = {s}
    BY <1>2, OneTargetMeans DEF PatchBegin
  <2>4. "cas" \in Path(edit.kind)
    BY <2>2 DEF Path
  <2> HIDE DEF edit
  <2>5. Begin(r, "cas", edit, {})
    BY <2>1 DEF edit
  <2>6. QED
    BY <1>1, <2>2, <2>3, <2>4, <2>5, BeginStep
<1>3. CASE CutBegin(r)
  <2>1. PICK es \in SUBSET Entries \ {{}} :
          Begin(r, "check", [NoEdit EXCEPT !.kind = "cut", !.entries = es], {})
    BY <1>3 DEF CutBegin
  <2> DEFINE edit == [NoEdit EXCEPT !.kind = "cut", !.entries = es]
  <2>2. edit \in Edits /\ edit.kind = "cut"
    BY DEF NoEdit, Edits
  <2>3. \E s \in Ids : Target(r) = {s}
    BY <1>3, OneTargetMeans DEF CutBegin
  <2>4. "check" \in Path(edit.kind)
    BY <2>2 DEF Path
  <2> HIDE DEF edit
  <2>5. Begin(r, "check", edit, {})
    BY <2>1 DEF edit
  <2>6. QED
    BY <1>1, <2>2, <2>3, <2>4, <2>5, BeginStep
<1>4. CASE ToggleBegin(r)
  <2>1. PICK on \in BOOLEAN :
          Begin(r, "cas", [NoEdit EXCEPT !.kind = "toggle", !.enabled = on], {})
    BY <1>4 DEF ToggleBegin
  <2> DEFINE edit == [NoEdit EXCEPT !.kind = "toggle", !.enabled = on]
  <2>2. edit \in Edits /\ edit.kind = "toggle"
    BY DEF NoEdit, Edits
  <2>3. \E s \in Ids : Target(r) = {s}
    BY <1>4, OneTargetMeans DEF ToggleBegin
  <2>4. "cas" \in Path(edit.kind)
    BY <2>2 DEF Path
  <2> HIDE DEF edit
  <2>5. Begin(r, "cas", edit, {})
    BY <2>1 DEF edit
  <2>6. QED
    BY <1>1, <2>2, <2>3, <2>4, <2>5, BeginStep
<1>5. CASE BulkBegin(r)
  <2>1. PICK on \in BOOLEAN :
          Begin(r, "lock", [NoEdit EXCEPT !.kind = "bulk", !.enabled = on], Target(r))
    BY <1>5 DEF BulkBegin
  <2> DEFINE edit == [NoEdit EXCEPT !.kind = "bulk", !.enabled = on]
  <2>2. edit \in Edits /\ edit.kind = "bulk"
    BY DEF NoEdit, Edits
  <2>3. "lock" \in Path(edit.kind)
    BY <2>2 DEF Path
  <2> HIDE DEF edit
  <2>4. Begin(r, "lock", edit, Target(r))
    BY <2>1 DEF edit
  <2>5. QED
    BY <1>1, <2>2, <2>3, <2>4, BeginStep
<1>6. QED
  BY <1>2, <1>3, <1>4, <1>5

-----------------------------------------------------------------------------
(* Statements that lock, and what a sync finds out *)

LEMMA CasPatchStep ==
  ASSUME StoreInv, NEW r \in Requests, CasPatch(r)
  PROVE  StoreInv'
<1>1. /\ req[r].pc = "cas" /\ req[r].edit.kind = "patch"
      /\ RollBack(r) \/ \E s \in Target(r) :
           /\ ~RowLocked(r, s) /\ Current(r, s)
           /\ Becomes(r, [req[r] EXCEPT !.pc = "replace", !.holds = {s}])
           /\ UNCHANGED <<store, lastId, started, syncing, used>>
  BY DEF CasPatch, At
<1>2. CASE RollBack(r)
  BY <1>2, RollBackStep
<1>3. ASSUME NEW s \in Target(r), ~RowLocked(r, s), Current(r, s),
             Becomes(r, [req[r] EXCEPT !.pc = "replace", !.holds = {s}]),
             UNCHANGED <<store, lastId, started, syncing, used>>
      PROVE  StoreInv'
  <2> DEFINE q == [req[r] EXCEPT !.pc = "replace", !.holds = {s}]
  <2>1. req[r] \in Request /\ RequestOK(req[r]) /\ Target(r) = Viewed(req[r])
    BY RequestIs
  <2>2. s \in Rows
    BY <1>3 DEF Rows, Target, Current
  <2>3. \A d \in Requests \ {r} : {s} \cap req[d].holds = {}
    BY <1>3 DEF RowLocked
  <2>4. q \in Request
    BY <2>1, <2>2 DEF Request, InService, InTransaction, Rows
  <2>5. /\ q.pc = "replace" /\ q.edit = req[r].edit /\ q.view = req[r].view /\ q.holds = {s}
        /\ q.began = req[r].began
    BY <2>1 DEF Request
  <2>6. Becomes(r, q)
    BY <1>3
  <2> HIDE DEF q
  <2>7. Sees(q) /\ Viewed(q) = Target(r)
    BY <2>1, <2>5, SameView DEF RequestOK
  <2>8. OnPath(q)
    BY <1>1, <2>1, <2>5, <2>7 DEF RequestOK, OnPath, Path
  <2>9. Target(r) = {s}
    BY <1>1, <1>3, <2>1 DEF RequestOK, OnPath
  <2>10. Locks(q)
    BY <1>3, <2>5, <2>7, <2>9 DEF Locks, Current
  <2>11. Room(q)
    BY <2>5 DEF Room
  <2>12. RequestOK(q)
    BY <2>7, <2>8, <2>10, <2>11 DEF RequestOK
  <2>13. req[r].pc \in InTransaction
    BY <1>1 DEF InTransaction
  <2>14. q.holds \subseteq Rows
    BY <2>2, <2>5
  <2>15. \A d \in Requests \ {r} : q.holds \cap req[d].holds = {}
    BY <2>3, <2>5
  <2>16. QED
    BY <1>3, <2>4, <2>5, <2>6, <2>12, <2>13, <2>14, <2>15, StillStep
<1>4. QED
  BY <1>1, <1>2, <1>3

(* The steps of a deletion of whitelist entries: nothing is locked but     *)
(* entries.                                                                *)
LEMMA CutMoves ==
  ASSUME StoreInv, NEW r \in Requests, req[r].edit.kind = "cut", req[r].pc \in InTransaction,
         NEW step \in {"cut", "bump"}, NEW cut \in SUBSET Entries,
         Becomes(r, [req[r] EXCEPT !.pc = step, !.cut = cut]),
         UNCHANGED <<store, lastId, started, syncing, used>>
  PROVE  StoreInv'
<1> DEFINE q == [req[r] EXCEPT !.pc = step, !.cut = cut]
<1>1. /\ req[r] \in Request /\ RequestOK(req[r]) /\ Target(r) = Viewed(req[r])
      /\ req[r].holds \subseteq Rows
      /\ \A d \in Requests \ {r} : req[r].holds \cap req[d].holds = {}
  BY RequestIs
<1>2. q \in Request
  BY <1>1 DEF Request, InService, InTransaction
<1>3. /\ q.pc = step /\ q.edit = req[r].edit /\ q.view = req[r].view
      /\ q.holds = req[r].holds /\ q.began = req[r].began
  BY <1>1 DEF Request
<1> HIDE DEF q
<1>4. Sees(q) /\ Viewed(q) = Target(r)
  BY <1>1, <1>3, SameView DEF RequestOK
<1>5. OnPath(q)
  BY <1>1, <1>3, <1>4 DEF RequestOK, OnPath, Path
<1>6. Locks(q) /\ Room(q)
  BY <1>3 DEF Locks, Room
<1>7. RequestOK(q)
  BY <1>4, <1>5, <1>6 DEF RequestOK
<1>8. Becomes(r, q)
  BY DEF q
<1>9. QED
  BY <1>1, <1>2, <1>3, <1>7, <1>8, StillStep

LEMMA CheckStep ==
  ASSUME StoreInv, NEW r \in Requests, Check(r)
  PROVE  StoreInv'
<1>1. CASE RollBack(r)
  BY <1>1, RollBackStep
<1>2. CASE /\ Becomes(r, [req[r] EXCEPT !.pc = "cut"])
           /\ UNCHANGED <<store, lastId, started, syncing, used>>
  <2>1. req[r] \in Request /\ OnPath(req[r]) /\ req[r].pc = "check"
    BY RequestIs DEF RequestOK, Check, At
  <2>2. req[r].edit.kind = "cut" /\ req[r].pc \in InTransaction /\ req[r].cut \in SUBSET Entries
    BY <2>1, PathMeans, RequestFields DEF InTransaction
  <2>3. [req[r] EXCEPT !.pc = "cut", !.cut = req[r].cut] = [req[r] EXCEPT !.pc = "cut"]
    BY <2>1 DEF Request
  <2>4. QED
    BY <1>2, <2>2, <2>3, CutMoves
<1>3. QED
  BY <1>1, <1>2 DEF Check

LEMMA CutStep ==
  ASSUME StoreInv, NEW r \in Requests, Cut(r)
  PROVE  StoreInv'
<1>1. CASE RollBack(r)
  BY <1>1, RollBackStep
<1>2. ASSUME NEW s \in Target(r), NEW found,
             found = IF store[s] = NoRow THEN {} ELSE req[r].edit.entries \cap store[s].entries,
             Becomes(r, [req[r] EXCEPT !.pc = "bump", !.cut = found]),
             UNCHANGED <<store, lastId, started, syncing, used>>
      PROVE  StoreInv'
  <2>1. req[r] \in Request /\ OnPath(req[r]) /\ req[r].pc = "cut"
    BY RequestIs DEF RequestOK, Cut, At
  <2>2. req[r].edit.kind = "cut" /\ req[r].pc \in InTransaction
    BY <2>1, PathMeans DEF InTransaction
  <2>3. s \in Ids /\ store \in [Ids -> Row \cup {NoRow}]
    BY DEF Target, StoreInv, TypeOK
  <2>4. found \in SUBSET Entries
    BY <1>2, <2>3, RowFields
  <2>5. QED
    BY <1>2, <2>2, <2>4, CutMoves
<1>3. QED
  BY <1>1, <1>2 DEF Cut

LEMMA LockRowStep ==
  ASSUME StoreInv, NEW r \in Requests, LockRow(r)
  PROVE  StoreInv'
<1>1. PICK s \in req[r].want :
        /\ ~RowLocked(r, s)
        /\ Becomes(r, [req[r] EXCEPT
             !.want = req[r].want \ {s},
             !.holds = IF store[s] = NoRow THEN req[r].holds ELSE req[r].holds \cup {s}])
  BY DEF LockRow
<1> DEFINE want == req[r].want \ {s}
           holds == IF store[s] = NoRow THEN req[r].holds ELSE req[r].holds \cup {s}
           q == [req[r] EXCEPT !.want = want, !.holds = holds]
<1>2. /\ req[r].pc \in {"lock", "upsert", "stale"}
      /\ UNCHANGED <<store, lastId, started, syncing, used>>
  BY DEF LockRow
<1>3. /\ req[r] \in Request /\ RequestOK(req[r]) /\ Target(r) = Viewed(req[r])
      /\ req[r].holds \subseteq Rows
      /\ \A d \in Requests \ {r} : req[r].holds \cap req[d].holds = {}
  BY RequestIs
<1>4. req[r].want \subseteq Ids
  BY <1>3, RequestFields
<1>5. /\ holds \subseteq Rows /\ holds \subseteq Ids /\ want \subseteq Ids
      /\ \A d \in Requests \ {r} : holds \cap req[d].holds = {}
      /\ (req[r].want \cup req[r].holds) \cap Rows \subseteq want \cup holds
  BY <1>1, <1>3, <1>4 DEF Rows, RowLocked
<1> HIDE DEF want, holds
<1>6. q \in Request
  BY <1>3, <1>5 DEF Request
<1>7. /\ q.pc = req[r].pc /\ q.edit = req[r].edit /\ q.view = req[r].view
      /\ q.holds = holds /\ q.want = want /\ q.began = req[r].began /\ q.report = req[r].report
  BY <1>3 DEF Request
<1>8. Becomes(r, q)
  BY <1>1 DEF want, holds
<1> HIDE DEF q
<1>9. Sees(q) /\ Viewed(q) = Viewed(req[r])
  BY <1>3, <1>7, SameView DEF RequestOK
<1>10. OnPath(q)
  BY <1>3, <1>7, <1>9 DEF RequestOK, OnPath
<1>11. Locks(q)
  BY <1>2, <1>3, <1>5, <1>7, <1>9 DEF RequestOK, Locks
<1>12. Room(q)
  BY <1>3, <1>7 DEF RequestOK, Room
<1>13. RequestOK(q)
  BY <1>9, <1>10, <1>11, <1>12 DEF RequestOK
<1>14. q.holds \subseteq Rows /\ \A d \in Requests \ {r} : q.holds \cap req[d].holds = {}
  BY <1>5, <1>7
<1>15. req[r].pc \in InTransaction
  BY <1>2 DEF InTransaction
<1>16. QED
  BY <1>2, <1>6, <1>7, <1>8, <1>13, <1>14, <1>15, StillStep

LEMMA SyncStartStep ==
  ASSUME StoreInv, NEW r \in Requests, SyncStart(r)
  PROVE  StoreInv'
<1> DEFINE q == [Idle EXCEPT !.pc = "fetch", !.edit = [NoEdit EXCEPT !.kind = "sync"]]
<1>1. /\ ~syncing /\ syncing' = TRUE /\ Becomes(r, q)
      /\ UNCHANGED <<store, lastId, started, used>>
  BY DEF SyncStart
<1>2. [NoEdit EXCEPT !.kind = "sync"] \in Edits /\ [NoEdit EXCEPT !.kind = "sync"].kind = "sync"
  BY DEF NoEdit, Edits
<1>3. q \in Request
  BY <1>2, IdleRecord DEF Request, InService
<1>4. q.pc = "fetch" /\ q.edit.kind = "sync" /\ q.view = Idle.view /\ q.holds = {}
  BY <1>2, IdleRecord DEF Request
<1> HIDE DEF q
<1>5. Viewed(q) = {}
  BY <1>4, IdleRecord DEF Viewed
<1>6. RequestOK(q)
  BY <1>4, <1>5 DEF RequestOK, OnPath, Path, Sees, Locks, Room
<1>7. q.pc \notin InTransaction
  BY <1>4 DEF InTransaction
<1>8. started' \in started .. MaxTransactions
  BY <1>1, Bounds DEF StoreInv, TypeOK
<1>9. QED
  BY <1>1, <1>3, <1>4, <1>6, <1>7, <1>8, QuietStep

LEMMA FetchStep ==
  ASSUME StoreInv, NEW r \in Requests, Fetch(r)
  PROVE  StoreInv'
<1>1. PICK report \in Reports :
        /\ lastId + Cardinality(New(report)) <= MaxId
        /\ Becomes(r, [req[r] EXCEPT
             !.pc = "upsert", !.report = report, !.began = started',
             !.want = Rows \ Stale(report)])
  BY DEF Fetch
<1> DEFINE q == [req[r] EXCEPT !.pc = "upsert", !.report = report, !.began = started',
                               !.want = Rows \ Stale(report)]
<1>2. /\ req[r].pc = "fetch" /\ started < MaxTransactions /\ started' = started + 1
      /\ UNCHANGED <<store, lastId, syncing, used>>
  BY DEF Fetch, At
<1>3. /\ req[r] \in Request /\ RequestOK(req[r]) /\ req[r].holds \subseteq Rows
      /\ \A d \in Requests \ {r} : req[r].holds \cap req[d].holds = {}
  BY RequestIs
<1>4. started' \in 0 .. MaxTransactions /\ started' \in started .. MaxTransactions
  BY <1>2, Bounds DEF StoreInv, TypeOK
<1>5. q \in Request
  BY <1>3, <1>4 DEF Request, InService, InTransaction, Rows
<1>6. /\ q.pc = "upsert" /\ q.edit = req[r].edit /\ q.view = req[r].view
      /\ q.holds = req[r].holds /\ q.want = Rows \ Stale(report) /\ q.report = report
      /\ q.began = started'
  BY <1>3 DEF Request
<1>7. Becomes(r, q)
  BY <1>1
<1> HIDE DEF q
<1>8. req[r].edit.kind = "sync"
  BY <1>2, <1>3, PathMeans DEF RequestOK
<1>9. Sees(q)
  BY <1>3, <1>6, SameView DEF RequestOK
<1>10. OnPath(q)
  BY <1>6, <1>8 DEF OnPath, Path
<1>11. Locks(q) /\ Room(q)
  BY <1>1, <1>6 DEF Locks, Room
<1>12. RequestOK(q)
  BY <1>9, <1>10, <1>11 DEF RequestOK
<1>13. syncing /\ syncing' \in BOOLEAN
  BY <1>2, <1>8 DEF StoreInv, TypeOK, OneSync
<1>14. QED
  BY <1>2, <1>3, <1>4, <1>5, <1>6, <1>7, <1>8, <1>12, <1>13, QuietStep

LEMMA SyncStaleStep ==
  ASSUME StoreInv, NEW r \in Requests, SyncStale(r)
  PROVE  StoreInv'
<1> DEFINE q == [req[r] EXCEPT !.pc = "stale", !.want = Stale(req[r].report)]
<1>1. /\ req[r].pc = "upsert" /\ req[r].want = {} /\ Becomes(r, q)
      /\ UNCHANGED <<store, lastId, started, syncing, used>>
  BY DEF SyncStale, At
<1>2. /\ req[r] \in Request /\ RequestOK(req[r]) /\ req[r].holds \subseteq Rows
      /\ \A d \in Requests \ {r} : req[r].holds \cap req[d].holds = {}
  BY RequestIs
<1>3. q \in Request
  BY <1>2 DEF Request, InService, InTransaction, Stale, Rows
<1>4. /\ q.pc = "stale" /\ q.edit = req[r].edit /\ q.view = req[r].view
      /\ q.holds = req[r].holds /\ q.want = Stale(req[r].report) /\ q.report = req[r].report
      /\ q.began = req[r].began
  BY <1>2 DEF Request
<1> HIDE DEF q
<1>5. req[r].edit.kind = "sync"
  BY <1>1, <1>2, PathMeans DEF RequestOK
<1>6. Sees(q)
  BY <1>2, <1>4, SameView DEF RequestOK
<1>7. OnPath(q)
  BY <1>4, <1>5 DEF OnPath, Path
<1>8. Locks(q) /\ Room(q)
  BY <1>1, <1>2, <1>4 DEF RequestOK, Locks, Room
<1>9. RequestOK(q)
  BY <1>6, <1>7, <1>8 DEF RequestOK
<1>10. req[r].pc \in InTransaction
  BY <1>1 DEF InTransaction
<1>11. QED
  BY <1>1, <1>2, <1>3, <1>4, <1>9, <1>10, StillStep

-----------------------------------------------------------------------------
(* Commits *)

(* What r may write: rows that nobody else has locked, each of them with   *)
(* its own version; only a sync adds rows, deletes them, or would change   *)
(* an odoo_id.                                                             *)
Writes(r) ==
  /\ store' \in [Ids -> Row \cup {NoRow}]
  /\ lastId' \in lastId .. MaxId
  /\ \A s \in Ids :
       \/ store'[s] = store[s]
       \/ store'[s] = NoRow
       \/ store'[s].version = req[r].began /\ (store[s] # NoRow \/ s > lastId)
  /\ \A s \in Ids : store'[s] # NoRow => s <= lastId'
  /\ \A s \in lastId + 1 .. lastId' : s \in Ids /\ store'[s] # NoRow
  /\ \A d \in Requests \ {r} : \A s \in req[d].holds : store'[s] = store[s]
  /\ req[r].edit.kind # "sync" =>
       /\ lastId' = lastId
       /\ \A s \in Ids : store'[s] = NoRow <=> store[s] = NoRow
       /\ \A s \in Rows : store'[s].odoo = store[s].odoo

(* What the others rely on survives it. *)
LEMMA OthersOK ==
  ASSUME StoreInv, NEW r \in Requests, req[r].pc \in InTransaction, Writes(r),
         used' = used \cup {req[r].began},
         NEW d \in Requests \ {r}, req'[d] = req[d]
  PROVE  RequestOK(req[d])'
<1> DEFINE q == req[d]
<1>1. /\ q \in Request /\ RequestOK(q) /\ q.holds \subseteq Rows
      /\ Viewed(q) \subseteq Ids
  BY RequestIs DEF Viewed
<1>2. Viewed(req[d])' = Viewed(q)
  BY DEF Viewed
<1>3. OnPath(req[d])'
  BY <1>1, <1>2 DEF RequestOK, OnPath, Path
<1>4. req[r].began \notin used
  BY DEF StoreInv, Numbered
<1>5. lastId \in Nat /\ lastId' \in Nat /\ lastId <= lastId' /\ lastId' <= MaxId
  BY Bounds DEF StoreInv, TypeOK, Writes
<1>6. Sees(req[d])'
  <2>1. ASSUME NEW s \in Viewed(q)
        PROVE  /\ s <= lastId'
               /\ q.view[s].version \in used'
               /\ store'[s] # NoRow /\ store'[s].version = q.view[s].version =>
                    store'[s] = q.view[s]
    <3>1. /\ s \in Ids /\ s \in Nat /\ s <= lastId /\ q.view[s].version \in used
          /\ store[s] # NoRow /\ store[s].version = q.view[s].version => store[s] = q.view[s]
      BY <1>1 DEF RequestOK, Sees, Ids
    <3>2. s <= lastId'
      BY <1>5, <3>1
    <3>3. store'[s] = store[s] \/ store'[s] = NoRow \/ store'[s].version = req[r].began
      BY <3>1 DEF Writes
    <3>4. QED
      BY <1>4, <3>1, <3>2, <3>3
  <2>2. QED
    BY <1>2, <2>1 DEF Sees
<1>7. CASE q.edit.kind = "sync"
  <2>1. req[r].edit.kind # "sync"
    BY <1>7 DEF StoreInv, OneSync
  <2>2. Rows' = Rows /\ lastId' = lastId
    BY <2>1 DEF Writes, Rows
  <2>3. \A s \in Rows : store'[s].odoo = store[s].odoo
    BY <2>1 DEF Writes
  <2>4. Known' = Known
    BY <2>2, <2>3 DEF Known
  <2>5. Stale(req[d].report)' = Stale(q.report) /\ New(req[d].report)' = New(q.report)
    BY <2>2, <2>3, <2>4 DEF Stale, New
  <2>6. q.pc \in {"fetch", "upsert", "stale"}
    BY <1>1, <1>7, PathMeans DEF RequestOK
  <2>7. Locks(req[d])' /\ Room(req[d])'
    BY <1>1, <2>2, <2>5, <2>6 DEF RequestOK, Locks, Room
  <2>8. QED
    BY <1>3, <1>6, <2>7 DEF RequestOK
<1>8. CASE q.edit.kind # "sync"
  <2>1. q.pc \notin {"upsert", "stale"}
    BY <1>1, <1>8, PathMeans DEF RequestOK
  <2>2. Room(req[d])'
    BY <2>1 DEF Room
  <2>3. ASSUME q.pc = "replace"
        PROVE  \A s \in Viewed(q) : s \in q.holds /\ store'[s].version = q.view[s].version
    BY <1>1, <2>3 DEF RequestOK, Locks, Writes
  <2>4. ASSUME q.pc = "lock"
        PROVE  \A s \in Viewed(q) : store'[s] # NoRow => s \in q.want \cup q.holds
    <3>1. ASSUME NEW s \in Viewed(q), store'[s] # NoRow
          PROVE  s \in Rows
      <4>1. s \in Ids /\ s <= lastId /\ s \in Nat
        BY <1>1 DEF RequestOK, Sees, Ids
      <4>2. store[s] # NoRow
        BY <1>5, <3>1, <4>1 DEF Writes
      <4>3. QED
        BY <4>1, <4>2 DEF Rows
    <3>2. QED
      BY <1>1, <2>4, <3>1 DEF RequestOK, Locks
  <2>5. Locks(req[d])'
    BY <1>1, <1>2, <2>1, <2>3, <2>4 DEF Locks, Rows
  <2>6. QED
    BY <1>3, <1>6, <2>2, <2>5 DEF RequestOK
<1>9. QED
  BY <1>7, <1>8

LEMMA CommitStep ==
  ASSUME StoreInv, NEW r \in Requests, req[r].pc \in InTransaction, Writes(r), End(r),
         used' = used \cup {req[r].began}, started' = started
  PROVE  StoreInv'
<1>1. /\ Becomes(r, Idle) /\ syncing' = (syncing /\ req[r].edit.kind # "sync")
  BY DEF End
<1>2. /\ req' \in [Requests -> Request]
      /\ req'[r] = Idle
      /\ \A d \in Requests \ {r} : req'[d] = req[d]
  BY <1>1, IdleRecord, ReqNext DEF StoreInv
<1>3. /\ req[r].began \in 1 .. started /\ req[r].began \notin used
      /\ started \in 0 .. MaxTransactions
  BY DEF StoreInv, Numbered, TypeOK
<1>4. TypeOK'
  <2>1. \A d \in Requests : req'[d].holds \subseteq Rows'
    <3>1. \A d \in Requests \ {r} : \A s \in req[d].holds :
            s \in Ids /\ store[s] # NoRow /\ store'[s] = store[s]
      BY DEF StoreInv, TypeOK, Rows, Writes
    <3>2. QED
      BY <1>2, <3>1, IdleRecord DEF Rows
  <2>2. \A d, e \in Requests : d # e => req'[d].holds \cap req'[e].holds = {}
    BY <1>2, IdleRecord DEF StoreInv, TypeOK
  <2>3. store' \in [Ids -> Row \cup {NoRow}] /\ \A s \in Rows' : s <= lastId'
    BY DEF Writes, Rows
  <2>4. lastId' \in 0 .. MaxId
    BY Bounds DEF StoreInv, TypeOK, Writes
  <2>5. used' \subseteq 0 .. MaxTransactions
    BY <1>3, Bounds DEF StoreInv, TypeOK
  <2>6. syncing' \in BOOLEAN /\ started' \in 0 .. MaxTransactions
    BY <1>1, <1>3
  <2>7. QED
    BY <1>2, <2>1, <2>2, <2>3, <2>4, <2>5, <2>6 DEF TypeOK
<1>5. OneSync'
  <2>1. syncing => syncing' \/ req[r].edit.kind = "sync"
    BY <1>1
  <2>2. QED
    BY <1>1, <2>1, IdleRecord, OneSyncNext DEF StoreInv
<1>6. Numbered'
  <2>1. Idle.pc \notin InTransaction
    BY IdleRecord DEF InTransaction
  <2>2. \A d \in Requests \ {r} : req[d].pc \in InTransaction =>
          req[d].began \in 1 .. started /\ req[d].began \notin used /\ req[d].began # req[r].began
    BY DEF StoreInv, Numbered
  <2>3. \A d \in Requests : req'[d].pc \in InTransaction =>
          req'[d].began \in 1 .. started' /\ req'[d].began \notin used'
    BY <1>2, <2>1, <2>2
  <2>4. \A d, e \in Requests :
          req'[d].pc \in InTransaction /\ req'[e].pc \in InTransaction
            /\ req'[d].began = req'[e].began => d = e
    BY <1>2, <2>1 DEF StoreInv, Numbered
  <2>5. \A v \in used' : v <= started'
    BY <1>3 DEF StoreInv, Numbered
  <2>6. QED
    BY <2>3, <2>4, <2>5 DEF Numbered
<1>7. RowsVersioned'
  <2>1. ASSUME NEW s \in Ids, store'[s] # NoRow
        PROVE  store'[s].version \in used'
    <3>1. CASE store'[s] = store[s]
      BY <2>1, <3>1 DEF StoreInv, RowsVersioned, Rows
    <3>2. CASE store'[s].version = req[r].began
      BY <3>2
    <3>3. QED
      BY <2>1, <3>1, <3>2 DEF Writes
  <2>2. QED
    BY <2>1 DEF RowsVersioned, Rows
<1>8. \A d \in Requests : RequestOK(req[d])'
  <2>1. \A d \in Requests \ {r} : RequestOK(req[d])'
    BY <1>2, OthersOK
  <2>2. Viewed(req[r])' = {}
    BY <1>2, IdleRecord DEF Viewed
  <2>3. RequestOK(req[r])'
    BY <1>2, <2>2, IdleRecord DEF RequestOK, OnPath, Path, Sees, Locks, Room
  <2>4. QED
    BY <2>1, <2>3
<1>9. QED
  BY <1>4, <1>5, <1>6, <1>7, <1>8 DEF StoreInv

(* The Stores of an edit are as its admin's client has seen them. *)
AsSeen(r) == req[r].edit.kind # "sync" => \A s \in Target(r) : store[s] = req[r].view[s]

Commits(r) ==
  /\ req[r].pc \in InTransaction /\ Writes(r) /\ AsSeen(r) /\ End(r)
  /\ used' = used \cup {req[r].began} /\ started' = started

LEMMA CurrentSeen ==
  ASSUME StoreInv, NEW r \in Requests, NEW s \in Target(r), Current(r, s)
  PROVE  s \in Rows /\ store[s] = req[r].view[s]
BY RequestIs DEF RequestOK, Sees, Current, Rows, Target

LEMMA EditWrites ==
  ASSUME StoreInv, NEW r \in Requests, req[r].edit.kind # "sync",
         NEW ss \in SUBSET Rows, \A s \in ss : ~RowLocked(r, s),
         lastId' = lastId, DOMAIN store' = Ids,
         store' = [s \in Ids |-> store'[s]],
         \A s \in Ids \ ss : store'[s] = store[s],
         \A s \in ss : /\ store'[s] \in Row /\ store'[s].version = req[r].began
                       /\ store'[s].odoo = store[s].odoo
  PROVE  Writes(r)
<1>1. store \in [Ids -> Row \cup {NoRow}] /\ lastId \in 0 .. MaxId /\ \A s \in Rows : s <= lastId
  BY DEF StoreInv, TypeOK
<1>2. \A s \in ss : s \in Ids /\ store[s] # NoRow /\ store'[s] # NoRow
  BY RowFields DEF Rows
<1>3. store' \in [Ids -> Row \cup {NoRow}]
  BY <1>1
<1>4. lastId' \in lastId .. MaxId /\ lastId + 1 .. lastId' = {}
  BY <1>1, Bounds
<1>5. \A s \in Ids :
        \/ store'[s] = store[s]
        \/ store'[s].version = req[r].began /\ store[s] # NoRow
  BY <1>2
<1>6. \A s \in Ids : store'[s] = NoRow <=> store[s] = NoRow
  BY <1>2
<1>7. \A s \in Ids : store'[s] # NoRow => s <= lastId'
  BY <1>1, <1>6 DEF Rows
<1>8. \A s \in Rows : store'[s].odoo = store[s].odoo
  BY DEF Rows
<1>9. \A d \in Requests \ {r} : \A s \in req[d].holds : store'[s] = store[s]
  <2>1. \A d \in Requests \ {r} : \A s \in req[d].holds : s \in Ids /\ s \notin ss
    BY RequestIs DEF RowLocked, Rows
  <2>2. QED
    BY <2>1
<1>10. QED
  BY <1>3, <1>4, <1>5, <1>6, <1>7, <1>8, <1>9 DEF Writes

LEMMA OneWritten ==
  ASSUME StoreInv, NEW r \in Requests, req[r].edit.kind # "sync", lastId' = lastId,
         NEW s \in Rows, ~RowLocked(r, s),
         NEW row \in Row, row.version = req[r].began, row.odoo = store[s].odoo,
         store' = [store EXCEPT ![s] = row]
  PROVE  Writes(r)
<1> DEFINE ss == {s}
<1>1. store \in [Ids -> Row \cup {NoRow}] /\ s \in Ids
  BY DEF StoreInv, TypeOK, Rows
<1>2. ss \in SUBSET Rows /\ \A o \in ss : ~RowLocked(r, o)
  OBVIOUS
<1>3. DOMAIN store' = Ids /\ store' = [o \in Ids |-> store'[o]]
  BY <1>1
<1>4. \A o \in Ids \ ss : store'[o] = store[o]
  BY <1>1
<1>5. \A o \in ss : /\ store'[o] \in Row /\ store'[o].version = req[r].began
                    /\ store'[o].odoo = store[o].odoo
  BY <1>1
<1> HIDE DEF ss
<1>6. QED
  BY <1>2, <1>3, <1>4, <1>5, EditWrites

LEMMA PatchCommits ==
  ASSUME StoreInv, NEW r \in Requests, PatchCommit(r)
  PROVE  Commits(r)
<1>1. PICK s \in Target(r) : Commit(r, [store EXCEPT ![s] = Patched(r, s)])
  BY DEF PatchCommit
<1>2. req[r].pc = "replace" /\ lastId' = lastId /\ started' = started
  BY DEF PatchCommit, At
<1>3. /\ store' = [store EXCEPT ![s] = Patched(r, s)] /\ End(r)
      /\ used' = used \cup {req[r].began}
  BY <1>1 DEF Commit
<1>4. /\ req[r] \in Request /\ RequestOK(req[r]) /\ Target(r) = Viewed(req[r])
      /\ req[r].holds \subseteq Rows
      /\ \A d \in Requests \ {r} : req[r].holds \cap req[d].holds = {}
  BY RequestIs
<1>5. req[r].edit.kind = "patch"
  BY <1>2, <1>4, PathMeans DEF RequestOK
<1>6. Target(r) = {s} /\ s \in Ids
  BY <1>4, <1>5 DEF RequestOK, OnPath, Target
<1>7. s \in req[r].holds /\ store[s].version = req[r].view[s].version
  BY <1>2, <1>4 DEF RequestOK, Locks
<1>8. s \in Rows /\ store[s] = req[r].view[s]
  BY <1>4, <1>7, CurrentSeen DEF Current, Rows
<1>9. store[s] \in Row /\ store \in [Ids -> Row \cup {NoRow}]
  BY <1>8, StoreRows DEF StoreInv, TypeOK
<1>10. /\ Patched(r, s) \in Row
       /\ Patched(r, s).version = req[r].began /\ Patched(r, s).odoo = store[s].odoo
  <2>1. req[r].edit \in Edits /\ req[r].began \in 0 .. MaxTransactions
    BY <1>4, RequestFields
  <2>2. /\ req[r].edit.geo \in Geofences \cup {Unset}
        /\ req[r].edit.entries # Unset => req[r].edit.entries \in SUBSET Entries
    BY <2>1 DEF Edits
  <2>3. QED
    BY <1>9, <2>1, <2>2 DEF Patched, Row
<1>11. ~RowLocked(r, s)
  BY <1>4, <1>7 DEF RowLocked
<1>12. Writes(r)
  <2> DEFINE row == Patched(r, s)
  <2>1. /\ row \in Row /\ row.version = req[r].began /\ row.odoo = store[s].odoo
        /\ store' = [store EXCEPT ![s] = row]
    BY <1>3, <1>10
  <2>2. req[r].edit.kind # "sync"
    BY <1>5
  <2> HIDE DEF row
  <2>3. QED
    BY <1>2, <1>8, <1>11, <2>1, <2>2, OneWritten
<1>13. AsSeen(r)
  BY <1>6, <1>8 DEF AsSeen
<1>14. QED
  BY <1>2, <1>3, <1>12, <1>13 DEF Commits, InTransaction

LEMMA BumpCommits ==
  ASSUME StoreInv, NEW r \in Requests, Bump(r), ~RollBack(r)
  PROVE  Commits(r)
<1>1. PICK s \in Target(r) : ~RowLocked(r, s) /\ Current(r, s) /\ CutCommit(r, s)
  BY DEF Bump
<1>2. req[r].pc = "bump" /\ lastId' = lastId /\ started' = started
  BY <1>1 DEF Bump, At, CutCommit
<1> DEFINE row == [store[s] EXCEPT !.entries = store[s].entries \ req[r].cut,
                                   !.version = req[r].began]
<1>3. /\ End(r) /\ used' = used \cup {req[r].began}
      /\ store' = [store EXCEPT ![s].entries = @ \ req[r].cut, ![s].version = req[r].began]
  BY <1>1 DEF CutCommit, Commit
<1>4. /\ req[r] \in Request /\ RequestOK(req[r]) /\ Target(r) = Viewed(req[r])
  BY RequestIs
<1>5. req[r].edit.kind = "cut"
  BY <1>2, <1>4, PathMeans DEF RequestOK
<1>6. Target(r) = {s} /\ s \in Ids
  BY <1>4, <1>5 DEF RequestOK, OnPath, Target
<1>7. s \in Rows /\ store[s] = req[r].view[s]
  BY <1>1, CurrentSeen
<1>8. store[s] \in Row /\ store \in [Ids -> Row \cup {NoRow}]
  BY <1>7, StoreRows DEF StoreInv, TypeOK
<1>9. row \in Row /\ row.version = req[r].began /\ row.odoo = store[s].odoo
  <2>1. req[r].began \in 0 .. MaxTransactions
    BY <1>4, RequestFields
  <2>2. QED
    BY <1>8, <2>1 DEF Row
<1>10. store' = [store EXCEPT ![s] = row]
  BY <1>3, <1>6, <1>8 DEF Row
<1> HIDE DEF row
<1>11. Writes(r)
  <2>1. req[r].edit.kind # "sync"
    BY <1>5
  <2>2. QED
    BY <1>1, <1>2, <1>7, <1>9, <1>10, <2>1, OneWritten
<1>12. AsSeen(r)
  BY <1>6, <1>7 DEF AsSeen
<1>13. QED
  BY <1>2, <1>3, <1>11, <1>12 DEF Commits, InTransaction

LEMMA ToggledWrites ==
  ASSUME StoreInv, NEW r \in Requests, req[r].edit.kind \in {"toggle", "bulk"},
         \A s \in Target(r) : Current(r, s) /\ ~RowLocked(r, s),
         lastId' = lastId, store' = Toggled(r)
  PROVE  Writes(r) /\ AsSeen(r)
<1> DEFINE ss == Target(r)
           new(s) == [store[s] EXCEPT !.enabled = req[r].edit.enabled, !.version = req[r].began]
<1>1. \A s \in ss : s \in Rows /\ store[s] = req[r].view[s]
  BY CurrentSeen
<1>2. store \in [Ids -> Row \cup {NoRow}] /\ req[r] \in Request
  BY DEF StoreInv, TypeOK
<1>3. req[r].edit.enabled \in BOOLEAN /\ req[r].began \in 0 .. MaxTransactions
  BY <1>2, RequestFields DEF Edits
<1>4. \A s \in ss : store[s] \in Row
  BY <1>1, <1>2, StoreRows
<1>5. \A s \in ss : new(s) \in Row /\ new(s).version = req[r].began /\ new(s).odoo = store[s].odoo
  <2> SUFFICES ASSUME NEW s \in ss
               PROVE  /\ new(s) \in Row /\ new(s).version = req[r].began
                      /\ new(s).odoo = store[s].odoo
    OBVIOUS
  <2> DEFINE row == store[s]
             on == req[r].edit.enabled
             v == req[r].began
  <2>1. row \in Row /\ on \in BOOLEAN /\ v \in 0 .. MaxTransactions
    BY <1>3, <1>4
  <2> HIDE DEF row, on, v
  <2>2. /\ [row EXCEPT !.enabled = on, !.version = v] \in Row
        /\ [row EXCEPT !.enabled = on, !.version = v].version = v
        /\ [row EXCEPT !.enabled = on, !.version = v].odoo = row.odoo
    BY <2>1 DEF Row
  <2>3. QED
    BY <2>2 DEF row, on, v
<1>6. store' = [s \in Ids |-> IF s \in ss THEN new(s) ELSE store[s]]
  BY DEF Toggled
<1> HIDE DEF new
<1>7. DOMAIN store' = Ids /\ store' = [s \in Ids |-> store'[s]]
  BY <1>6
<1>8. \A s \in Ids \ ss : store'[s] = store[s]
  BY <1>6
<1>9. \A s \in ss : s \in Ids /\ store'[s] = new(s)
  BY <1>1, <1>6 DEF Rows
<1>10. \A s \in ss : /\ store'[s] \in Row /\ store'[s].version = req[r].began
                     /\ store'[s].odoo = store[s].odoo
  BY <1>5, <1>9
<1>11. ss \in SUBSET Rows /\ \A s \in ss : ~RowLocked(r, s)
  BY <1>1
<1>12. AsSeen(r)
  BY <1>1 DEF AsSeen
<1> HIDE DEF ss
<1>13. req[r].edit.kind # "sync"
  OBVIOUS
<1>14. Writes(r)
  BY <1>7, <1>8, <1>10, <1>11, <1>13, EditWrites
<1>15. QED
  BY <1>12, <1>14

LEMMA ToggleCommits ==
  ASSUME StoreInv, NEW r \in Requests, ToggleCommit(r), ~RollBack(r)
  PROVE  Commits(r)
<1>1. /\ req[r].pc = "cas" /\ req[r].edit.kind = "toggle"
      /\ \A s \in Target(r) : ~RowLocked(r, s) /\ Current(r, s)
      /\ Commit(r, Toggled(r)) /\ UNCHANGED <<lastId, started>>
  BY DEF ToggleCommit, At
<1>2. store' = Toggled(r) /\ End(r) /\ used' = used \cup {req[r].began}
  BY <1>1 DEF Commit
<1>3. QED
  BY <1>1, <1>2, ToggledWrites DEF Commits, InTransaction

LEMMA BulkCommits ==
  ASSUME StoreInv, NEW r \in Requests, BulkCommit(r), ~RollBack(r)
  PROVE  Commits(r)
<1>1. /\ req[r].pc = "lock" /\ req[r].want = {}
      /\ \A s \in Target(r) : Current(r, s)
      /\ Commit(r, Toggled(r)) /\ UNCHANGED <<lastId, started>>
  BY DEF BulkCommit, At
<1>2. store' = Toggled(r) /\ End(r) /\ used' = used \cup {req[r].began}
  BY <1>1 DEF Commit
<1>3. /\ req[r] \in Request /\ RequestOK(req[r]) /\ Target(r) = Viewed(req[r])
      /\ \A d \in Requests \ {r} : req[r].holds \cap req[d].holds = {}
  BY RequestIs
<1>4. req[r].edit.kind = "bulk"
  BY <1>1, <1>3, PathMeans DEF RequestOK
<1>5. \A s \in Target(r) : s \in Rows
  BY <1>1, CurrentSeen
<1>6. \A s \in Target(r) : s \in req[r].holds
  BY <1>1, <1>3, <1>5 DEF RequestOK, Locks
<1>7. \A s \in Target(r) : ~RowLocked(r, s)
  BY <1>3, <1>6 DEF RowLocked
<1>8. QED
  BY <1>1, <1>2, <1>4, <1>7, ToggledWrites DEF Commits, InTransaction

LEMMA SyncCommits ==
  ASSUME StoreInv, NEW r \in Requests, SyncCommit(r)
  PROVE  Commits(r)
<1> DEFINE report == req[r].report
           stale == Stale(report)
           v == req[r].began
<1>1. PICK odoo \in [Inserted(report) -> New(report)] :
        Commit(r, [s \in Ids |->
          IF s \in DOMAIN odoo THEN Created(odoo[s], report[odoo[s]], v)
          ELSE IF s \in Rows \ stale THEN Renamed(r, s)
          ELSE NoRow])
  BY DEF SyncCommit
<1>2. /\ req[r].pc = "stale" /\ req[r].want = {}
      /\ lastId' = lastId + Cardinality(New(report)) /\ started' = started
  BY DEF SyncCommit, At
<1> DEFINE ins == Inserted(report)
           row(s) == Created(odoo[s], report[odoo[s]], v)
<1>3. /\ store' = [s \in Ids |-> IF s \in ins THEN row(s)
                                 ELSE IF s \in Rows \ stale THEN Renamed(r, s) ELSE NoRow]
      /\ End(r) /\ used' = used \cup {v}
  BY <1>1 DEF Commit
<1>4. /\ req[r] \in Request /\ RequestOK(req[r]) /\ req[r].holds \subseteq Rows
      /\ \A d \in Requests \ {r} : /\ req[r].holds \cap req[d].holds = {}
                                   /\ req[d].holds \subseteq Rows
  BY RequestIs
<1>5. req[r].edit.kind = "sync"
  BY <1>2, <1>4, PathMeans DEF RequestOK
<1>6. Rows \subseteq req[r].holds /\ lastId + Cardinality(New(report)) <= MaxId
  BY <1>2, <1>4 DEF RequestOK, Locks, Room
<1>7. \A d \in Requests \ {r} : req[d].holds = {}
  BY <1>4, <1>6
<1>8. /\ store \in [Ids -> Row \cup {NoRow}] /\ lastId \in 0 .. MaxId
      /\ \A s \in Rows : s <= lastId
  BY DEF StoreInv, TypeOK
<1>9. report \in Reports /\ v \in 0 .. MaxTransactions
  BY <1>4, RequestFields
<1>10. DOMAIN report \subseteq OdooStores /\ \A os \in DOMAIN report : report[os] \in Names
  BY <1>9 DEF Reports
<1>11. Cardinality(New(report)) \in Nat
  <2>1. New(report) \in SUBSET OdooStores
    BY <1>10 DEF New
  <2>2. QED
    BY <2>1, Bounds, FS_Subset, FS_CardinalityType
<1>12. ins = lastId + 1 .. lastId'
  BY <1>2 DEF Inserted
<1>13. /\ lastId' \in lastId .. MaxId /\ lastId' \in Nat /\ lastId \in Nat
       /\ \A s \in ins : s \in Ids /\ s > lastId /\ s <= lastId'
  BY <1>2, <1>6, <1>8, <1>11, <1>12, Bounds DEF Ids
<1>14. \A s \in ins : row(s) \in Row /\ row(s).version = v
  <2>1. ASSUME NEW s \in ins
        PROVE  odoo[s] \in OdooStores /\ report[odoo[s]] \in Names
    <3>1. odoo[s] \in New(report)
      OBVIOUS
    <3>2. QED
      BY <1>10, <3>1 DEF New
  <2>2. ASSUME NEW os \in OdooStores, NEW name \in Names
        PROVE  Created(os, name, v) \in Row /\ Created(os, name, v).version = v
    BY <1>9 DEF Created, Row
  <2>3. QED
    BY <2>1, <2>2
<1>15. \A s \in Rows \ stale :
         /\ Renamed(r, s) \in Row
         /\ Renamed(r, s) = store[s] \/ Renamed(r, s).version = v
  <2>1. ASSUME NEW s \in Rows \ stale
        PROVE  store[s] \in Row /\ report[store[s].odoo] \in Names
    BY <1>8, <1>10, StoreRows DEF Stale
  <2>2. ASSUME NEW old \in Row, NEW name \in Names
        PROVE  /\ [old EXCEPT !.name = name, !.version = v] \in Row
               /\ [old EXCEPT !.name = name, !.version = v].version = v
    BY <1>9 DEF Row
  <2>3. QED
    BY <2>1, <2>2 DEF Renamed
<1> HIDE DEF ins, row, stale, v
<1>16. /\ \A s \in ins : store'[s] = row(s) /\ store'[s] \in Row /\ store'[s] # NoRow
       /\ \A s \in Ids : s \notin ins /\ s \in Rows \ stale => store'[s] = Renamed(r, s)
       /\ \A s \in Ids : s \notin ins /\ s \notin Rows \ stale => store'[s] = NoRow
  BY <1>3, <1>13, <1>14, RowFields
<1>17. store' \in [Ids -> Row \cup {NoRow}]
  BY <1>3, <1>14, <1>15
<1>18. \A s \in Ids :
         \/ store'[s] = store[s]
         \/ store'[s] = NoRow
         \/ store'[s].version = v /\ (store[s] # NoRow \/ s > lastId)
  BY <1>13, <1>14, <1>15, <1>16 DEF Rows
<1>19. \A s \in Ids : store'[s] # NoRow => s <= lastId'
  <2>1. \A s \in Rows : s \in Nat /\ s <= lastId
    BY <1>8 DEF Rows, Ids
  <2>2. QED
    BY <1>13, <1>16, <2>1
<1>20. \A s \in lastId + 1 .. lastId' : s \in Ids /\ store'[s] # NoRow
  BY <1>12, <1>13, <1>16
<1>21. Writes(r)
  BY <1>5, <1>7, <1>13, <1>17, <1>18, <1>19, <1>20 DEF Writes, v
<1>22. QED
  BY <1>2, <1>3, <1>5, <1>21 DEF Commits, InTransaction, AsSeen, v

-----------------------------------------------------------------------------
(* The invariant *)

LEMMA InitRows ==
  ASSUME Init
  PROVE  /\ lastId \in 0 .. MaxId
         /\ store \in [Ids -> Row \cup {NoRow}]
         /\ Rows = 1 .. lastId
         /\ \A s \in Rows : store[s].version = 0
<1>1. PICK odoo \in [1 .. lastId -> OdooStores], name \in Names :
        store = [s \in Ids |->
          IF s <= lastId THEN [Created(odoo[s], name, 0) EXCEPT !.entries = Entries] ELSE NoRow]
  BY DEF Init
<1> DEFINE row(s) == [Created(odoo[s], name, 0) EXCEPT !.entries = Entries]
<1>2. lastId \in 0 .. MaxId
  BY Bounds, FS_CardinalityType DEF Init
<1>3. \A s \in 1 .. lastId : row(s) \in Row /\ row(s).version = 0
  <2>1. ASSUME NEW os \in OdooStores
        PROVE  /\ [Created(os, name, 0) EXCEPT !.entries = Entries] \in Row
               /\ [Created(os, name, 0) EXCEPT !.entries = Entries].version = 0
    <3>1. 0 \in 0 .. MaxTransactions
      BY Bounds
    <3>2. Created(os, name, 0) \in Row /\ Created(os, name, 0).version = 0
      BY <3>1 DEF Created, Row
    <3>3. ASSUME NEW new \in Row
          PROVE  /\ [new EXCEPT !.entries = Entries] \in Row
                 /\ [new EXCEPT !.entries = Entries].version = new.version
      BY DEF Row
    <3>4. QED
      BY <3>2, <3>3
  <2>2. QED
    BY <2>1
<1>4. store = [s \in Ids |-> IF s <= lastId THEN row(s) ELSE NoRow]
  BY <1>1
<1> HIDE DEF row
<1>5. \A s \in Ids : s <= lastId => s \in 1 .. lastId
  BY DEF Ids
<1>6. \A s \in 1 .. lastId : s \in Ids /\ store[s] = row(s) /\ row(s) # NoRow
  BY <1>2, <1>3, <1>4, Bounds, RowFields DEF Ids
<1>7. \A s \in Ids : s \notin 1 .. lastId => store[s] = NoRow
  BY <1>4, <1>5
<1>8. Rows = 1 .. lastId
  BY <1>6, <1>7 DEF Rows
<1>9. store \in [Ids -> Row \cup {NoRow}]
  BY <1>3, <1>4, <1>5
<1>10. QED
  BY <1>2, <1>3, <1>6, <1>8, <1>9

LEMMA StoreInvInit == Init => StoreInv
<1> SUFFICES ASSUME Init
             PROVE  StoreInv
  OBVIOUS
<1>1. started = 0 /\ syncing = FALSE /\ used = {0} /\ req = [r \in Requests |-> Idle]
  BY DEF Init
<1>2. \A r \in Requests : req[r] = Idle
  BY <1>1
<1>3. TypeOK
  <2>1. req \in [Requests -> Request]
    BY <1>1, IdleRecord
  <2>2. \A r \in Requests : req[r].holds = {}
    BY <1>2, IdleRecord
  <2>3. \A s \in Rows : s <= lastId
    BY InitRows
  <2>4. used \subseteq 0 .. MaxTransactions /\ started \in 0 .. MaxTransactions
    BY <1>1, Bounds
  <2>5. QED
    BY <1>1, <2>1, <2>2, <2>3, <2>4, InitRows DEF TypeOK
<1>4. OneSync
  BY <1>2, IdleRecord DEF OneSync
<1>5. Numbered
  BY <1>1, <1>2, IdleRecord DEF Numbered, InTransaction
<1>6. RowsVersioned
  BY <1>1, InitRows DEF RowsVersioned
<1>7. \A r \in Requests : RequestOK(req[r])
  BY <1>2, IdleOK
<1>8. QED
  BY <1>3, <1>4, <1>5, <1>6, <1>7 DEF StoreInv

Quiet == StoreInv' /\ UNCHANGED <<store, lastId, used>>

LEMMA RollBackQuiet ==
  ASSUME StoreInv, NEW r \in Requests, RollBack(r)
  PROVE  Quiet
BY RollBackStep DEF Quiet, RollBack

LEMMA ClientQuiet ==
  ASSUME StoreInv, NEW r \in Requests, Client(r)
  PROVE  Quiet
<1>1. CASE \E ss \in SUBSET Ids : ReadList(r, ss)
  BY <1>1, ReadListStep DEF Quiet, ReadList
<1>2. CASE \E s \in Ids : ReadRow(r, s)
  BY <1>2, ReadRowStep DEF Quiet, ReadRow
<1>3. CASE ReadEntries(r)
  BY <1>3, ReadEntriesStep DEF Quiet, ReadEntries
<1>4. CASE Forget(r)
  BY <1>4, RollBackQuiet DEF Forget
<1>5. CASE PatchBegin(r) \/ CutBegin(r) \/ ToggleBegin(r) \/ BulkBegin(r)
  <2>1. UNCHANGED <<store, lastId, used>>
    BY <1>5 DEF PatchBegin, CutBegin, ToggleBegin, BulkBegin, Begin
  <2>2. QED
    BY <1>5, <2>1, EditsBegin DEF Quiet
<1>6. CASE SyncStart(r)
  BY <1>6, SyncStartStep DEF Quiet, SyncStart
<1>7. QED
  BY <1>1, <1>2, <1>3, <1>4, <1>5, <1>6 DEF Client

LEMMA ProgressIs ==
  ASSUME StoreInv, NEW r \in Requests, Progress(r)
  PROVE  Quiet \/ Commits(r)
<1>1. CASE RollBack(r)
  BY <1>1, RollBackQuiet
<1>2. CASE ~RollBack(r) /\ CasPatch(r)
  BY <1>2, CasPatchStep DEF Quiet, CasPatch
<1>3. CASE ~RollBack(r) /\ Check(r)
  BY <1>3, CheckStep DEF Quiet, Check
<1>4. CASE ~RollBack(r) /\ Cut(r)
  BY <1>4, CutStep DEF Quiet, Cut
<1>5. CASE LockRow(r)
  BY <1>5, LockRowStep DEF Quiet, LockRow
<1>6. CASE Fetch(r)
  BY <1>6, FetchStep DEF Quiet, Fetch
<1>7. CASE SyncStale(r)
  BY <1>7, SyncStaleStep DEF Quiet, SyncStale
<1>8. CASE PatchCommit(r)
  BY <1>8, PatchCommits
<1>9. CASE ~RollBack(r) /\ (Bump(r) \/ ToggleCommit(r) \/ BulkCommit(r))
  BY <1>9, BumpCommits, ToggleCommits, BulkCommits
<1>10. CASE SyncCommit(r)
  BY <1>10, SyncCommits
<1>11. CASE FetchFails(r)
  BY <1>1, <1>11 DEF FetchFails
<1>12. QED
  BY <1>1, <1>2, <1>3, <1>4, <1>5, <1>6, <1>7, <1>8, <1>9, <1>10, <1>11 DEF Progress

LEMMA StepIs ==
  ASSUME StoreInv, [Next]_vars
  PROVE  Quiet \/ \E r \in Requests : Commits(r)
<1>1. CASE UNCHANGED vars
  <2>1. StoreInv'
    <3>1. Rows' = Rows
      BY <1>1 DEF Rows, vars
    <3>2. TypeOK' /\ OneSync' /\ Numbered' /\ RowsVersioned'
      BY <1>1, <3>1 DEF StoreInv, TypeOK, OneSync, Numbered, RowsVersioned, vars
    <3>3. \A d \in Requests : RequestOK(req[d])'
      BY <1>1, OKUnchanged DEF StoreInv, vars
    <3>4. QED
      BY <3>2, <3>3 DEF StoreInv
  <2>2. QED
    BY <1>1, <2>1 DEF Quiet, vars
<1>2. CASE Next
  <2>1. PICK r \in Requests : Client(r) \/ Progress(r) \/ Abort(r) \/ DeadlockVictim(r)
    BY <1>2 DEF Next
  <2>2. CASE Abort(r) \/ DeadlockVictim(r)
    BY <2>2, RollBackQuiet DEF Abort, DeadlockVictim
  <2>3. QED
    BY <2>1, <2>2, ClientQuiet, ProgressIs
<1>3. QED
  BY <1>1, <1>2

LEMMA StoreInvStep == StoreInv /\ [Next]_vars => StoreInv'
BY StepIs, CommitStep DEF Quiet, Commits

LEMMA StoreInvHolds == Spec => []StoreInv
BY StoreInvInit, StoreInvStep, PTL DEF Spec

-----------------------------------------------------------------------------
(* The theorems *)

(* Rows, views and transactions keep their types, and a row that somebody  *)
(* has locked is there and locked by nobody else.                          *)
THEOREM StoreTypeCorrect == Spec => []TypeOK
<1>1. StoreInv => TypeOK
  BY DEF StoreInv
<1>2. QED
  BY <1>1, StoreInvHolds, PTL

(* An edit commits only if every Store it edits is, row and whitelist, as  *)
(* its admin's client has read it: of UpdateStore, the toggles and         *)
(* DeleteWifiWhitelistEntries none overwrites what nobody has seen,        *)
(* whatever syncs and edits overlap.                                       *)
THEOREM EditsAreNotLost == Spec => NoLostEdit
<1>1. ASSUME StoreInv, [Next]_vars, NEW r \in Requests,
             req[r].edit.kind \in {"patch", "cut", "toggle", "bulk"},
             req[r].began \in used' \ used
      PROVE  \A s \in Target(r) : store[s] = req[r].view[s]
  <2>1. ~Quiet
    BY <1>1 DEF Quiet
  <2>2. PICK d \in Requests : Commits(d)
    BY <1>1, <2>1, StepIs
  <2>3. req[r].began = req[d].began /\ req[d].pc \in InTransaction
    BY <1>1, <2>2 DEF Commits
  <2>4. req[r] \in Request /\ OnPath(req[r])
    BY <1>1, RequestIs DEF RequestOK
  <2>5. req[r].pc \in InTransaction
    BY <1>1, <2>4, PathMeans
  <2>6. d = r
    BY <1>1, <2>3, <2>5 DEF StoreInv, Numbered
  <2>7. QED
    BY <1>1, <2>2, <2>6 DEF Commits, AsSeen
<1>2. StoreInv /\ [Next]_vars =>
        \A r \in Requests :
          /\ req[r].edit.kind \in {"patch", "cut", "toggle", "bulk"}
          /\ req[r].began \in used' \ used
          => \A s \in Target(r) : store[s] = req[r].view[s]
  BY <1>1
<1>3. QED
  BY <1>2, StoreInvHolds, PTL DEF Spec, NoLostEdit

LEMMA CommitIsVersion ==
  ASSUME StoreInv, NEW r \in Requests, Commits(r)
  PROVE  Versioned!Commit(req[r].began)
<1> DEFINE v == req[r].began
<1>1. v \in 0 .. MaxTransactions /\ v \notin used /\ used' = used \cup {v}
  BY RequestIs, RequestFields DEF Commits, StoreInv, Numbered
<1>2. Writes(r) /\ lastId \in 0 .. MaxId /\ \A s \in Rows : s <= lastId
  BY DEF Commits, StoreInv, TypeOK
<1>3. /\ lastId' \in Nat /\ lastId \in Nat /\ lastId <= lastId'
      /\ \A s \in Ids : s \in Nat /\ s >= 1
  BY <1>2, Bounds DEF Writes, Ids
<1>4. 1 .. lastId' = (1 .. lastId) \cup Versioned!Exist(store')
  <2>1. \A s \in Versioned!Exist(store') : s \in 1 .. lastId'
    BY <1>2, <1>3 DEF Versioned!Exist, Writes
  <2>2. \A s \in lastId + 1 .. lastId' : s \in Versioned!Exist(store')
    BY <1>2 DEF Versioned!Exist, Writes
  <2>3. 1 .. lastId' = (1 .. lastId) \cup (lastId + 1 .. lastId')
    BY <1>3
  <2>4. QED
    BY <2>1, <2>2, <2>3
<1>5. \A s \in Ids :
        \/ store'[s] = store[s]
        \/ store'[s] = NoRow
        \/ store'[s].version = v /\ (store[s] # NoRow \/ s \notin 1 .. lastId)
  BY <1>2, <1>3 DEF Writes
<1>6. QED
  BY <1>1, <1>4, <1>5 DEF Versioned!Commit

(* Every commit of an edit or of a sync is, to the Stores, a new version   *)
(* of each Store that it changes; every other step changes nothing that    *)
(* VersionedStores speaks of.                                              *)
THEOREM StoresImplementVersions == Spec => ImplementsVersions
<1>1. Init => Versioned!Init
  <2> SUFFICES ASSUME Init
               PROVE  Versioned!Init
    OBVIOUS
  <2>1. used \subseteq 0 .. MaxTransactions /\ used = {0}
    BY Bounds DEF Init
  <2>2. 1 .. lastId = Versioned!Exist(store) /\ \A s \in 1 .. lastId : store[s].version \in used
    BY <2>1, InitRows DEF Versioned!Exist, Rows
  <2>3. QED
    BY <2>1, <2>2 DEF Versioned!Init
<1>2. StoreInv /\ [Next]_vars => [Versioned!Next]_(Versioned!vars)
  <2> SUFFICES ASSUME StoreInv, [Next]_vars
               PROVE  [Versioned!Next]_(Versioned!vars)
    OBVIOUS
  <2>1. CASE Quiet
    BY <2>1 DEF Quiet, Versioned!vars
  <2>2. ASSUME NEW r \in Requests, Commits(r)
        PROVE  Versioned!Next
    <3>1. req[r].began \in 0 .. MaxTransactions
      BY RequestIs, RequestFields
    <3>2. QED
      BY <2>2, <3>1, CommitIsVersion DEF Versioned!Next
  <2>3. QED
    BY <2>1, <2>2, StepIs
<1>3. QED
  BY <1>1, <1>2, StoreInvHolds, PTL DEF Spec, ImplementsVersions, Versioned!Spec

=============================================================================
