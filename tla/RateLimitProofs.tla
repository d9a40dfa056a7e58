--------------------------- MODULE RateLimitProofs ---------------------------
(***************************************************************************)
(* The ceilings of RateLimit for every number of emails, IP addresses and  *)
(* concurrent attempts, and for every limit and window.                    *)
(***************************************************************************)
EXTENDS RateLimit, FiniteSetTheorems, TLAPS

-----------------------------------------------------------------------------
(* The inductive invariant *)

Dims == {"email", "ip"}

(* The dimensions whose lock an attempt at this step holds. *)
DimsAt(step) ==
  IF step = "lock2" THEN {"email"}
  ELSE IF step \in {"count", "count_ip", "insert"} THEN Dims ELSE {}

(* Two attempts that hold the lock of one dimension have different keys. *)
KeysLocked ==
  \A r, q \in Requests : r # q =>
    \A dim \in DimsAt(req[r].pc) \cap DimsAt(req[q].pc) : req[r].key[dim] # req[q].key[dim]

RowsNumbered ==
  /\ IsFiniteSet(log)
  /\ \A w \in log : w.id <= last
  /\ \A v, w \in log : v.id = w.id => v = w

(* Clean-ups leave the window that ends now alone. *)
Swept == \A v \in log \ rows : v.createdAt < now - Window

CountedIn(S, dim, key, since) == {w \in S : w.key[dim] = key[dim] /\ w.createdAt >= since}

(* An attempt counts in a window that began no later than the one that     *)
(* ends now ...                                                            *)
WindowPast(a, time) == a.since + Window <= time

(* ... deletes rows from before its own ...                                *)
OldIsOld(a, S, n) == \A i \in a.old : i <= n /\ \A v \in S : v.id = i => v.createdAt < a.since

(* ... and what it has counted is not less than what the window that ends  *)
(* now holds, deleted or not.                                              *)
CountsHold(a, S, since) ==
  /\ a.pc \in {"count_ip", "insert"} =>
       Cardinality(CountedIn(S, "email", a.key, since)) <= a.emailCount
  /\ a.pc = "insert" =>
       Cardinality(CountedIn(S, "ip", a.key, since)) <= a.ipCount

Sound(a) == WindowPast(a, now) /\ OldIsOld(a, log, last) /\ CountsHold(a, log, now - Window)

AttemptsSound == \A r \in Requests : req[r].pc # "free" => Sound(req[r])

RateInv ==
  /\ TypeOK /\ KeysLocked /\ RowsNumbered /\ Swept /\ AttemptsSound
  /\ EmailCeiling /\ IPCeiling

-----------------------------------------------------------------------------
(* Sets of rows *)

LEMMA CountedMonotone ==
  ASSUME NEW S, IsFiniteSet(S), NEW dim, NEW key, NEW since,
         NEW T, T \subseteq CountedIn(S, dim, key, since)
  PROVE  /\ IsFiniteSet(T)
         /\ Cardinality(T) \in Nat
         /\ Cardinality(CountedIn(S, dim, key, since)) \in Nat
         /\ Cardinality(T) <= Cardinality(CountedIn(S, dim, key, since))
<1> DEFINE C == CountedIn(S, dim, key, since)
<1>1. C \in SUBSET S
  BY DEF CountedIn
<1> HIDE DEF C
<1>2. IsFiniteSet(C)
  BY <1>1, FS_Subset
<1>3. T \in SUBSET C
  BY DEF C
<1>4. IsFiniteSet(T) /\ Cardinality(T) <= Cardinality(C)
  BY <1>2, <1>3, FS_Subset
<1>5. Cardinality(T) \in Nat /\ Cardinality(C) \in Nat
  BY <1>2, <1>4, FS_CardinalityType
<1>6. QED
  BY <1>4, <1>5 DEF C

(* What an attempt counts in the table is not less than what the window    *)
(* that ends now holds.                                                    *)
LEMMA CountedIsEnough ==
  ASSUME TypeOK, RowsNumbered, Swept, NEW a \in Attempt, WindowPast(a, now), NEW dim \in Dims
  PROVE  /\ Cardinality(Counted(dim, a.key, a.since)) \in Nat
         /\ Cardinality(CountedIn(log, dim, a.key, now - Window))
              <= Cardinality(Counted(dim, a.key, a.since))
<1>1. rows \in SUBSET log /\ IsFiniteSet(log)
  BY DEF TypeOK, RowsNumbered
<1>2. IsFiniteSet(rows)
  BY <1>1, FS_Subset
<1>3. Counted(dim, a.key, a.since) = CountedIn(rows, dim, a.key, a.since)
  BY DEF Counted, CountedIn
<1>4. \A v \in log : v.createdAt >= now - Window => v \in rows /\ v.createdAt >= a.since
  BY LimitsAssumption DEF TypeOK, Row, Attempt, Swept, WindowPast
<1>5. CountedIn(log, dim, a.key, now - Window) \subseteq CountedIn(rows, dim, a.key, a.since)
  BY <1>4 DEF CountedIn
<1>6. QED
  BY <1>2, <1>3, <1>5, CountedMonotone

LEMMA HoldsDims == \A r : Holds(r) = DimsAt(req[r].pc)
<1> SUFFICES ASSUME NEW r
             PROVE  Holds(r) = DimsAt(req[r].pc)
  OBVIOUS
<1>1. CASE req[r].pc = "lock2"
  BY <1>1 DEF Holds, At, LockOrder, DimsAt
<1>2. CASE req[r].pc \in {"count", "count_ip", "insert"}
  BY <1>2 DEF Holds, At, DimsAt, Dims
<1>3. CASE req[r].pc \notin {"lock2", "count", "count_ip", "insert"}
  BY <1>3 DEF Holds, At, DimsAt
<1>4. QED
  BY <1>1, <1>2, <1>3

LEMMA LockedMeans ==
  \A r, dim : LockedByOther(r, dim) <=>
    \E q \in Requests \ {r} : dim \in DimsAt(req[q].pc) /\ req[q].key[dim] = req[r].key[dim]
BY HoldsDims DEF LockedByOther

-----------------------------------------------------------------------------
(* What an action makes of its attempt *)

(* r goes on with the record q, nothing else changes. *)
GoesOn(r, q) ==
  /\ q \in Attempt
  /\ req' = [req EXCEPT ![r] = q]
  /\ UNCHANGED <<now, rows, last, log>>

SameWindow(q, a) == q.key = a.key /\ q.since = a.since /\ q.old = a.old

LEMMA BeginGoesOn ==
  ASSUME TypeOK, NEW r \in Requests, NEW key \in Keys, Begin(r, key)
  PROVE  \E q : /\ GoesOn(r, q) /\ q.pc = "open" /\ q.key = key
                /\ q.since = now - Window /\ q.old = {}
<1> DEFINE q == [pc |-> "open", key |-> key, since |-> now - Window, startedAt |-> now,
                 emailCount |-> 0, ipCount |-> 0, old |-> {}]
<1>1. /\ q \in Attempt /\ q.pc = "open" /\ q.key = key
      /\ q.since = now - Window /\ q.old = {}
  BY LimitsAssumption DEF TypeOK, Attempt, Steps
<1>2. req' = [req EXCEPT ![r] = q] /\ UNCHANGED <<now, rows, last, log>>
  BY DEF Begin, Becomes
<1> HIDE DEF q
<1>3. QED
  BY <1>1, <1>2 DEF GoesOn

LEMMA OpenGoesOn ==
  ASSUME TypeOK, NEW r \in Requests, OpenTransaction(r)
  PROVE  \E q : /\ GoesOn(r, q) /\ req[r].pc = "open" /\ q.pc = "lock1"
                /\ SameWindow(q, req[r])
<1> DEFINE q == [req[r] EXCEPT !.pc = "lock1", !.startedAt = now]
<1>1. req[r] \in Attempt /\ req[r].pc = "open" /\ now \in Int
  BY DEF TypeOK, OpenTransaction, At, Free
<1>2. q \in Attempt /\ q.pc = "lock1" /\ SameWindow(q, req[r])
  BY <1>1 DEF Attempt, Steps, SameWindow
<1>3. req' = [req EXCEPT ![r] = q] /\ UNCHANGED <<now, rows, last, log>>
  BY DEF OpenTransaction, Becomes
<1> HIDE DEF q
<1>4. QED
  BY <1>1, <1>2, <1>3 DEF GoesOn

LEMMA LocksGoOn ==
  ASSUME TypeOK, NEW r \in Requests, Lock1(r) \/ Lock2(r)
  PROVE  \E q, dim : /\ GoesOn(r, q) /\ SameWindow(q, req[r])
                     /\ req[r].pc # "free" /\ q.pc \in {"lock2", "count"}
                     /\ DimsAt(q.pc) = DimsAt(req[r].pc) \cup {dim}
                     /\ ~LockedByOther(r, dim)
<1>1. ASSUME NEW pc \in Steps, Becomes(r, [req[r] EXCEPT !.pc = pc]), req[r].pc \in Steps,
             UNCHANGED <<now, rows, last, log>>
      PROVE  \E q : GoesOn(r, q) /\ SameWindow(q, req[r]) /\ q.pc = pc
  <2> DEFINE q == [req[r] EXCEPT !.pc = pc]
  <2>1. req[r] \in Attempt
    BY <1>1 DEF TypeOK, Free, Steps
  <2>2. q \in Attempt /\ q.pc = pc /\ SameWindow(q, req[r])
    BY <2>1 DEF Attempt, SameWindow
  <2>3. req' = [req EXCEPT ![r] = q]
    BY <1>1 DEF Becomes
  <2> HIDE DEF q
  <2>4. QED
    BY <1>1, <2>2, <2>3 DEF GoesOn
<1>2. CASE Lock1(r)
  <2>1. req[r].pc = "lock1" /\ ~LockedByOther(r, "email")
    BY <1>2 DEF Lock1, At, LockOrder
  <2>2. \E q : GoesOn(r, q) /\ SameWindow(q, req[r]) /\ q.pc = "lock2"
    BY <1>1, <1>2, <2>1 DEF Lock1, Steps
  <2>3. DimsAt("lock2") = DimsAt("lock1") \cup {"email"}
    BY DEF DimsAt
  <2>4. QED
    BY <2>1, <2>2, <2>3
<1>3. CASE Lock2(r)
  <2>1. req[r].pc = "lock2" /\ ~LockedByOther(r, "ip")
    BY <1>3 DEF Lock2, At, LockOrder
  <2>2. \E q : GoesOn(r, q) /\ SameWindow(q, req[r]) /\ q.pc = "count"
    BY <1>1, <1>3, <2>1 DEF Lock2, Steps
  <2>3. DimsAt("count") = DimsAt("lock2") \cup {"ip"}
    BY DEF DimsAt, Dims
  <2>4. QED
    BY <2>1, <2>2, <2>3
<1>4. QED
  BY <1>2, <1>3

LEMMA CountsGoOn ==
  ASSUME TypeOK, RowsNumbered, Swept, NEW r \in Requests, CleanAndCount(r) \/ CountIP(r),
         Sound(req[r])
  PROVE  \E q : /\ GoesOn(r, q) /\ Sound(q)
                /\ q.key = req[r].key /\ DimsAt(q.pc) = DimsAt(req[r].pc)
<1>1. req[r] \in Attempt /\ WindowPast(req[r], now)
  BY DEF TypeOK, CleanAndCount, CountIP, At, Free, Sound
<1>2. CASE CleanAndCount(r)
  <2> DEFINE n == Cardinality(Counted("email", req[r].key, req[r].since))
             gone == {w.id : w \in {v \in rows : v.createdAt < req[r].since}}
             q == [req[r] EXCEPT !.pc = "count_ip", !.emailCount = n, !.old = gone]
  <2>1. n \in Nat /\ Cardinality(CountedIn(log, "email", req[r].key, now - Window)) <= n
    BY <1>1, CountedIsEnough DEF Dims
  <2>2. gone \subseteq Nat
    BY DEF TypeOK, Row
  <2>3. \A i \in gone : i <= last /\ \A v \in log : v.id = i => v.createdAt < req[r].since
    <3> SUFFICES ASSUME NEW w \in rows, w.createdAt < req[r].since
                 PROVE  /\ w.id <= last
                        /\ \A v \in log : v.id = w.id => v.createdAt < req[r].since
      OBVIOUS
    <3>1. w \in log
      BY DEF TypeOK
    <3>2. w.id <= last /\ \A v \in log : v.id = w.id => v = w
      BY <3>1 DEF RowsNumbered
    <3>3. QED
      BY <3>2
  <2>4. /\ req' = [req EXCEPT ![r] = q] /\ req[r].pc = "count"
        /\ UNCHANGED <<now, rows, last, log>>
    BY <1>2 DEF CleanAndCount, Becomes, At
  <2> HIDE DEF n, gone
  <2>5. /\ q \in Attempt /\ q.pc = "count_ip" /\ q.emailCount = n /\ q.old = gone
        /\ q.key = req[r].key /\ q.since = req[r].since
    BY <1>1, <2>1, <2>2 DEF Attempt, Steps
  <2> HIDE DEF q
  <2>6. CountsHold(q, log, now - Window)
    BY <2>1, <2>5 DEF CountsHold
  <2>7. OldIsOld(q, log, last) /\ WindowPast(q, now)
    BY <1>1, <2>3, <2>5 DEF OldIsOld, WindowPast
  <2>8. DimsAt("count") = DimsAt("count_ip")
    BY DEF DimsAt
  <2>9. QED
    BY <2>4, <2>5, <2>6, <2>7, <2>8 DEF GoesOn, Sound
<1>3. CASE CountIP(r)
  <2> DEFINE n == Cardinality(Counted("ip", req[r].key, req[r].since))
             q == [req[r] EXCEPT !.pc = "insert", !.ipCount = n]
  <2>1. n \in Nat /\ Cardinality(CountedIn(log, "ip", req[r].key, now - Window)) <= n
    BY <1>1, CountedIsEnough DEF Dims
  <2>2. /\ req' = [req EXCEPT ![r] = q] /\ req[r].pc = "count_ip"
        /\ UNCHANGED <<now, rows, last, log>>
    BY <1>3 DEF CountIP, Becomes, At
  <2> HIDE DEF n
  <2>3. /\ q \in Attempt /\ q.pc = "insert" /\ q.ipCount = n
        /\ q.emailCount = req[r].emailCount /\ SameWindow(q, req[r])
    BY <1>1, <2>1 DEF Attempt, Steps, SameWindow
  <2> HIDE DEF q
  <2>4. CountsHold(q, log, now - Window)
    BY <2>1, <2>2, <2>3 DEF CountsHold, Sound, SameWindow
  <2>5. OldIsOld(q, log, last) /\ WindowPast(q, now)
    BY <2>3 DEF OldIsOld, WindowPast, Sound, SameWindow
  <2>6. DimsAt("count_ip") = DimsAt("insert")
    BY DEF DimsAt
  <2>7. QED
    BY <2>2, <2>3, <2>4, <2>5, <2>6 DEF GoesOn, Sound, SameWindow
<1>4. QED
  BY <1>2, <1>3

-----------------------------------------------------------------------------
(* The steps *)

(* Of the locks that q needs, r has them already or nobody does. *)
MayLock(r, q) ==
  \A dim \in DimsAt(q.pc), p \in Requests \ {r} :
    dim \in DimsAt(req[p].pc) => req[p].key[dim] # q.key[dim]

LEMMA GoesOnStep ==
  ASSUME RateInv, NEW r \in Requests, NEW q, GoesOn(r, q),
         MayLock(r, q), Sound(q)
  PROVE  RateInv'
<1> TypeOK /\ KeysLocked /\ RowsNumbered /\ Swept /\ AttemptsSound
  BY DEF RateInv
<1>1. /\ now' = now /\ rows' = rows /\ last' = last /\ log' = log
      /\ req' \in [Requests -> Attempt \cup {Free}]
      /\ req'[r] = q
      /\ \A p \in Requests \ {r} : req'[p] = req[p]
  BY DEF GoesOn, TypeOK
<1>2. TypeOK' /\ RowsNumbered' /\ Swept'
  BY <1>1 DEF TypeOK, RowsNumbered, Swept
<1>3. EmailCeiling' /\ IPCeiling'
  BY <1>1 DEF RateInv, EmailCeiling, IPCeiling, Earlier
<1>4. AttemptsSound'
  BY <1>1 DEF AttemptsSound, Sound
<1>5. KeysLocked'
  <2> SUFFICES ASSUME NEW p \in Requests, NEW o \in Requests, p # o,
                      NEW dim \in DimsAt(req'[p].pc) \cap DimsAt(req'[o].pc)
               PROVE  req'[p].key[dim] # req'[o].key[dim]
    BY DEF KeysLocked
  <2>1. CASE p = r
    BY <1>1, <2>1 DEF MayLock
  <2>2. CASE o = r
    BY <1>1, <2>2 DEF MayLock
  <2>3. CASE p # r /\ o # r
    BY <1>1, <2>3 DEF KeysLocked
  <2>4. QED
    BY <2>1, <2>2, <2>3
<1>6. QED
  BY <1>2, <1>3, <1>4, <1>5 DEF RateInv

(* What r holds already, nobody else has. *)
LEMMA KeepsLocks ==
  ASSUME KeysLocked, NEW r \in Requests, NEW q, q.key = req[r].key,
         DimsAt(q.pc) = DimsAt(req[r].pc)
  PROVE  MayLock(r, q)
BY DEF KeysLocked, MayLock

LEMMA BeginStep ==
  ASSUME RateInv, NEW r \in Requests, NEW key \in Keys, Begin(r, key)
  PROVE  RateInv'
<1> TypeOK
  BY DEF RateInv
<1>1. PICK q : /\ GoesOn(r, q) /\ q.pc = "open" /\ q.key = key
               /\ q.since = now - Window /\ q.old = {}
  BY BeginGoesOn
<1>2. WindowPast(q, now) /\ OldIsOld(q, log, last)
  BY <1>1, LimitsAssumption DEF WindowPast, OldIsOld, TypeOK
<1>3. CountsHold(q, log, now - Window) /\ MayLock(r, q)
  BY <1>1 DEF CountsHold, MayLock, DimsAt
<1>4. QED
  BY <1>1, <1>2, <1>3, GoesOnStep DEF Sound

(* An attempt that has not counted yet is sound as long as its window and  *)
(* what it deletes stay what they were.                                    *)
LEMMA StaysSound ==
  ASSUME NEW a, NEW q, Sound(a), SameWindow(q, a), q.pc \notin {"count_ip", "insert"}
  PROVE  Sound(q)
BY DEF Sound, SameWindow, WindowPast, OldIsOld, CountsHold

LEMMA OpenStep ==
  ASSUME RateInv, NEW r \in Requests, OpenTransaction(r)
  PROVE  RateInv'
<1> TypeOK
  BY DEF RateInv
<1>1. PICK q : /\ GoesOn(r, q) /\ req[r].pc = "open" /\ q.pc = "lock1"
               /\ SameWindow(q, req[r])
  BY OpenGoesOn
<1>2. Sound(q)
  BY <1>1, StaysSound DEF RateInv, AttemptsSound
<1>3. MayLock(r, q)
  BY <1>1 DEF MayLock, DimsAt
<1>4. QED
  BY <1>1, <1>2, <1>3, GoesOnStep

LEMMA LockStep ==
  ASSUME RateInv, NEW r \in Requests, Lock1(r) \/ Lock2(r)
  PROVE  RateInv'
<1> TypeOK /\ KeysLocked
  BY DEF RateInv
<1>1. PICK q, dim : /\ GoesOn(r, q) /\ SameWindow(q, req[r])
                    /\ req[r].pc # "free" /\ q.pc \in {"lock2", "count"}
                    /\ DimsAt(q.pc) = DimsAt(req[r].pc) \cup {dim}
                    /\ ~LockedByOther(r, dim)
  BY LocksGoOn
<1>2. Sound(q)
  BY <1>1, StaysSound DEF RateInv, AttemptsSound
<1>3. MayLock(r, q)
  BY <1>1, LockedMeans DEF KeysLocked, MayLock, SameWindow
<1>4. QED
  BY <1>1, <1>2, <1>3, GoesOnStep

LEMMA CountStep ==
  ASSUME RateInv, NEW r \in Requests, CleanAndCount(r) \/ CountIP(r)
  PROVE  RateInv'
<1> TypeOK /\ KeysLocked /\ RowsNumbered /\ Swept
  BY DEF RateInv
<1>1. Sound(req[r])
  BY DEF RateInv, AttemptsSound, CleanAndCount, CountIP, At
<1>2. PICK q : /\ GoesOn(r, q) /\ Sound(q)
               /\ q.key = req[r].key /\ DimsAt(q.pc) = DimsAt(req[r].pc)
  BY <1>1, CountsGoOn
<1>3. MayLock(r, q)
  BY <1>2, KeepsLocks
<1>4. QED
  BY <1>2, <1>3, GoesOnStep

LEMMA AbortStep ==
  ASSUME RateInv, NEW r \in Requests, Abort(r)
  PROVE  RateInv'
<1> TypeOK /\ KeysLocked /\ RowsNumbered /\ Swept /\ AttemptsSound
  BY DEF RateInv
<1>1. /\ now' = now /\ rows' = rows /\ last' = last /\ log' = log
      /\ req' \in [Requests -> Attempt \cup {Free}]
      /\ req'[r].pc = "free"
      /\ \A p \in Requests \ {r} : req'[p] = req[p]
  BY DEF Abort, Becomes, TypeOK, Free
<1>2. TypeOK' /\ RowsNumbered' /\ Swept'
  BY <1>1 DEF TypeOK, RowsNumbered, Swept
<1>3. EmailCeiling' /\ IPCeiling'
  BY <1>1 DEF RateInv, EmailCeiling, IPCeiling, Earlier
<1>4. AttemptsSound'
  BY <1>1 DEF AttemptsSound, Sound
<1>5. KeysLocked'
  <2>1. DimsAt(req'[r].pc) = {}
    BY <1>1 DEF DimsAt
  <2>2. QED
    BY <1>1, <2>1 DEF KeysLocked
<1>6. QED
  BY <1>2, <1>3, <1>4, <1>5 DEF RateInv

LEMMA TickStep ==
  ASSUME RateInv, Tick
  PROVE  RateInv'
<1> TypeOK /\ KeysLocked /\ RowsNumbered /\ Swept /\ AttemptsSound
  BY DEF RateInv
<1>1. now' = now + 1 /\ UNCHANGED <<rows, last, req, log>> /\ now \in Nat /\ Window \in Nat
  BY LimitsAssumption DEF Tick, TypeOK
<1>2. TypeOK' /\ RowsNumbered' /\ KeysLocked'
  BY <1>1 DEF TypeOK, RowsNumbered, KeysLocked
<1>3. EmailCeiling' /\ IPCeiling'
  BY <1>1 DEF RateInv, EmailCeiling, IPCeiling, Earlier
<1>4. Swept'
  <2>1. \A v \in log : v.createdAt \in Int
    BY DEF TypeOK, Row
  <2>2. QED
    BY <1>1, <2>1 DEF Swept
<1>5. ASSUME NEW r \in Requests, req[r].pc # "free"
      PROVE  /\ WindowPast(req[r], now') /\ OldIsOld(req[r], log, last)
             /\ CountsHold(req[r], log, now' - Window)
  <2>1. req[r] \in Attempt /\ Sound(req[r])
    BY <1>5 DEF TypeOK, Free, AttemptsSound
  <2>2. WindowPast(req[r], now') /\ OldIsOld(req[r], log, last)
    BY <1>1, <2>1 DEF Sound, WindowPast, Attempt
  <2>3. \A dim : /\ Cardinality(CountedIn(log, dim, req[r].key, now' - Window)) \in Nat
                 /\ Cardinality(CountedIn(log, dim, req[r].key, now - Window)) \in Nat
                 /\ Cardinality(CountedIn(log, dim, req[r].key, now' - Window))
                      <= Cardinality(CountedIn(log, dim, req[r].key, now - Window))
    <3> TAKE dim
    <3>1. \A v \in log : v.createdAt >= now' - Window => v.createdAt >= now - Window
      BY <1>1 DEF TypeOK, Row
    <3>2. CountedIn(log, dim, req[r].key, now' - Window)
            \subseteq CountedIn(log, dim, req[r].key, now - Window)
      BY <3>1 DEF CountedIn
    <3>3. QED
      BY <3>2, CountedMonotone DEF RowsNumbered
  <2>4. req[r].emailCount \in Nat /\ req[r].ipCount \in Nat
    BY <2>1 DEF Attempt
  <2>5. CountsHold(req[r], log, now - Window)
    BY <2>1 DEF Sound
  <2>6. CountsHold(req[r], log, now' - Window)
    BY <2>3, <2>4, <2>5 DEF CountsHold
  <2>7. QED
    BY <2>2, <2>6
<1>6. AttemptsSound'
  BY <1>1, <1>5 DEF AttemptsSound, Sound
<1>7. QED
  BY <1>2, <1>3, <1>4, <1>6 DEF RateInv

-----------------------------------------------------------------------------
(* The insertion *)

LEMMA InsertWrites ==
  ASSUME TypeOK, NEW r \in Requests, InsertAndCommit(r)
  PROVE  /\ req[r] \in Attempt /\ req[r].pc = "insert"
         /\ rows' = {w \in rows : w.id \notin req[r].old} \cup {NewRow(r)}
         /\ log' = log \cup {NewRow(r)}
         /\ last' = last + 1 /\ now' = now
         /\ NewRow(r) \in Row
         /\ NewRow(r).id = last + 1
         /\ NewRow(r).key = req[r].key
         /\ NewRow(r).committedAt = now
         /\ NewRow(r).allowed <=> req[r].emailCount < EmailLimit /\ req[r].ipCount < IPLimit
         /\ req' \in [Requests -> Attempt \cup {Free}]
         /\ req'[r].pc = "free"
         /\ \A p \in Requests \ {r} : req'[p] = req[p]
<1>1. req[r] \in Attempt /\ req[r].pc = "insert"
  BY DEF TypeOK, InsertAndCommit, Insert, At, Free
<1>2. /\ rows' = {w \in rows : w.id \notin req[r].old} \cup {NewRow(r)}
      /\ log' = log \cup {NewRow(r)}
      /\ last' = last + 1 /\ now' = now
  BY DEF InsertAndCommit, Insert
<1>3. /\ NewRow(r).id = last + 1
      /\ NewRow(r).key = req[r].key
      /\ NewRow(r).committedAt = now
      /\ NewRow(r).allowed <=> req[r].emailCount < EmailLimit /\ req[r].ipCount < IPLimit
  BY DEF NewRow
<1>4. NewRow(r) \in Row
  <2>1. (req[r].emailCount < EmailLimit /\ req[r].ipCount < IPLimit) \in BOOLEAN
    OBVIOUS
  <2>2. /\ last + 1 \in Nat \ {0} /\ req[r].key \in Keys
        /\ req[r].startedAt \in Int /\ now \in Int
    BY <1>1 DEF TypeOK, Attempt
  <2>3. QED
    BY <2>1, <2>2 DEF NewRow, Row
<1>5. /\ req' \in [Requests -> Attempt \cup {Free}]
      /\ req'[r].pc = "free"
      /\ \A p \in Requests \ {r} : req'[p] = req[p]
  BY DEF InsertAndCommit, Insert, Becomes, TypeOK, Free
<1>6. QED
  BY <1>1, <1>2, <1>3, <1>4, <1>5

EarlierIn(S, dim, w) ==
  {v \in S : v.id < w.id /\ v.key[dim] = w.key[dim] /\ v.createdAt >= w.committedAt - Window}

Ceiling(S, dim, limit) == \A w \in S : w.allowed => Cardinality(EarlierIn(S, dim, w)) < limit

LEMMA CeilingsMean ==
  /\ EmailCeiling <=> Ceiling(log, "email", EmailLimit)
  /\ IPCeiling <=> Ceiling(log, "ip", IPLimit)
  /\ EmailCeiling' <=> Ceiling(log', "email", EmailLimit)
  /\ IPCeiling' <=> Ceiling(log', "ip", IPLimit)
BY DEF EmailCeiling, IPCeiling, Ceiling, Earlier, EarlierIn

(* What is earlier than a row that was there is what it was; what is       *)
(* earlier than the new row was counted.                                   *)
LEMMA CeilingStep ==
  ASSUME RateInv, NEW r \in Requests, InsertAndCommit(r),
         NEW dim, NEW limit \in Nat, NEW count \in Nat, Ceiling(log, dim, limit),
         Cardinality(CountedIn(log, dim, req[r].key, now - Window)) <= count,
         NewRow(r).allowed => count < limit
  PROVE  Ceiling(log', dim, limit)
<1> DEFINE new == NewRow(r)
<1> TypeOK /\ RowsNumbered
  BY DEF RateInv
<1>1. /\ log' = log \cup {new}
      /\ new.id = last + 1 /\ new.key = req[r].key /\ new.committedAt = now
  BY InsertWrites
<1>2. /\ \A w \in log : w.id \in Nat /\ w.id <= last
      /\ last \in Nat
  BY DEF RowsNumbered, TypeOK, Row
<1> HIDE DEF new
<1>3. ASSUME NEW w \in log, w.allowed
      PROVE  Cardinality(EarlierIn(log', dim, w)) < limit
  <2>1. EarlierIn(log', dim, w) = EarlierIn(log, dim, w)
    BY <1>1, <1>2 DEF EarlierIn
  <2>2. QED
    BY <1>3, <2>1 DEF Ceiling
<1>4. ASSUME new.allowed
      PROVE  Cardinality(EarlierIn(log', dim, new)) < limit
  <2> DEFINE counted == CountedIn(log, dim, req[r].key, now - Window)
             earlier == EarlierIn(log', dim, new)
  <2>1. earlier \subseteq counted
    BY <1>1, <1>2 DEF EarlierIn, CountedIn
  <2>2. IsFiniteSet(log)
    BY DEF RowsNumbered
  <2> HIDE DEF earlier
  <2>3. /\ Cardinality(earlier) \in Nat /\ Cardinality(counted) \in Nat
        /\ Cardinality(earlier) <= Cardinality(counted)
    BY <2>1, <2>2, CountedMonotone
  <2>4. count < limit /\ Cardinality(counted) <= count
    BY <1>4 DEF new
  <2> HIDE DEF counted
  <2>5. Cardinality(earlier) < limit
    BY <2>3, <2>4
  <2>6. QED
    BY <2>5 DEF earlier
<1>5. QED
  BY <1>1, <1>3, <1>4 DEF Ceiling

(* The row of r counts against no attempt that has counted already: they   *)
(* would share a lock.                                                     *)
LEMMA OthersStaySound ==
  ASSUME RateInv, NEW r \in Requests, InsertAndCommit(r),
         NEW p \in Requests \ {r}, req[p].pc # "free"
  PROVE  /\ WindowPast(req[p], now) /\ OldIsOld(req[p], log', last')
         /\ CountsHold(req[p], log', now - Window)
<1> DEFINE new == NewRow(r)
<1> TypeOK /\ KeysLocked /\ RowsNumbered /\ AttemptsSound
  BY DEF RateInv
<1>1. /\ req[r].pc = "insert" /\ log' = log \cup {new} /\ last' = last + 1
      /\ new.id = last + 1 /\ new.key = req[r].key
  BY InsertWrites
<1> HIDE DEF new
<1>2. Sound(req[p]) /\ req[p] \in Attempt /\ last \in Nat
  BY DEF AttemptsSound, TypeOK, Free
<1>3. OldIsOld(req[p], log', last')
  BY <1>1, <1>2 DEF Sound, OldIsOld, Attempt
<1>4. ASSUME NEW dim \in DimsAt(req[p].pc)
      PROVE  CountedIn(log', dim, req[p].key, now - Window)
               = CountedIn(log, dim, req[p].key, now - Window)
  <2>1. DimsAt("insert") = Dims /\ dim \in Dims
    BY DEF DimsAt, Dims
  <2>2. new.key[dim] # req[p].key[dim]
    BY <1>1, <2>1 DEF KeysLocked
  <2>3. QED
    BY <1>1, <2>2 DEF CountedIn
<1>5. req[p].pc \in {"count_ip", "insert"} => {"email", "ip"} \subseteq DimsAt(req[p].pc)
  BY DEF DimsAt, Dims
<1>6. CountsHold(req[p], log', now - Window)
  BY <1>2, <1>4, <1>5 DEF Sound, CountsHold
<1>7. QED
  BY <1>2, <1>3, <1>6 DEF Sound

LEMMA InsertStep ==
  ASSUME RateInv, NEW r \in Requests, InsertAndCommit(r)
  PROVE  RateInv'
<1> DEFINE new == NewRow(r)
<1> TypeOK /\ KeysLocked /\ RowsNumbered /\ Swept /\ AttemptsSound
  BY DEF RateInv
<1>1. /\ req[r] \in Attempt /\ req[r].pc = "insert"
      /\ rows' = {w \in rows : w.id \notin req[r].old} \cup {new}
      /\ log' = log \cup {new}
      /\ last' = last + 1 /\ now' = now
      /\ new \in Row /\ new.id = last + 1 /\ new.key = req[r].key
      /\ new.allowed <=> req[r].emailCount < EmailLimit /\ req[r].ipCount < IPLimit
      /\ req' \in [Requests -> Attempt \cup {Free}]
      /\ req'[r].pc = "free"
      /\ \A p \in Requests \ {r} : req'[p] = req[p]
  BY InsertWrites
<1>2. EmailCeiling' /\ IPCeiling'
  <2>1. /\ Cardinality(CountedIn(log, "email", req[r].key, now - Window)) <= req[r].emailCount
        /\ Cardinality(CountedIn(log, "ip", req[r].key, now - Window)) <= req[r].ipCount
    BY <1>1 DEF AttemptsSound, Sound, CountsHold
  <2>2. /\ EmailLimit \in Nat /\ IPLimit \in Nat
        /\ req[r].emailCount \in Nat /\ req[r].ipCount \in Nat
    BY <1>1, LimitsAssumption DEF Attempt
  <2>3. Ceiling(log, "email", EmailLimit) /\ Ceiling(log, "ip", IPLimit)
    BY CeilingsMean DEF RateInv
  <2>4. Ceiling(log', "email", EmailLimit)
    BY <1>1, <2>1, <2>2, <2>3, CeilingStep
  <2>5. Ceiling(log', "ip", IPLimit)
    BY <1>1, <2>1, <2>2, <2>3, CeilingStep
  <2>6. QED
    BY <2>4, <2>5, CeilingsMean
<1> HIDE DEF new
<1>3. TypeOK'
  BY <1>1 DEF TypeOK
<1>4. RowsNumbered'
  <2>1. IsFiniteSet(log')
    BY <1>1, FS_AddElement DEF RowsNumbered
  <2>2. \A w \in log : w.id \in Nat /\ w.id <= last /\ w.id # new.id
    BY <1>1 DEF RowsNumbered, TypeOK, Row
  <2>3. \A w \in log' : w.id <= last'
    BY <1>1, <2>2 DEF TypeOK
  <2>4. \A v, w \in log' : v.id = w.id => v = w
    BY <1>1, <2>2 DEF RowsNumbered
  <2>5. QED
    BY <2>1, <2>3, <2>4 DEF RowsNumbered
<1>5. Swept'
  <2> SUFFICES ASSUME NEW v \in log' \ rows'
               PROVE  v.createdAt < now' - Window
    BY DEF Swept
  <2>1. v \in log /\ v \in Row /\ (v \notin rows \/ v.id \in req[r].old)
    BY <1>1 DEF TypeOK
  <2>2. CASE v \notin rows
    BY <1>1, <2>1, <2>2 DEF Swept
  <2>3. CASE v.id \in req[r].old
    <3>1. v.createdAt < req[r].since /\ req[r].since + Window <= now
      BY <1>1, <2>1, <2>3 DEF AttemptsSound, Sound, OldIsOld, WindowPast
    <3>2. QED
      BY <1>1, <2>1, <3>1, LimitsAssumption DEF TypeOK, Row, Attempt
  <2>4. QED
    BY <2>1, <2>2, <2>3
<1>6. KeysLocked'
  <2>1. DimsAt(req'[r].pc) = {}
    BY <1>1 DEF DimsAt
  <2>2. QED
    BY <1>1, <2>1 DEF KeysLocked
<1>7. AttemptsSound'
  BY <1>1, OthersStaySound DEF AttemptsSound, Sound
<1>8. QED
  BY <1>2, <1>3, <1>4, <1>5, <1>6, <1>7 DEF RateInv

-----------------------------------------------------------------------------
(* The theorems *)

LEMMA RateInvInit == Init => RateInv
<1> SUFFICES ASSUME Init
             PROVE  RateInv
  OBVIOUS
<1>1. \A r \in Requests : req[r] = Free /\ req[r].pc = "free"
  BY DEF Init, Free
<1>2. TypeOK
  BY DEF Init, TypeOK
<1>3. DimsAt("free") = {}
  BY DEF DimsAt
<1>4. KeysLocked /\ AttemptsSound
  BY <1>1, <1>3 DEF KeysLocked, AttemptsSound
<1>5. RowsNumbered /\ Swept /\ EmailCeiling /\ IPCeiling
  BY FS_EmptySet DEF Init, RowsNumbered, Swept, EmailCeiling, IPCeiling
<1>6. QED
  BY <1>2, <1>4, <1>5 DEF RateInv

LEMMA RateInvStep == RateInv /\ [Next]_vars => RateInv'
<1> SUFFICES ASSUME RateInv, [Next]_vars
             PROVE  RateInv'
  OBVIOUS
<1>1. ASSUME UNCHANGED vars
      PROVE  RateInv'
  BY <1>1 DEF vars, RateInv, TypeOK, KeysLocked, RowsNumbered, Swept, AttemptsSound, Sound,
       EmailCeiling, IPCeiling, Earlier
<1>2. QED
  BY <1>1, BeginStep, OpenStep, LockStep, CountStep, InsertStep, AbortStep, TickStep
     DEF Next, Progress

LEMMA RateInvHolds == Spec => []RateInv
BY RateInvInit, RateInvStep, PTL DEF Spec

(* The rows of password_reset_requests and the attempts keep their types.  *)
THEOREM RateTypeCorrect == Spec => []TypeOK
<1>1. RateInv => TypeOK
  BY DEF RateInv
<1>2. QED
  BY <1>1, RateInvHolds, PTL

(* Whatever number of attempts for one email begin, wait for its advisory  *)
(* lock and commit at once, and whatever rows the clean-ups of attempts    *)
(* for other keys delete meanwhile, an attempt that sends a mail had fewer *)
(* than the limit before it in the window that ended when it committed:    *)
(* every row ever recorded counts, whether it is still in the table or not.*)
THEOREM EmailsLimited == Spec => []EmailCeiling
<1>1. RateInv => EmailCeiling
  BY DEF RateInv
<1>2. QED
  BY <1>1, RateInvHolds, PTL

(* The same per IP address, rows that were cleaned up included: the second *)
(* count is made under the second lock and a snapshot of its own.          *)
THEOREM IPsLimited == Spec => []IPCeiling
<1>1. RateInv => IPCeiling
  BY DEF RateInv
<1>2. QED
  BY <1>1, RateInvHolds, PTL

-----------------------------------------------------------------------------
(* Deadlocks *)

(* r waits for the advisory lock that q has. *)
WaitsFor(r, q) ==
  \E i \in {1, 2} :
    /\ At(r, IF i = 1 THEN "lock1" ELSE "lock2")
    /\ LockOrder(r)[i] \in Holds(q)
    /\ req[q].key[LockOrder(r)[i]] = req[r].key[LockOrder(r)[i]]

(* No attempts wait only for each other. *)
NeverDeadlocked ==
  \A A \in SUBSET Requests : A # {} => \E r \in A : \A q \in A \ {r} : ~WaitsFor(r, q)

(* WaitsFor is what keeps an attempt from locking. *)
LEMMA WaitsMeans ==
  \A r \in Requests :
    (At(r, "lock1") /\ LockedByOther(r, LockOrder(r)[1]))
      \/ (At(r, "lock2") /\ LockedByOther(r, LockOrder(r)[2]))
    <=> \E q \in Requests \ {r} : WaitsFor(r, q)
BY DEF WaitsFor, LockedByOther, At

(* Both locks are taken in one order, so that attempts which share an      *)
(* email, an IP address, or one with each of two others "can never         *)
(* deadlock" (queries.sql): of any attempts there is one that waits for    *)
(* none of the others.                                                     *)
THEOREM AttemptsNeverDeadlock == Spec => []NeverDeadlocked
<1>1. NeverDeadlocked
  <2> SUFFICES ASSUME NEW A \in SUBSET Requests,
                      \A r \in A : \E q \in A \ {r} : WaitsFor(r, q)
               PROVE  A = {}
    BY DEF NeverDeadlocked
  <2>1. \A r \in A : req[r].pc \in {"lock1", "lock2"}
    BY DEF WaitsFor, At
  <2>2. ASSUME NEW r \in A, At(r, "lock2")
        PROVE  FALSE
    <3>1. PICK q \in A : "ip" \in Holds(q)
      BY <2>2 DEF WaitsFor, At, LockOrder
    <3>2. req[q].pc \in {"count", "count_ip", "insert"}
      BY <3>1, HoldsDims DEF DimsAt, Dims
    <3>3. QED
      BY <2>1, <3>2
  <2>3. ASSUME NEW r \in A, At(r, "lock1")
        PROVE  FALSE
    <3>1. PICK q \in A : "email" \in Holds(q)
      BY <2>3 DEF WaitsFor, At, LockOrder
    <3>2. req[q].pc \in {"lock2", "count", "count_ip", "insert"}
      BY <3>1, HoldsDims DEF DimsAt, Dims
    <3>3. QED
      BY <2>1, <2>2, <3>2 DEF At
  <2>4. QED
    BY <2>1, <2>2, <2>3 DEF At
<1>2. QED
  BY <1>1, PTL

=============================================================================
