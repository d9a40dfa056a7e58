------------------------- MODULE PasswordResetProofs -------------------------
(***************************************************************************)
(* Safety of PasswordReset for every number of Employees, requests and     *)
(* tokens.                                                                 *)
(***************************************************************************)
EXTENDS PasswordReset, TLAPS

-----------------------------------------------------------------------------
(* The inductive invariant *)

(* A request is about an Employee, and redeems or mails an inserted token. *)
RequestsNamed ==
  \A r \in Requests :
    /\ req[r].pc \in Steps \ {"claim"} => req[r].who \in Employees
    /\ req[r].pc \in {"mail", "claim", "set"} => req[r].token \in 1 .. last

(* An issuance holds its Employee's mutex as long as its transaction. *)
MutexHeld ==
  \A r \in Requests : req[r].pc \in {"invalidate", "insert"} => mutex[req[r].who] = r

(* What the row locks protect: an issuance has all its Employee's tokens   *)
(* that work, a redemption its own, which still does.                      *)
LocksCover ==
  \A r \in Requests :
    /\ req[r].pc \notin {"insert", "set"} => req[r].holds = {}
    /\ req[r].holds \subseteq 1 .. last
    /\ req[r].pc = "insert" =>
         \A t \in tokens : t.id \in req[r].holds <=> t.employee = req[r].who /\ ~t.used
    /\ req[r].pc = "set" =>
         /\ req[r].holds = {req[r].token}
         /\ \E t \in tokens : t.id = req[r].token /\ t.employee = req[r].who /\ ~t.used

(* A row is locked once. *)
LocksExclusive ==
  \A r, q \in Requests : r # q => req[r].holds \cap req[q].holds = {}

(* Of an Employee's tokens, all but the newest are used. *)
TokensInOrder ==
  /\ \A t \in tokens : t.id \in 1 .. last /\ (t.id \in completed => t.used)
  /\ \A t, u \in tokens : t.id = u.id => t = u
  /\ \A t, u \in tokens : t.employee = u.employee /\ t.id < u.id => t.used

ResetInv ==
  TypeOK /\ RequestsNamed /\ MutexHeld /\ LocksCover /\ LocksExclusive /\ TokensInOrder

-----------------------------------------------------------------------------
(* What an action makes of its request *)

(* r goes on at pc, all other requests stay where they are. *)
Takes(r, pc, who, token, holds) ==
  /\ req' \in [Requests -> Request]
  /\ \A q \in Requests \ {r} : req'[q] = req[q]
  /\ req'[r].pc = pc
  /\ req'[r].who = who
  /\ req'[r].token = token
  /\ req'[r].holds = holds

Returns(r) == Takes(r, "idle", Nobody, 0, {})

LEMMA IdleRequest ==
  /\ Idle \in Request
  /\ Idle.pc = "idle" /\ Idle.who = Nobody /\ Idle.token = 0 /\ Idle.holds = {}
BY DEF Idle, Request, Steps, InTransaction

LEMMA BecomesTakes ==
  ASSUME TypeOK, NEW r \in Requests, NEW q \in Request, Becomes(r, q)
  PROVE  Takes(r, q.pc, q.who, q.token, q.holds)
BY DEF TypeOK, Becomes, Takes

LEMMA BecomesIdle ==
  ASSUME TypeOK, NEW r \in Requests, Becomes(r, Idle)
  PROVE  Returns(r)
BY BecomesTakes, IdleRequest DEF Returns

LEMMA IssueBeginTakes ==
  ASSUME TypeOK, NEW r \in Requests, NEW e \in Employees, IssueBegin(r, e)
  PROVE  Takes(r, "lock", e, 0, {})
<1> DEFINE q == [Idle EXCEPT !.pc = "lock", !.who = e]
<1>1. q \in Request /\ q.pc = "lock" /\ q.who = e /\ q.token = 0 /\ q.holds = {}
  BY DEF Idle, Request, Steps
<1>2. Becomes(r, q)
  BY DEF IssueBegin
<1> HIDE DEF q
<1>3. QED
  BY <1>1, <1>2, BecomesTakes

LEMMA IssueLockTakes ==
  ASSUME TypeOK, NEW r \in Requests, IssueLock(r)
  PROVE  Takes(r, "invalidate", req[r].who, req[r].token, req[r].holds)
<1> DEFINE q == [req[r] EXCEPT !.pc = "invalidate"]
<1>1. req[r] \in Request
  BY DEF TypeOK
<1>2. /\ q \in Request /\ q.pc = "invalidate" /\ q.who = req[r].who
      /\ q.token = req[r].token /\ q.holds = req[r].holds
  BY <1>1 DEF Request, Steps, InTransaction
<1>3. Becomes(r, q)
  BY DEF IssueLock
<1> HIDE DEF q
<1>4. QED
  BY <1>2, <1>3, BecomesTakes

LEMMA IssueInvalidateTakes ==
  ASSUME TypeOK, NEW r \in Requests, IssueInvalidate(r)
  PROVE  Takes(r, "insert", req[r].who, req[r].token, Ids(Outstanding(req[r].who)))
<1> DEFINE ids == Ids(Outstanding(req[r].who))
           q == [req[r] EXCEPT !.pc = "insert", !.began = now, !.holds = ids]
<1>1. req[r] \in Request /\ now \in Nat
  BY DEF TypeOK
<1>2. ids \subseteq Nat
  BY DEF TypeOK, Token, Ids, Outstanding
<1>3. Becomes(r, q)
  BY DEF IssueInvalidate
<1> HIDE DEF ids
<1>4. /\ q \in Request /\ q.pc = "insert" /\ q.who = req[r].who
      /\ q.token = req[r].token /\ q.holds = ids
  BY <1>1, <1>2 DEF Request, Steps, InTransaction
<1> HIDE DEF q
<1>5. Takes(r, "insert", req[r].who, req[r].token, ids)
  BY <1>3, <1>4, BecomesTakes
<1>6. QED
  BY <1>5 DEF ids

LEMMA IssueInsertTakes ==
  ASSUME TypeOK, RequestsNamed, NEW r \in Requests, IssueInsert(r)
  PROVE  IF req[r].who \in employees
           THEN Takes(r, "mail", req[r].who, last + 1, {})
           ELSE Returns(r)
<1> DEFINE q == [Idle EXCEPT !.pc = "mail", !.who = req[r].who, !.token = last + 1]
<1>1. req[r].who \in Employees /\ last + 1 \in Nat
  BY DEF IssueInsert, At, RequestsNamed, Steps, InTransaction, TypeOK
<1>2. /\ q \in Request /\ q.pc = "mail" /\ q.who = req[r].who
      /\ q.token = last + 1 /\ q.holds = {}
  BY <1>1 DEF Idle, Request, Steps
<1>3. IF req[r].who \in employees THEN Becomes(r, q) ELSE Becomes(r, Idle)
  BY DEF IssueInsert
<1> HIDE DEF q
<1>4. CASE req[r].who \in employees
  BY <1>2, <1>3, <1>4, BecomesTakes
<1>5. CASE req[r].who \notin employees
  BY <1>3, <1>5, BecomesIdle
<1>6. QED
  BY <1>4, <1>5

LEMMA RedeemBeginTakes ==
  ASSUME TypeOK, NEW r \in Requests, NEW t, RedeemBegin(r, t)
  PROVE  Takes(r, "claim", Nobody, t, {}) /\ t \in 1 .. last
<1> DEFINE q == [Idle EXCEPT !.pc = "claim", !.token = t, !.began = now]
<1>1. t \in 1 .. last /\ t \in Nat /\ now \in Nat
  BY DEF RedeemBegin, TypeOK
<1>2. q \in Request /\ q.pc = "claim" /\ q.who = Nobody /\ q.token = t /\ q.holds = {}
  BY <1>1 DEF Idle, Request, Steps, InTransaction
<1>3. Becomes(r, q)
  BY DEF RedeemBegin
<1> HIDE DEF q
<1>4. QED
  BY <1>1, <1>2, <1>3, BecomesTakes

(* The row a redemption has claimed. *)
Claims(r, t) ==
  /\ t \in tokens /\ t.id = req[r].token /\ ~t.used
  /\ Takes(r, "set", t.employee, req[r].token, {req[r].token})

LEMMA RedeemClaimTakes ==
  ASSUME TypeOK, NEW r \in Requests, RedeemClaim(r)
  PROVE  Returns(r) \/ \E t \in tokens : Claims(r, t)
<1>1. CASE Becomes(r, Idle)
  BY <1>1, BecomesIdle
<1>2. ASSUME NEW t \in Redeemable(r),
             Becomes(r, [req[r] EXCEPT !.pc = "set", !.who = t.employee, !.holds = {t.id}])
      PROVE  Claims(r, t)
  <2> DEFINE q == [req[r] EXCEPT !.pc = "set", !.who = t.employee, !.holds = {t.id}]
  <2>1. t \in tokens /\ t.id = req[r].token /\ ~t.used
    BY DEF Redeemable
  <2>2. t.employee \in Employees /\ t.id \in Nat /\ req[r] \in Request
    BY <2>1 DEF TypeOK, Token
  <2>3. /\ q \in Request /\ q.pc = "set" /\ q.who = t.employee
        /\ q.token = req[r].token /\ q.holds = {t.id}
    BY <2>2 DEF Request, Steps, InTransaction
  <2>4. Becomes(r, q)
    BY <1>2
  <2> HIDE DEF q
  <2>5. QED
    BY <2>1, <2>3, <2>4, BecomesTakes DEF Claims
<1>3. QED
  BY <1>1, <1>2 DEF RedeemClaim, Redeemable

LEMMA DeleteLockTakes ==
  ASSUME TypeOK, NEW r \in Requests, NEW e \in Employees, DeleteLock(r, e)
  PROVE  Takes(r, "cascade", e, 0, {})
<1> DEFINE q == [Idle EXCEPT !.pc = "cascade", !.who = e]
<1>1. q \in Request /\ q.pc = "cascade" /\ q.who = e /\ q.token = 0 /\ q.holds = {}
  BY DEF Idle, Request, Steps, InTransaction
<1>2. Becomes(r, q)
  BY DEF DeleteLock
<1> HIDE DEF q
<1>3. QED
  BY <1>1, <1>2, BecomesTakes

(* Where a handler returns. *)
LEMMA ReturnsToCaller ==
  ASSUME TypeOK, NEW r \in Requests,
         \/ IssueMail(r) \/ RedeemCommit(r) \/ DeleteCommit(r)
         \/ DeadlockVictim(r) \/ Abort(r)
  PROVE  Returns(r)
BY BecomesIdle DEF IssueMail, RedeemCommit, DeleteCommit, DeadlockVictim, Abort, RollBack

-----------------------------------------------------------------------------
(* Types, the requests' names and the mutex *)

LEMMA UnlockType ==
  ASSUME TypeOK, NEW r \in Requests, Unlock(r)
  PROVE  /\ mutex' \in [Employees -> Requests \cup {Nobody}]
         /\ \A e \in Employees : mutex[e] # r => mutex'[e] = mutex[e]
BY DEF TypeOK, Unlock

LEMMA SpentType ==
  ASSUME TypeOK, NEW ids
  PROVE  Spent(ids) \subseteq Token
<1>1. ASSUME NEW t \in Token
      PROVE  [t EXCEPT !.used = TRUE] \in Token
  BY DEF Token
<1>2. QED
  BY <1>1 DEF TypeOK, Spent

LEMMA NewTokenType ==
  ASSUME TypeOK, NEW r \in Requests, req[r].who \in Employees
  PROVE  NewToken(r) \in Token
<1>1. last + 1 \in Nat \ {0} /\ req[r].began + TokenTTL \in Nat
  BY TTLAssumption DEF TypeOK, Request
<1>2. QED
  BY <1>1 DEF NewToken, Token

(* The tables, the clock and the counter. *)
DataTypeOK ==
  /\ now \in Nat
  /\ employees \subseteq Employees
  /\ isActive \in [Employees -> BOOLEAN]
  /\ tokens \subseteq Token
  /\ last \in Nat
  /\ mailed \subseteq 1 .. last
  /\ completed \subseteq 1 .. last

LEMMA TypeParts ==
  TypeOK <=> /\ DataTypeOK
             /\ mutex \in [Employees -> Requests \cup {Nobody}]
             /\ req \in [Requests -> Request]
BY DEF TypeOK, DataTypeOK

LEMMA DataTypeStep ==
  ASSUME TypeOK, RequestsNamed, [Next]_vars
  PROVE  DataTypeOK' /\ last <= last'
<1>1. ASSUME NEW r \in Requests, IssueInsert(r)
      PROVE  DataTypeOK' /\ last <= last'
  <2>1. req[r].who \in Employees
    BY <1>1 DEF IssueInsert, At, RequestsNamed, Steps, InTransaction
  <2>2. tokens' \subseteq Token
    BY <1>1, <2>1, SpentType, NewTokenType DEF IssueInsert, TypeOK
  <2>3. last' \in Nat /\ last <= last'
    BY <1>1 DEF IssueInsert, TypeOK
  <2>4. QED
    BY <1>1, <2>2, <2>3 DEF IssueInsert, TypeOK, DataTypeOK
<1>2. ASSUME NEW r \in Requests, IssueMail(r)
      PROVE  DataTypeOK' /\ last <= last'
  <2>1. req[r].token \in 1 .. last
    BY <1>2 DEF IssueMail, At, RequestsNamed
  <2>2. mailed' \subseteq 1 .. last
    BY <1>2, <2>1 DEF IssueMail, TypeOK
  <2>3. QED
    BY <1>2, <2>2 DEF IssueMail, TypeOK, DataTypeOK
<1>3. ASSUME NEW r \in Requests, RedeemCommit(r)
      PROVE  DataTypeOK' /\ last <= last'
  <2>1. req[r].token \in 1 .. last
    BY <1>3 DEF RedeemCommit, At, RequestsNamed
  <2>2. tokens' \subseteq Token
    BY <1>3, SpentType DEF RedeemCommit
  <2>3. completed' \subseteq 1 .. last /\ last' = last
    BY <1>3, <2>1 DEF RedeemCommit, TypeOK
  <2>4. QED
    BY <1>3, <2>2, <2>3 DEF RedeemCommit, TypeOK, DataTypeOK
<1>4. ASSUME NEW r \in Requests, DeleteCommit(r)
      PROVE  DataTypeOK' /\ last <= last'
  BY <1>4 DEF DeleteCommit, TypeOK, DataTypeOK
<1>5. ASSUME NEW e \in Employees, NEW b \in BOOLEAN, SetEmployeeActive(e, b)
      PROVE  DataTypeOK' /\ last <= last'
  BY <1>5 DEF SetEmployeeActive, TypeOK, DataTypeOK
<1>6. CASE Tick
  BY <1>6 DEF Tick, TypeOK, DataTypeOK
<1>7. CASE UNCHANGED <<now, employees, isActive, tokens, last, mailed, completed>>
  BY <1>7 DEF TypeOK, DataTypeOK
<1>8. QED
  BY <1>1, <1>2, <1>3, <1>4, <1>5, <1>6, <1>7
     DEF Next, Progress, vars, IssueBegin, DeleteLock, RedeemBegin, IssueLock,
         IssueInvalidate, RedeemClaim, DeadlockVictim, Abort, Crash

LEMMA CrashIdles ==
  ASSUME Crash
  PROVE  /\ req' = [r \in Requests |-> Idle]
         /\ mutex' = [e \in Employees |-> Nobody]
BY DEF Crash

(* Which requests move, and how. *)
LEMMA RequestStep ==
  ASSUME TypeOK, RequestsNamed, [Next]_vars
  PROVE  \/ \E r \in Requests, e \in Employees :
              \/ IssueBegin(r, e) /\ Takes(r, "lock", e, 0, {})
              \/ DeleteLock(r, e) /\ Takes(r, "cascade", e, 0, {})
         \/ \E r \in Requests, t \in 1 .. last :
              RedeemBegin(r, t) /\ Takes(r, "claim", Nobody, t, {})
         \/ \E r \in Requests :
              \/ /\ IssueLock(r)
                 /\ Takes(r, "invalidate", req[r].who, req[r].token, req[r].holds)
              \/ /\ IssueInvalidate(r)
                 /\ Takes(r, "insert", req[r].who, req[r].token, Ids(Outstanding(req[r].who)))
              \/ /\ IssueInsert(r) /\ req[r].who \in employees
                 /\ Takes(r, "mail", req[r].who, last + 1, {})
              \/ IssueInsert(r) /\ req[r].who \notin employees /\ Returns(r)
              \/ RedeemClaim(r) /\ \E t \in tokens : Claims(r, t)
              \/ RedeemClaim(r) /\ Returns(r)
              \/ IssueMail(r) /\ Returns(r)
              \/ RedeemCommit(r) /\ Returns(r)
              \/ DeleteCommit(r) /\ Returns(r)
              \/ DeadlockVictim(r) /\ Returns(r)
              \/ Abort(r) /\ Returns(r)
         \/ Crash
         \/ Tick
         \/ \E e \in Employees, b \in BOOLEAN : SetEmployeeActive(e, b)
         \/ UNCHANGED vars
<1>1. ASSUME NEW r \in Requests, IssueInsert(r)
      PROVE  \/ req[r].who \in employees /\ Takes(r, "mail", req[r].who, last + 1, {})
             \/ req[r].who \notin employees /\ Returns(r)
  BY <1>1, IssueInsertTakes
<1>2. QED
  BY <1>1, IssueBeginTakes, DeleteLockTakes, RedeemBeginTakes, IssueLockTakes,
     IssueInvalidateTakes, RedeemClaimTakes, ReturnsToCaller, ZenonT(60)
     DEF Next, Progress

LEMMA TypeStep ==
  ASSUME TypeOK, RequestsNamed, [Next]_vars
  PROVE  TypeOK'
<1>1. DataTypeOK'
  BY DataTypeStep
<1>2. req' \in [Requests -> Request]
  BY RequestStep, IdleRequest, CrashIdles
     DEF Takes, Returns, Claims, Tick, SetEmployeeActive, vars, TypeOK
<1>3. ASSUME NEW r \in Requests, IssueLock(r)
      PROVE  mutex' \in [Employees -> Requests \cup {Nobody}]
  BY <1>3 DEF IssueLock, TypeOK
<1>4. mutex' \in [Employees -> Requests \cup {Nobody}]
  BY <1>3, UnlockType, CrashIdles
     DEF Next, Progress, TypeOK, IssueBegin, DeleteLock, RedeemBegin, IssueInvalidate,
         IssueInsert, IssueMail, RedeemClaim, RedeemCommit, DeleteCommit, DeadlockVictim,
         Abort, RollBack, Tick, SetEmployeeActive, vars
<1>5. QED
  BY <1>1, <1>2, <1>4 DEF TypeOK, DataTypeOK

LEMMA NamedStep ==
  ASSUME TypeOK, RequestsNamed, [Next]_vars
  PROVE  RequestsNamed'
<1> DEFINE OK(q) == /\ req'[q].pc \in Steps \ {"claim"} => req'[q].who \in Employees
                    /\ req'[q].pc \in {"mail", "claim", "set"} => req'[q].token \in 1 .. last'
<1>1. last \in Nat /\ last' \in Nat /\ last <= last'
  BY DataTypeStep DEF TypeOK, DataTypeOK
<1>2. ASSUME NEW q \in Requests, req'[q] = req[q]
      PROVE  OK(q)
  BY <1>1, <1>2 DEF RequestsNamed
<1>3. ASSUME NEW r \in Requests, Returns(r)
      PROVE  OK(r)
  BY <1>3 DEF Returns, Takes, Steps, InTransaction
<1>4. ASSUME NEW r \in Requests, NEW e \in Employees,
             Takes(r, "lock", e, 0, {}) \/ Takes(r, "cascade", e, 0, {})
      PROVE  OK(r)
  BY <1>4 DEF Takes
<1>5. ASSUME NEW r \in Requests, NEW t \in 1 .. last, Takes(r, "claim", Nobody, t, {})
      PROVE  OK(r)
  BY <1>1, <1>5 DEF Takes
<1>6. ASSUME NEW r \in Requests, NEW ids, req[r].pc \in {"lock", "invalidate"},
             \/ Takes(r, "invalidate", req[r].who, req[r].token, ids)
             \/ Takes(r, "insert", req[r].who, req[r].token, ids)
      PROVE  OK(r)
  BY <1>6 DEF Takes, RequestsNamed, Steps, InTransaction
<1>7. ASSUME NEW r \in Requests, IssueInsert(r), req[r].who \in employees,
             Takes(r, "mail", req[r].who, last + 1, {})
      PROVE  OK(r)
  BY <1>1, <1>7 DEF Takes, IssueInsert, TypeOK
<1>8. ASSUME NEW r \in Requests, RedeemClaim(r), NEW t \in tokens, Claims(r, t)
      PROVE  OK(r)
  <2>1. t.employee \in Employees /\ req[r].token \in 1 .. last
    BY <1>8 DEF TypeOK, Token, RedeemClaim, At, RequestsNamed
  <2>2. QED
    BY <1>1, <1>8, <2>1 DEF Claims, Takes
<1>9. CASE Crash
  BY <1>9, CrashIdles, IdleRequest DEF RequestsNamed, Steps, InTransaction
<1> HIDE DEF OK
<1>10. CASE \E r \in Requests : OK(r) /\ \A q \in Requests \ {r} : req'[q] = req[q]
  <2>1. \A q \in Requests : OK(q)
    BY <1>2, <1>10
  <2>2. QED
    BY <2>1 DEF OK, RequestsNamed
<1>11. CASE req' = req
  <2>1. \A q \in Requests : OK(q)
    BY <1>2, <1>11
  <2>2. QED
    BY <2>1 DEF OK, RequestsNamed
<1>12. CASE \E r \in Requests : Returns(r) 
  BY <1>3, <1>10, <1>12 DEF Returns, Takes
<1>13. CASE \E r \in Requests, e \in Employees :
              Takes(r, "lock", e, 0, {}) \/ Takes(r, "cascade", e, 0, {})
  BY <1>4, <1>10, <1>13 DEF Takes
<1>14. CASE \E r \in Requests, t \in 1 .. last : Takes(r, "claim", Nobody, t, {})
  BY <1>5, <1>10, <1>14 DEF Takes
<1>15. ASSUME NEW r \in Requests,
              IssueLock(r) \/ IssueInvalidate(r) \/ IssueInsert(r) \/ RedeemClaim(r)
       PROVE  OK(r) /\ \A q \in Requests \ {r} : req'[q] = req[q]
  <2>1. CASE IssueLock(r)
    <3>1. req[r].pc \in {"lock", "invalidate"}
      BY <2>1 DEF IssueLock, At
    <3>2. Takes(r, "invalidate", req[r].who, req[r].token, req[r].holds)
      BY <2>1, IssueLockTakes
    <3>3. OK(r)
      BY <3>1, <3>2, <1>6
    <3>4. QED
      BY <3>2, <3>3 DEF Takes
  <2>2. CASE IssueInvalidate(r)
    <3>1. req[r].pc \in {"lock", "invalidate"}
      BY <2>2 DEF IssueInvalidate, At
    <3>2. Takes(r, "insert", req[r].who, req[r].token, Ids(Outstanding(req[r].who)))
      BY <2>2, IssueInvalidateTakes
    <3>3. OK(r)
      BY <3>1, <3>2, <1>6
    <3>4. QED
      BY <3>2, <3>3 DEF Takes
  <2>3. CASE IssueInsert(r)
    <3>1. CASE req[r].who \in employees
      <4>1. Takes(r, "mail", req[r].who, last + 1, {})
        BY <2>3, <3>1, IssueInsertTakes
      <4>2. QED
        BY <2>3, <3>1, <4>1, <1>7 DEF Takes
    <3>2. CASE req[r].who \notin employees
      <4>1. Returns(r)
        BY <2>3, <3>2, IssueInsertTakes
      <4>2. QED
        BY <4>1, <1>3 DEF Returns, Takes
    <3>3. QED
      BY <3>1, <3>2
  <2>4. CASE RedeemClaim(r)
    <3>1. CASE Returns(r)
      BY <3>1, <1>3 DEF Returns, Takes
    <3>2. ASSUME NEW t \in tokens, Claims(r, t)
          PROVE  OK(r) /\ \A q \in Requests \ {r} : req'[q] = req[q]
      BY <2>4, <3>2, <1>8 DEF Claims, Takes
    <3>3. QED
      BY <2>4, <3>1, <3>2, RedeemClaimTakes
  <2>5. QED
    BY <1>15, <2>1, <2>2, <2>3, <2>4
<1>16. CASE Tick \/ UNCHANGED vars \/ \E e \in Employees, b \in BOOLEAN : SetEmployeeActive(e, b)
  BY <1>11, <1>16 DEF Tick, vars, SetEmployeeActive
<1>17. QED
  BY <1>9, <1>10, <1>12, <1>13, <1>14, <1>15, <1>16, RequestStep

LEMMA MutexStep ==
  ASSUME TypeOK, RequestsNamed, MutexHeld, [Next]_vars
  PROVE  MutexHeld'
<1> DEFINE OK(q) == req'[q].pc \in {"invalidate", "insert"} => mutex'[req'[q].who] = q
           Holder(q) == req[q].pc \in {"invalidate", "insert"}
                          => req[q].who \in Employees /\ mutex[req[q].who] = q
<1>1. \A q \in Requests : Holder(q)
  BY DEF RequestsNamed, MutexHeld, Steps, InTransaction
<1>2. ASSUME NEW r \in Requests, IssueLock(r)
      PROVE  \A q \in Requests : OK(q)
  <2>1. /\ req[r].who \in Employees /\ mutex[req[r].who] = Nobody
        /\ mutex' = [mutex EXCEPT ![req[r].who] = r]
    BY <1>2 DEF IssueLock, At, RequestsNamed, Steps, InTransaction
  <2>2. Takes(r, "invalidate", req[r].who, req[r].token, req[r].holds)
    BY <1>2, IssueLockTakes
  <2>3. OK(r)
    BY <2>1, <2>2 DEF Takes, TypeOK
  <2>4. ASSUME NEW q \in Requests \ {r}
        PROVE  OK(q)
    <3>1. req'[q] = req[q] /\ Holder(q)
      BY <1>1, <2>2 DEF Takes
    <3>2. QED
      BY <2>1, <3>1, NobodyAssumption DEF TypeOK
  <2>5. QED
    BY <2>3, <2>4
<1>3. ASSUME NEW r \in Requests, Unlock(r) \/ UNCHANGED mutex,
             \A q \in Requests \ {r} : req'[q] = req[q],
             req'[r].pc \notin {"invalidate", "insert"}
      PROVE  \A q \in Requests : OK(q)
  <2>1. \A q \in Requests \ {r} : Holder(q)
    BY <1>1
  <2>2. QED
    BY <1>3, <2>1, UnlockType
<1>4. ASSUME NEW r \in Requests, IssueInvalidate(r)
      PROVE  \A q \in Requests : OK(q)
  <2>1. Takes(r, "insert", req[r].who, req[r].token, Ids(Outstanding(req[r].who)))
    BY <1>4, IssueInvalidateTakes
  <2>2. mutex' = mutex /\ req[r].pc = "invalidate"
    BY <1>4 DEF IssueInvalidate, At
  <2>3. QED
    BY <1>1, <2>1, <2>2 DEF Takes
<1>5. ASSUME UNCHANGED <<req, mutex>>
      PROVE  \A q \in Requests : OK(q)
  BY <1>1, <1>5
<1>6. CASE Crash
  BY <1>6, CrashIdles, IdleRequest DEF MutexHeld
<1> DEFINE Lets(r) == /\ Unlock(r) \/ UNCHANGED mutex
                      /\ \A q \in Requests \ {r} : req'[q] = req[q]
                      /\ req'[r].pc \notin {"invalidate", "insert"}
<1>7. ASSUME NEW r \in Requests, Returns(r), Unlock(r) \/ UNCHANGED mutex
      PROVE  Lets(r)
  BY <1>7 DEF Returns, Takes
<1>8. ASSUME NEW r \in Requests, NEW e \in Employees, IssueBegin(r, e) \/ DeleteLock(r, e)
      PROVE  Lets(r)
  BY <1>8, IssueBeginTakes, DeleteLockTakes DEF Takes, IssueBegin, DeleteLock
<1>9. ASSUME NEW r \in Requests, NEW t \in 1 .. last, RedeemBegin(r, t)
      PROVE  Lets(r)
  BY <1>9, RedeemBeginTakes DEF Takes, RedeemBegin
<1>10. ASSUME NEW r \in Requests, IssueInsert(r)
       PROVE  Lets(r)
  <2>1. Unlock(r)
    BY <1>10 DEF IssueInsert
  <2>2. CASE req[r].who \in employees
    BY <1>10, <2>1, <2>2, IssueInsertTakes DEF Takes
  <2>3. CASE req[r].who \notin employees
    BY <1>10, <1>7, <2>1, <2>3, IssueInsertTakes
  <2>4. QED
    BY <2>2, <2>3
<1>11. ASSUME NEW r \in Requests, RedeemClaim(r)
       PROVE  Lets(r)
  <2>1. UNCHANGED mutex
    BY <1>11 DEF RedeemClaim
  <2>2. ASSUME NEW t, Claims(r, t)
        PROVE  Lets(r)
    BY <2>1, <2>2 DEF Claims, Takes
  <2>3. QED
    BY <1>7, <1>11, <2>1, <2>2, RedeemClaimTakes
<1>12. ASSUME NEW r \in Requests,
              \/ IssueMail(r) \/ RedeemCommit(r) \/ DeleteCommit(r)
              \/ DeadlockVictim(r) \/ Abort(r)
       PROVE  Lets(r)
  <2>1. Unlock(r) \/ UNCHANGED mutex
    BY <1>12 DEF IssueMail, RedeemCommit, DeleteCommit, DeadlockVictim, Abort, RollBack
  <2>2. QED
    BY <1>7, <1>12, <2>1, ReturnsToCaller
<1>13. CASE Tick \/ UNCHANGED vars \/ \E e \in Employees, b \in BOOLEAN : SetEmployeeActive(e, b)
  BY <1>5, <1>13 DEF Tick, vars, SetEmployeeActive, MutexHeld
<1>14. CASE \/ \E r \in Requests : Lets(r) \/ IssueLock(r) \/ IssueInvalidate(r)
  BY <1>2, <1>3, <1>4, <1>14 DEF MutexHeld
<1> HIDE DEF OK, Holder, Lets
<1>15. QED
  BY <1>6, <1>8, <1>9, <1>10, <1>11, <1>12, <1>13, <1>14 DEF Next, Progress

-----------------------------------------------------------------------------
(* The rows and their locks *)

RowsInv == LocksCover /\ LocksExclusive /\ TokensInOrder

(* Nobody locks a row, or writes one. *)
Quiet ==
  /\ UNCHANGED <<tokens, last, completed>>
  /\ \A q \in Requests :
       \/ req'[q] = req[q]
       \/ req'[q].holds = {} /\ req'[q].pc \notin {"insert", "set"}

LEMMA QuietStep ==
  ASSUME RowsInv, Quiet
  PROVE  RowsInv'
<1>1. LocksCover'
  BY DEF RowsInv, LocksCover, Quiet
<1>2. LocksExclusive'
  BY DEF RowsInv, LocksExclusive, Quiet
<1>3. TokensInOrder'
  BY DEF RowsInv, TokensInOrder, Quiet
<1>4. QED
  BY <1>1, <1>2, <1>3 DEF RowsInv

(* The steps that lock or write rows; all others are quiet. *)
Locking(r) ==
  \/ IssueInvalidate(r) /\ Takes(r, "insert", req[r].who, req[r].token, Ids(Outstanding(req[r].who)))
  \/ RedeemClaim(r) /\ \E t \in tokens : Claims(r, t)

Writing(r) ==
  \/ IssueInsert(r) /\ req[r].who \in employees /\ Takes(r, "mail", req[r].who, last + 1, {})
  \/ RedeemCommit(r) /\ Returns(r)
  \/ DeleteCommit(r) /\ Returns(r)

LEMMA StepKinds ==
  ASSUME TypeOK, RequestsNamed, LocksCover, [Next]_vars
  PROVE  Quiet \/ \E r \in Requests : Locking(r) \/ Writing(r)
<1> DEFINE Still == UNCHANGED <<tokens, last, completed>>
<1>0. ASSUME NEW r \in Requests, \A q \in Requests \ {r} : req'[q] = req[q],
             req'[r].holds = {}, req'[r].pc \notin {"insert", "set"}, Still
      PROVE  Quiet
  BY <1>0 DEF Quiet
<1>1. ASSUME NEW r \in Requests, Returns(r), Still
      PROVE  Quiet
  BY <1>0, <1>1 DEF Returns, Takes
<1>2. ASSUME NEW r \in Requests, NEW e \in Employees, IssueBegin(r, e) \/ DeleteLock(r, e)
      PROVE  Quiet
  <2>1. Takes(r, "lock", e, 0, {}) \/ Takes(r, "cascade", e, 0, {})
    BY <1>2, IssueBeginTakes, DeleteLockTakes
  <2>2. Still
    BY <1>2 DEF IssueBegin, DeleteLock
  <2> HIDE DEF Still
  <2>3. CASE Takes(r, "lock", e, 0, {})
    BY <1>0, <2>2, <2>3 DEF Takes
  <2>4. CASE Takes(r, "cascade", e, 0, {})
    BY <1>0, <2>2, <2>4 DEF Takes
  <2>5. QED
    BY <2>1, <2>3, <2>4
<1>3. ASSUME NEW r \in Requests, NEW t \in 1 .. last, RedeemBegin(r, t)
      PROVE  Quiet
  <2>1. Takes(r, "claim", Nobody, t, {})
    BY <1>3, RedeemBeginTakes
  <2>2. Still
    BY <1>3 DEF RedeemBegin
  <2> HIDE DEF Still
  <2>3. QED
    BY <1>0, <2>1, <2>2 DEF Takes
<1>4. ASSUME NEW r \in Requests, IssueLock(r)
      PROVE  Quiet
  <2>1. req[r].holds = {}
    BY <1>4 DEF IssueLock, At, LocksCover
  <2>2. Takes(r, "invalidate", req[r].who, req[r].token, {})
    BY <1>4, <2>1, IssueLockTakes
  <2>3. Still
    BY <1>4 DEF IssueLock
  <2> HIDE DEF Still
  <2>4. QED
    BY <1>0, <2>2, <2>3 DEF Takes
<1>5. ASSUME NEW r \in Requests, IssueInsert(r)
      PROVE  Quiet \/ Writing(r)
  BY <1>1, <1>5, IssueInsertTakes DEF IssueInsert, Writing
<1>6. ASSUME NEW r \in Requests, RedeemClaim(r)
      PROVE  Quiet \/ Locking(r)
  BY <1>1, <1>6, RedeemClaimTakes DEF RedeemClaim, Locking
<1>7. ASSUME NEW r \in Requests, IssueMail(r) \/ DeadlockVictim(r) \/ Abort(r)
      PROVE  Quiet
  <2>1. Returns(r)
    BY <1>7, ReturnsToCaller
  <2>2. QED
    BY <1>1, <1>7, <2>1 DEF IssueMail, DeadlockVictim, Abort
<1>8. ASSUME NEW r \in Requests, IssueInvalidate(r) \/ RedeemCommit(r) \/ DeleteCommit(r)
      PROVE  Locking(r) \/ Writing(r)
  BY <1>8, IssueInvalidateTakes, ReturnsToCaller DEF Locking, Writing
<1>9. CASE Crash
  BY <1>9, CrashIdles, IdleRequest DEF Crash, Quiet
<1>10. CASE Tick \/ UNCHANGED vars \/ \E e \in Employees, b \in BOOLEAN : SetEmployeeActive(e, b)
  BY <1>10 DEF Tick, vars, SetEmployeeActive, Quiet
<1>11. \A r \in Requests : Progress(r) => Quiet \/ Locking(r) \/ Writing(r)
  BY <1>4, <1>5, <1>6, <1>7, <1>8 DEF Progress
<1> HIDE DEF Quiet, Locking, Writing
<1>12. CASE \E r \in Requests :
              \/ \E e \in Employees : IssueBegin(r, e) \/ DeleteLock(r, e)
              \/ \E t \in 1 .. last : RedeemBegin(r, t)
              \/ DeadlockVictim(r)
              \/ Abort(r)
  BY <1>2, <1>3, <1>7, <1>12
<1>13. QED
  BY <1>9, <1>10, <1>11, <1>12, Zenon DEF Next

(* The locks that a step adds cover what the invariant asks for, and are   *)
(* nobody else's.                                                          *)
LEMMA LockingStep ==
  ASSUME TypeOK, RowsInv, NEW r \in Requests, Locking(r)
  PROVE  RowsInv'
<1>1. UNCHANGED <<tokens, last, completed>>
  BY DEF Locking, IssueInvalidate, RedeemClaim
<1>2. ~LockedByOther(r, req'[r].holds)
  <2>1. CASE IssueInvalidate(r) /\ Takes(r, "insert", req[r].who, req[r].token,
                                         Ids(Outstanding(req[r].who)))
    BY <2>1 DEF IssueInvalidate, Takes
  <2>2. CASE RedeemClaim(r) /\ \E t \in tokens : Claims(r, t)
    BY <2>2 DEF RedeemClaim, Claims, Takes
  <2>3. QED
    BY <2>1, <2>2 DEF Locking
<1>3. \A q \in Requests \ {r} : req'[q] = req[q]
  BY DEF Locking, Claims, Takes
<1>4. LocksExclusive'
  BY <1>2, <1>3 DEF RowsInv, LocksExclusive, LockedByOther
<1> DEFINE Covers(q) ==
      /\ req'[q].pc \notin {"insert", "set"} => req'[q].holds = {}
      /\ req'[q].holds \subseteq 1 .. last
      /\ req'[q].pc = "insert" =>
           \A t \in tokens : t.id \in req'[q].holds <=> t.employee = req'[q].who /\ ~t.used
      /\ req'[q].pc = "set" =>
           /\ req'[q].holds = {req'[q].token}
           /\ \E t \in tokens : t.id = req'[q].token /\ t.employee = req'[q].who /\ ~t.used
<1>5. ASSUME IssueInvalidate(r),
             Takes(r, "insert", req[r].who, req[r].token, Ids(Outstanding(req[r].who)))
      PROVE  Covers(r)
  <2>1. \A t \in tokens :
          t.id \in Ids(Outstanding(req[r].who)) <=> t.employee = req[r].who /\ ~t.used
    BY DEF Ids, Outstanding, RowsInv, TokensInOrder
  <2>2. Ids(Outstanding(req[r].who)) \subseteq 1 .. last
    BY DEF Ids, Outstanding, RowsInv, TokensInOrder
  <2>3. QED
    BY <1>5, <2>1, <2>2 DEF Takes
<1>6. ASSUME NEW t \in tokens, Claims(r, t)
      PROVE  Covers(r)
  BY <1>6 DEF Claims, Takes, RowsInv, TokensInOrder
<1>7. Covers(r)
  BY <1>5, <1>6 DEF Locking
<1>8. \A q \in Requests \ {r} : Covers(q)
  BY <1>3 DEF RowsInv, LocksCover
<1>9. LocksCover'
  BY <1>1, <1>7, <1>8 DEF LocksCover
<1>10. TokensInOrder'
  BY <1>1 DEF RowsInv, TokensInOrder
<1>11. QED
  BY <1>4, <1>9, <1>10 DEF RowsInv

(* A row of Spent(ids) and the one it comes from. *)
ComesFrom(u, t, ids) ==
  /\ u.id = t.id
  /\ u.employee = t.employee
  /\ u.used <=> t.used \/ t.id \in ids

LEMMA SpentRows ==
  ASSUME TypeOK, RowsInv, NEW ids
  PROVE  /\ \A u \in Spent(ids) : \E t \in tokens : ComesFrom(u, t, ids)
         /\ \A t \in tokens : \E u \in Spent(ids) : ComesFrom(u, t, ids)
         /\ \A u, v \in Spent(ids) : u.id = v.id => u = v
<1> DEFINE f(t) == IF t.id \in ids THEN [t EXCEPT !.used = TRUE] ELSE t
<1>1. ASSUME NEW t \in tokens
      PROVE  ComesFrom(f(t), t, ids)
  BY DEF TypeOK, Token, ComesFrom
<1>2. Spent(ids) = {f(t) : t \in tokens}
  BY DEF Spent
<1>3. \A t, u \in tokens : t.id = u.id => t = u
  BY DEF RowsInv, TokensInOrder
<1> HIDE DEF f
<1>4. ASSUME NEW u \in Spent(ids), NEW v \in Spent(ids), u.id = v.id
      PROVE  u = v
  <2>1. PICK t \in tokens : u = f(t)
    BY <1>2
  <2>2. PICK s \in tokens : v = f(s)
    BY <1>2
  <2>3. t.id = s.id
    BY <1>1, <1>4, <2>1, <2>2 DEF ComesFrom
  <2>4. QED
    BY <1>3, <2>1, <2>2, <2>3
<1>5. QED
  BY <1>1, <1>2, <1>4

(* What becomes of the others' locks when r gives up its own, having spent *)
(* or deleted some rows that they have not locked.                         *)
LEMMA OthersCovered ==
  ASSUME TypeOK, RowsInv, NEW r \in Requests,
         \A q \in Requests \ {r} : req'[q] = req[q],
         req'[r].holds = {}, req'[r].pc \notin {"insert", "set"},
         last \in Nat, last' \in Nat, last <= last',
         \A q \in Requests \ {r} :
           /\ req[q].pc = "insert" =>
                \A u \in tokens' : \/ \E t \in tokens : ComesFrom(u, t, {})
                                   \/ u.id \notin req[q].holds /\ (u.employee # req[q].who \/ u.used)
           /\ req[q].pc = "set" =>
                \A t \in tokens : t.id = req[q].token => \E u \in tokens' : ComesFrom(u, t, {})
  PROVE  LocksCover' /\ LocksExclusive'
<1>1. LocksExclusive'
  BY DEF RowsInv, LocksExclusive
<1> DEFINE Covers(q) ==
      /\ req'[q].pc \notin {"insert", "set"} => req'[q].holds = {}
      /\ req'[q].holds \subseteq 1 .. last'
      /\ req'[q].pc = "insert" =>
           \A t \in tokens' : t.id \in req'[q].holds <=> t.employee = req'[q].who /\ ~t.used
      /\ req'[q].pc = "set" =>
           /\ req'[q].holds = {req'[q].token}
           /\ \E t \in tokens' : t.id = req'[q].token /\ t.employee = req'[q].who /\ ~t.used
<1>2. Covers(r)
  OBVIOUS
<1>3. ASSUME NEW q \in Requests \ {r}
      PROVE  Covers(q)
  <2>1. req'[q] = req[q]
    BY <1>3
  <2>2. req[q].holds \subseteq 1 .. last'
    BY DEF RowsInv, LocksCover
  <2>3. ASSUME req[q].pc = "insert", NEW u \in tokens'
        PROVE  u.id \in req[q].holds <=> u.employee = req[q].who /\ ~u.used
    <3>1. CASE \E t \in tokens : ComesFrom(u, t, {})
      BY <2>3, <3>1 DEF ComesFrom, RowsInv, LocksCover
    <3>2. QED
      BY <1>3, <2>3, <3>1
  <2>4. ASSUME req[q].pc = "set"
        PROVE  \E u \in tokens' : u.id = req[q].token /\ u.employee = req[q].who /\ ~u.used
    <3>1. PICK t \in tokens : t.id = req[q].token /\ t.employee = req[q].who /\ ~t.used
      BY <2>4 DEF RowsInv, LocksCover
    <3>2. PICK u \in tokens' : ComesFrom(u, t, {})
      BY <1>3, <2>4, <3>1
    <3>3. QED
      BY <3>1, <3>2 DEF ComesFrom
  <2>5. QED
    BY <2>1, <2>2, <2>3, <2>4 DEF RowsInv, LocksCover
<1>4. LocksCover'
  <2>1. \A q \in Requests : Covers(q)
    BY <1>2, <1>3
  <2>2. QED
    BY <2>1 DEF LocksCover
<1>5. QED
  BY <1>1, <1>4

(* What r has locked, it may spend. *)
LEMMA SpentUnlocked ==
  ASSUME TypeOK, RowsInv, NEW r \in Requests, NEW q \in Requests \ {r}
  PROVE  /\ \A u \in Spent(req[r].holds) :
              \/ \E t \in tokens : ComesFrom(u, t, {})
              \/ u.id \notin req[q].holds /\ u.used
         /\ \A t \in tokens : t.id \in req[q].holds =>
              \E u \in Spent(req[r].holds) : ComesFrom(u, t, {})
<1>1. req[r].holds \cap req[q].holds = {}
  BY DEF RowsInv, LocksExclusive
<1>2. /\ \A u \in Spent(req[r].holds) : \E t \in tokens : ComesFrom(u, t, req[r].holds)
      /\ \A t \in tokens : \E u \in Spent(req[r].holds) : ComesFrom(u, t, req[r].holds)
  BY SpentRows
<1>3. QED
  BY <1>1, <1>2 DEF ComesFrom

LEMMA IssueInsertStep ==
  ASSUME ResetInv, NEW r \in Requests, IssueInsert(r), req[r].who \in employees,
         Takes(r, "mail", req[r].who, last + 1, {})
  PROVE  RowsInv'
<1> DEFINE new == NewToken(r)
           old == Spent(req[r].holds)
<1> TypeOK /\ RowsInv
  BY DEF ResetInv, RowsInv
<1>1. /\ tokens' = old \cup {new}
      /\ last' = last + 1
      /\ completed' = completed
      /\ last \in Nat
      /\ completed \subseteq 1 .. last
      /\ req[r].pc = "insert"
  BY DEF IssueInsert, At, TypeOK
<1>2. new.id = last + 1 /\ new.employee = req[r].who /\ ~new.used
  BY DEF NewToken
<1>3. \A t \in tokens : /\ t.id \in 1 .. last
                        /\ t.id \in completed => t.used
                        /\ t.id \in req[r].holds <=> t.employee = req[r].who /\ ~t.used
  BY <1>1 DEF RowsInv, TokensInOrder, LocksCover
<1>4. \A u \in old : \E t \in tokens : ComesFrom(u, t, req[r].holds)
  BY SpentRows
<1>5. \A u \in old : /\ u.id \in 1 .. last
                     /\ u.id \in completed => u.used
                     /\ u.employee = req[r].who => u.used
  BY <1>3, <1>4 DEF ComesFrom
<1> HIDE DEF new, old
<1>6. ASSUME NEW u \in old, NEW v \in old, u.employee = v.employee, u.id < v.id
      PROVE  u.used
  BY <1>4, <1>6 DEF ComesFrom, RowsInv, TokensInOrder
<1>7. \A u, v \in old : u.id = v.id => u = v
  BY SpentRows DEF old
<1>8. TokensInOrder'
  <2>1. \A u \in tokens' : u.id \in 1 .. last' /\ (u.id \in completed' => u.used)
    BY <1>1, <1>2, <1>5
  <2>2. \A u, v \in tokens' : u.id = v.id => u = v
    BY <1>1, <1>2, <1>5, <1>7
  <2>3. \A u, v \in tokens' : u.employee = v.employee /\ u.id < v.id => u.used
    BY <1>1, <1>2, <1>5, <1>6
  <2>4. QED
    BY <2>1, <2>2, <2>3 DEF TokensInOrder
<1>9. LocksCover' /\ LocksExclusive'
  <2>1. ASSUME NEW q \in Requests \ {r}
        PROVE  /\ req[q].pc = "insert" =>
                    \A u \in tokens' :
                      \/ \E t \in tokens : ComesFrom(u, t, {})
                      \/ u.id \notin req[q].holds /\ (u.employee # req[q].who \/ u.used)
               /\ req[q].pc = "set" =>
                    \A t \in tokens :
                      t.id = req[q].token => \E u \in tokens' : ComesFrom(u, t, {})
    <3>1. req[q].holds \subseteq 1 .. last
      BY DEF RowsInv, LocksCover
    <3>2. req[q].pc = "insert" => req[q].who # req[r].who
      BY <1>1 DEF ResetInv, MutexHeld
    <3>3. new.id \notin req[q].holds
      BY <1>1, <1>2, <3>1
    <3>4. req[q].pc = "set" => req[q].token \in req[q].holds
      BY DEF RowsInv, LocksCover
    <3>5. /\ \A u \in old : \/ \E t \in tokens : ComesFrom(u, t, {})
                            \/ u.id \notin req[q].holds /\ u.used
          /\ \A t \in tokens : t.id \in req[q].holds => \E u \in old : ComesFrom(u, t, {})
      BY SpentUnlocked DEF old
    <3>6. QED
      BY <1>1, <1>2, <3>2, <3>3, <3>4, <3>5
  <2>2. last' \in Nat /\ last <= last'
    BY <1>1
  <2>3. /\ \A q \in Requests \ {r} : req'[q] = req[q]
        /\ req'[r].holds = {}
        /\ req'[r].pc \notin {"insert", "set"}
    BY DEF Takes
  <2>4. QED
    BY <1>1, <2>1, <2>2, <2>3, OthersCovered
<1>10. QED
  BY <1>8, <1>9 DEF RowsInv

LEMMA RedeemCommitStep ==
  ASSUME TypeOK, RowsInv, NEW r \in Requests, RedeemCommit(r), Returns(r)
  PROVE  RowsInv'
<1> DEFINE old == Spent(req[r].holds)
<1>1. /\ tokens' = old
      /\ last' = last
      /\ completed' = completed \cup {req[r].token}
      /\ last \in Nat
      /\ req[r].holds = {req[r].token}
  BY DEF RedeemCommit, At, TypeOK, RowsInv, LocksCover
<1>2. \A u \in old : \E t \in tokens : ComesFrom(u, t, req[r].holds)
  BY SpentRows
<1> HIDE DEF old
<1>3. TokensInOrder'
  <2>1. \A u \in tokens' : u.id \in 1 .. last' /\ (u.id \in completed' => u.used)
    BY <1>1, <1>2 DEF ComesFrom, RowsInv, TokensInOrder
  <2>2. \A u, v \in tokens' : u.id = v.id => u = v
    BY <1>1, SpentRows DEF old
  <2>3. \A u, v \in tokens' : u.employee = v.employee /\ u.id < v.id => u.used
    BY <1>1, <1>2 DEF ComesFrom, RowsInv, TokensInOrder
  <2>4. QED
    BY <2>1, <2>2, <2>3 DEF TokensInOrder
<1>4. LocksCover' /\ LocksExclusive'
  <2>1. ASSUME NEW q \in Requests \ {r}
        PROVE  /\ \A u \in tokens' : \/ \E t \in tokens : ComesFrom(u, t, {})
                                     \/ u.id \notin req[q].holds /\ u.used
               /\ req[q].pc = "set" =>
                    \A t \in tokens :
                      t.id = req[q].token => \E u \in tokens' : ComesFrom(u, t, {})
    <3>1. req[q].pc = "set" => req[q].token \in req[q].holds
      BY DEF RowsInv, LocksCover
    <3>2. QED
      BY <1>1, <3>1, SpentUnlocked DEF old
  <2>2. /\ \A q \in Requests \ {r} : req'[q] = req[q]
        /\ req'[r].holds = {}
        /\ req'[r].pc \notin {"insert", "set"}
    BY DEF Returns, Takes
  <2>3. QED
    BY <1>1, <2>1, <2>2, OthersCovered
<1>5. QED
  BY <1>3, <1>4 DEF RowsInv

LEMMA DeleteCommitStep ==
  ASSUME TypeOK, RowsInv, NEW r \in Requests, DeleteCommit(r), Returns(r)
  PROVE  RowsInv'
<1>1. /\ tokens' \subseteq tokens
      /\ last' = last
      /\ completed' = completed
      /\ last \in Nat
  BY DEF DeleteCommit, TypeOK
<1>2. TokensInOrder'
  BY <1>1 DEF RowsInv, TokensInOrder
<1>3. LocksCover' /\ LocksExclusive'
  <2>1. \A t \in tokens : ComesFrom(t, t, {})
    BY DEF ComesFrom
  <2>2. ASSUME NEW q \in Requests \ {r}, req[q].pc = "set",
               NEW t \in tokens, t.id = req[q].token
        PROVE  t \in tokens'
    <3>1. t.id \in req[q].holds
      BY <2>2 DEF RowsInv, LocksCover
    <3>2. QED
      BY <3>1 DEF DeleteCommit, LockedByOther, Ids
  <2>3. /\ \A q \in Requests \ {r} : req'[q] = req[q]
        /\ req'[r].holds = {}
        /\ req'[r].pc \notin {"insert", "set"}
    BY DEF Returns, Takes
  <2>4. ASSUME NEW q \in Requests \ {r}
        PROVE  /\ \A u \in tokens' : \E t \in tokens : ComesFrom(u, t, {})
               /\ req[q].pc = "set" =>
                    \A t \in tokens :
                      t.id = req[q].token => \E u \in tokens' : ComesFrom(u, t, {})
    BY <1>1, <2>1, <2>2
  <2>5. QED
    BY <1>1, <2>3, <2>4, OthersCovered
<1>4. QED
  BY <1>2, <1>3 DEF RowsInv

-----------------------------------------------------------------------------
(* The theorems *)

LEMMA ResetInvInit == Init => ResetInv
<1> SUFFICES ASSUME Init
             PROVE  ResetInv
  OBVIOUS
<1>1. \A r \in Requests : req[r] = Idle
  BY DEF Init
<1>2. TypeOK
  BY IdleRequest DEF Init, TypeOK
<1>3. RequestsNamed /\ MutexHeld /\ LocksCover /\ LocksExclusive
  BY <1>1, IdleRequest
     DEF RequestsNamed, MutexHeld, LocksCover, LocksExclusive, Steps, InTransaction
<1>4. TokensInOrder
  BY DEF Init, TokensInOrder
<1>5. QED
  BY <1>2, <1>3, <1>4 DEF ResetInv

LEMMA ResetInvStep == ResetInv /\ [Next]_vars => ResetInv'
<1> SUFFICES ASSUME ResetInv, [Next]_vars
             PROVE  ResetInv'
  OBVIOUS
<1>1. TypeOK /\ RequestsNamed /\ MutexHeld /\ RowsInv /\ LocksCover
  BY DEF ResetInv, RowsInv
<1>2. TypeOK' /\ RequestsNamed' /\ MutexHeld'
  BY <1>1, TypeStep, NamedStep, MutexStep
<1>3. ASSUME NEW r \in Requests, Writing(r)
      PROVE  RowsInv'
  BY <1>1, <1>3, IssueInsertStep, RedeemCommitStep, DeleteCommitStep DEF Writing
<1>4. RowsInv'
  BY <1>1, <1>3, StepKinds, QuietStep, LockingStep
<1>5. QED
  BY <1>2, <1>4 DEF ResetInv, RowsInv

LEMMA ResetInvHolds == Spec => []ResetInv
BY ResetInvInit, ResetInvStep, PTL DEF Spec

(* Whatever requests, redemptions and deletions overlap, the rows of       *)
(* password_reset_tokens, the mutexes and the requests keep their types,   *)
(* and only inserted tokens are mailed or set a password.                  *)
THEOREM ResetTypeCorrect == Spec => []TypeOK
<1>1. ResetInv => TypeOK
  BY DEF ResetInv
<1>2. QED
  BY <1>1, ResetInvHolds, PTL

LEMMA AllButNewestUsed == ResetInv => AtMostOneOutstanding
<1> SUFFICES ASSUME ResetInv, NEW t \in tokens, NEW u \in tokens,
                    t.employee = u.employee, ~t.used, ~u.used
             PROVE  t = u
  BY DEF AtMostOneOutstanding
<1>1. t.id \in Nat /\ u.id \in Nat
  BY DEF ResetInv, TypeOK, Token
<1>2. t.id = u.id
  BY <1>1 DEF ResetInv, TokensInOrder
<1>3. QED
  BY <1>2 DEF ResetInv, TokensInOrder

(* issuePasswordResetToken never leaves an Employee with two links that    *)
(* work, however many requests for one overlap with redemptions and fail.  *)
THEOREM OneOutstanding == Spec => []AtMostOneOutstanding
BY AllButNewestUsed, ResetInvHolds, PTL

(* CompleteActivation sets a password through the Employee's newest token  *)
(* only, and through no token twice.                                       *)
THEOREM NewestSetsPassword == Spec => NewestTokenSetsPassword
<1>1. ResetInv =>
        \A r \in Requests :
          RedeemCommit(r) =>
            /\ req[r].token \notin completed
            /\ \A t \in tokens : t.employee = req[r].who => t.id <= req[r].token
  <2> SUFFICES ASSUME ResetInv, NEW r \in Requests, RedeemCommit(r)
               PROVE  /\ req[r].token \notin completed
                      /\ \A t \in tokens : t.employee = req[r].who => t.id <= req[r].token
    OBVIOUS
  <2>1. PICK u \in tokens : u.id = req[r].token /\ u.employee = req[r].who /\ ~u.used
    BY DEF RedeemCommit, At, ResetInv, LocksCover
  <2>2. \A t \in tokens : t.employee = u.employee => ~(u.id < t.id)
    BY <2>1 DEF ResetInv, TokensInOrder
  <2>3. \A t \in tokens : t.id \in Nat
    BY DEF ResetInv, TypeOK, Token
  <2>4. QED
    BY <2>1, <2>2, <2>3 DEF ResetInv, TokensInOrder
<1>2. QED
  BY <1>1, ResetInvHolds, PTL DEF NewestTokenSetsPassword

(* A step takes a token that works from an Employee who stays only for a   *)
(* new one, or when it sets the password: in no failure, rollback or crash *)
(* of issuePasswordResetToken is it lost.                                  *)
THEOREM NoTokenLost == Spec => NeverLeftWithoutToken
<1>1. ResetInv /\ [Next]_vars =>
        \A t \in tokens :
          /\ ~t.used
          /\ t.employee \in employees'
          /\ Outstanding(t.employee)' = {}
          => t.id \in completed'
  <2> SUFFICES ASSUME ResetInv, [Next]_vars, NEW t \in tokens, ~t.used,
                      t.employee \in employees', Outstanding(t.employee)' = {}
               PROVE  t.id \in completed'
    OBVIOUS
  <2> TypeOK /\ RequestsNamed /\ LocksCover /\ RowsInv
    BY DEF ResetInv, RowsInv
  <2>1. \A u \in tokens' : u.employee = t.employee => u.used
    BY DEF Outstanding
  <2>2. ASSUME tokens' = tokens
        PROVE  FALSE
    BY <2>1, <2>2
  <2>3. ASSUME NEW r \in Requests, IssueInsert(r), req[r].who \in employees
        PROVE  FALSE
    <3>1. NewToken(r) \in tokens' /\ NewToken(r).employee = req[r].who /\ ~NewToken(r).used
      BY <2>3 DEF IssueInsert, NewToken
    <3>2. t.employee # req[r].who
      BY <2>1, <3>1
    <3>3. t.id \notin req[r].holds
      BY <2>3, <3>2 DEF IssueInsert, At, LocksCover
    <3>4. PICK u \in Spent(req[r].holds) : ComesFrom(u, t, req[r].holds)
      BY SpentRows
    <3>5. u \in tokens'
      BY <2>3, <3>4 DEF IssueInsert
    <3>6. QED
      BY <2>1, <3>3, <3>4, <3>5 DEF ComesFrom
  <2>4. ASSUME NEW r \in Requests, RedeemCommit(r)
        PROVE  t.id \in completed'
    <3>1. req[r].holds = {req[r].token}
      BY <2>4 DEF RedeemCommit, At, LocksCover
    <3>2. PICK u \in Spent(req[r].holds) : ComesFrom(u, t, req[r].holds)
      BY SpentRows
    <3>3. t.id \in req[r].holds
      BY <2>1, <2>4, <3>2 DEF RedeemCommit, ComesFrom
    <3>4. QED
      BY <2>4, <3>1, <3>3 DEF RedeemCommit
  <2>5. ASSUME NEW r \in Requests, DeleteCommit(r)
        PROVE  FALSE
    BY <2>1, <2>5 DEF DeleteCommit
  <2>6. CASE Quiet
    BY <2>2, <2>6 DEF Quiet
  <2>7. ASSUME NEW r \in Requests, Locking(r)
        PROVE  FALSE
    BY <2>2, <2>7 DEF Locking, IssueInvalidate, RedeemClaim
  <2>8. QED
    BY <2>3, <2>4, <2>5, <2>6, <2>7, StepKinds DEF Writing
<1>2. QED
  BY <1>1, ResetInvHolds, PTL DEF Spec, NeverLeftWithoutToken

-----------------------------------------------------------------------------
(* The rows implement the abstract links *)

(* The tokens of S that an Employee can use; at most one is to be there. *)
Works(S, e) == {t \in S : t.employee = e /\ ~t.used}
OneWorks(S) == \A t, u \in S : t.employee = u.employee /\ ~t.used /\ ~u.used => t = u

LiveIn(S, e) == IF Works(S, e) = {} THEN 0 ELSE (CHOOSE t \in Works(S, e) : TRUE).id
LiveMap(S) == [e \in Employees |-> LiveIn(S, e)]

LEMMA LiveOfToken ==
  ASSUME NEW S, OneWorks(S), NEW e, NEW t \in Works(S, e)
  PROVE  LiveIn(S, e) = t.id
<1>1. (CHOOSE u \in Works(S, e) : TRUE) \in Works(S, e)
  OBVIOUS
<1>2. \A u \in Works(S, e) : u = t
  BY DEF OneWorks, Works
<1>3. QED
  BY <1>1, <1>2 DEF LiveIn

LEMMA LiveOfNone ==
  ASSUME NEW S, NEW e, Works(S, e) = {}
  PROVE  LiveIn(S, e) = 0
BY DEF LiveIn

(* Where the same ids work in two sets of rows. *)
LEMMA SameLive ==
  ASSUME NEW S, NEW T, OneWorks(S), OneWorks(T), NEW e,
         \A t \in Works(S, e) : \E u \in Works(T, e) : u.id = t.id,
         \A u \in Works(T, e) : \E t \in Works(S, e) : u.id = t.id
  PROVE  LiveIn(S, e) = LiveIn(T, e)
<1>1. CASE \E t \in Works(S, e) : TRUE
  <2>1. PICK t \in Works(S, e) : TRUE
    BY <1>1
  <2>2. PICK u \in Works(T, e) : u.id = t.id
    BY <2>1
  <2>3. QED
    BY <2>1, <2>2, LiveOfToken
<1>2. CASE ~\E t \in Works(S, e) : TRUE
  <2>1. Works(S, e) = {} /\ Works(T, e) = {}
    BY <1>2
  <2>2. QED
    BY <2>1, LiveOfNone
<1>3. QED
  BY <1>1, <1>2

LEMMA LinksDefs ==
  /\ Links!Init <=> /\ last = 0
                    /\ LiveMap(tokens) = [e \in Employees |-> 0]
                    /\ completed = {}
  /\ \A e : Links!Issue(e) <=>
       /\ last' = last + 1
       /\ LiveMap(tokens') = [LiveMap(tokens) EXCEPT ![e] = last + 1]
       /\ completed' = completed
  /\ \A e : Links!Spend(e) <=>
       /\ LiveMap(tokens)[e] # 0
       /\ completed' = completed \cup {LiveMap(tokens)[e]}
       /\ LiveMap(tokens') = [LiveMap(tokens) EXCEPT ![e] = 0]
       /\ last' = last
  /\ \A e : Links!Drop(e) <=>
       /\ LiveMap(tokens') = [LiveMap(tokens) EXCEPT ![e] = 0]
       /\ last' = last /\ completed' = completed
  /\ UNCHANGED Links!vars <=>
       /\ last' = last
       /\ LiveMap(tokens') = LiveMap(tokens)
       /\ completed' = completed
BY DEF Links!Init, Links!Issue, Links!Spend, Links!Drop, Links!vars,
       LiveToken, Outstanding, LiveMap, LiveIn, Works

LEMMA OneWorksHolds == ResetInv => OneWorks(tokens)
BY AllButNewestUsed DEF AtMostOneOutstanding, OneWorks

LEMMA IssueInsertIsIssue ==
  ASSUME ResetInv, OneWorks(tokens), OneWorks(tokens'), NEW r \in Requests,
         IssueInsert(r), req[r].who \in employees
  PROVE  \E e \in Employees : Links!Issue(e)
<1> DEFINE who == req[r].who
           new == NewToken(r)
<1> TypeOK /\ RowsInv
  BY DEF ResetInv, RowsInv
<1>1. who \in Employees
  BY DEF TypeOK
<1>2. /\ tokens' = Spent(req[r].holds) \cup {new}
      /\ last' = last + 1
      /\ completed' = completed
      /\ new.id = last + 1 /\ new.employee = who /\ ~new.used
  BY DEF IssueInsert, NewToken
<1>3. LiveIn(tokens', who) = last + 1
  BY <1>2, LiveOfToken DEF Works
<1>4. ASSUME NEW e \in Employees, e # who
      PROVE  LiveIn(tokens', e) = LiveIn(tokens, e)
  <2>1. \A t \in tokens : t.employee = e => t.id \notin req[r].holds
    BY <1>4 DEF IssueInsert, At, RowsInv, LocksCover
  <2>2. /\ \A t \in Works(tokens, e) : \E u \in Works(tokens', e) : u.id = t.id
        /\ \A u \in Works(tokens', e) : \E t \in Works(tokens, e) : u.id = t.id
    BY <1>2, <1>4, <2>1, SpentRows DEF ComesFrom, Works
  <2>3. QED
    BY <2>2, SameLive
<1>5. LiveMap(tokens') = [LiveMap(tokens) EXCEPT ![who] = last + 1]
  BY <1>1, <1>3, <1>4 DEF LiveMap
<1>6. Links!Issue(who)
  BY <1>2, <1>5, LinksDefs
<1>7. QED
  BY <1>1, <1>6

LEMMA RedeemCommitIsSpend ==
  ASSUME ResetInv, OneWorks(tokens), OneWorks(tokens'), NEW r \in Requests, RedeemCommit(r)
  PROVE  \E e \in Employees : Links!Spend(e)
<1> DEFINE who == req[r].who
<1> TypeOK /\ RowsInv
  BY DEF ResetInv, RowsInv
<1>1. who \in Employees
  BY DEF RedeemCommit, At, ResetInv, RequestsNamed, Steps, InTransaction
<1>2. /\ req[r].holds = {req[r].token}
      /\ \E t \in tokens : t.id = req[r].token /\ t.employee = who /\ ~t.used
  BY DEF RedeemCommit, At, RowsInv, LocksCover
<1>3. PICK t \in tokens : t.id = req[r].token /\ t.employee = who /\ ~t.used
  BY <1>2
<1>4. LiveIn(tokens, who) = req[r].token
  BY <1>3, LiveOfToken DEF Works
<1>5. req[r].token # 0
  BY <1>3 DEF TypeOK, Token
<1>6. tokens' = Spent(req[r].holds) /\ completed' = completed \cup {req[r].token} /\ last' = last
  BY DEF RedeemCommit
<1>7. LiveIn(tokens', who) = 0
  <2>1. Works(tokens, who) \subseteq {t}
    BY <1>3 DEF Works, OneWorks
  <2>2. Works(tokens', who) = {}
    BY <1>2, <1>3, <1>6, <2>1, SpentRows DEF ComesFrom, Works
  <2>3. QED
    BY <2>2, LiveOfNone
<1>8. ASSUME NEW e \in Employees, e # who
      PROVE  LiveIn(tokens', e) = LiveIn(tokens, e)
  <2>1. \A u \in tokens : u.id \in req[r].holds => u = t
    BY <1>2, <1>3 DEF RowsInv, TokensInOrder
  <2>2. /\ \A u \in Works(tokens, e) : \E v \in Works(tokens', e) : u.id = v.id
        /\ \A v \in Works(tokens', e) : \E u \in Works(tokens, e) : u.id = v.id
    BY <1>3, <1>6, <1>8, <2>1, SpentRows DEF ComesFrom, Works
  <2>3. QED
    BY <2>2, SameLive
<1>9. LiveMap(tokens') = [LiveMap(tokens) EXCEPT ![who] = 0]
  BY <1>1, <1>7, <1>8 DEF LiveMap
<1>10. Links!Spend(who)
  BY <1>1, <1>4, <1>5, <1>6, <1>9, LinksDefs DEF LiveMap
<1>11. QED
  BY <1>1, <1>10

LEMMA DeleteCommitIsDrop ==
  ASSUME ResetInv, OneWorks(tokens), OneWorks(tokens'), NEW r \in Requests, DeleteCommit(r)
  PROVE  \E e \in Employees : Links!Drop(e)
<1> DEFINE who == req[r].who
<1>1. who \in Employees
  BY DEF DeleteCommit, At, ResetInv, RequestsNamed, Steps, InTransaction
<1>2. /\ tokens' = tokens \ {t \in tokens : t.employee = who}
      /\ last' = last /\ completed' = completed
  BY DEF DeleteCommit
<1>3. LiveIn(tokens', who) = 0
  BY <1>2, LiveOfNone DEF Works
<1>4. ASSUME NEW e \in Employees, e # who
      PROVE  LiveIn(tokens', e) = LiveIn(tokens, e)
  <2>1. Works(tokens', e) = Works(tokens, e)
    BY <1>2, <1>4 DEF Works
  <2>2. QED
    BY <2>1 DEF LiveIn
<1>5. LiveMap(tokens') = [LiveMap(tokens) EXCEPT ![who] = 0]
  BY <1>1, <1>3, <1>4 DEF LiveMap
<1>6. Links!Drop(who)
  BY <1>2, <1>5, LinksDefs
<1>7. QED
  BY <1>1, <1>6

LEMMA LinksStep ==
  ASSUME ResetInv, ResetInv', [Next]_vars
  PROVE  [Links!Next]_Links!vars
<1> OneWorks(tokens)
  BY OneWorksHolds
<1>0. (ResetInv => OneWorks(tokens))'
  BY OneWorksHolds, PTL
<1> OneWorks(tokens')
  BY <1>0
<1>1. CASE UNCHANGED <<tokens, last, completed>>
  BY <1>1, LinksDefs
<1>2. ASSUME NEW r \in Requests, Writing(r)
      PROVE  Links!Next
  <2>1. CASE IssueInsert(r) /\ req[r].who \in employees
    BY <2>1, IssueInsertIsIssue DEF Links!Next
  <2>2. CASE RedeemCommit(r)
    BY <2>2, RedeemCommitIsSpend DEF Links!Next
  <2>3. CASE DeleteCommit(r)
    BY <2>3, DeleteCommitIsDrop DEF Links!Next
  <2>4. QED
    BY <1>2, <2>1, <2>2, <2>3 DEF Writing
<1>3. ASSUME NEW r \in Requests, Locking(r)
      PROVE  UNCHANGED <<tokens, last, completed>>
  BY <1>3 DEF Locking, IssueInvalidate, RedeemClaim
<1>4. QED
  BY <1>1, <1>2, <1>3, StepKinds DEF ResetInv, Quiet

(* Issuing, redeeming and deleting, with everything that fails or dies in  *)
(* between, is to the tables what ResetLinks says of links: an insertion   *)
(* issues, a redemption spends, a deletion drops, all else changes none.   *)
THEOREM TokensImplementLinks == Spec => ImplementsLinks
<1>1. Init => Links!Init
  BY LinksDefs DEF Init, LiveMap, LiveIn, Works
<1>2. ResetInv /\ ResetInv' /\ [Next]_vars => [Links!Next]_Links!vars
  BY LinksStep
<1>3. QED
  BY <1>1, <1>2, ResetInvHolds, PTL DEF Spec, ImplementsLinks, Links!Spec

-----------------------------------------------------------------------------
(* Deadlocks *)

(* An Employee's mutex is held by an issuance for that Employee, and by    *)
(* nobody after its transaction has ended or the process has died.         *)
MutexOwned ==
  \A e \in Employees : mutex[e] # Nobody =>
    req[mutex[e]].pc \in {"invalidate", "insert"} /\ req[mutex[e]].who = e

LEMMA OwnersStep ==
  ASSUME TypeOK, RequestsNamed, MutexOwned, [Next]_vars
  PROVE  MutexOwned'
<1> DEFINE Frees(r) ==
      /\ \A q \in Requests \ {r} : req'[q] = req[q]
      /\ Unlock(r) \/ (UNCHANGED mutex /\ req[r].pc \notin {"invalidate", "insert"})
<1>1. ASSUME NEW r \in Requests, Frees(r)
      PROVE  MutexOwned'
  <2>1. CASE Unlock(r)
    BY <1>1, <2>1, NobodyAssumption DEF MutexOwned, Unlock, TypeOK
  <2>2. CASE UNCHANGED mutex /\ req[r].pc \notin {"invalidate", "insert"}
    BY <1>1, <2>2 DEF MutexOwned, TypeOK
  <2>3. QED
    BY <1>1, <2>1, <2>2
<1>2. ASSUME NEW r \in Requests, IssueLock(r)
      PROVE  MutexOwned'
  <2>1. /\ req[r].pc = "lock" /\ req[r].who \in Employees
        /\ mutex' = [mutex EXCEPT ![req[r].who] = r]
    BY <1>2 DEF IssueLock, At, RequestsNamed, Steps, InTransaction
  <2>2. Takes(r, "invalidate", req[r].who, req[r].token, req[r].holds)
    BY <1>2, IssueLockTakes
  <2>3. ASSUME NEW e \in Employees, mutex'[e] # Nobody
        PROVE  req'[mutex'[e]].pc \in {"invalidate", "insert"} /\ req'[mutex'[e]].who = e
    <3>1. CASE e = req[r].who
      BY <2>1, <2>2, <3>1 DEF Takes, TypeOK
    <3>2. CASE e # req[r].who
      <4>1. mutex'[e] = mutex[e] /\ mutex[e] \in Requests /\ mutex[e] # r
        BY <2>1, <2>3, <3>2 DEF MutexOwned, TypeOK
      <4>2. QED
        BY <2>2, <2>3, <4>1 DEF MutexOwned, Takes
    <3>3. QED
      BY <3>1, <3>2
  <2>4. QED
    BY <2>3 DEF MutexOwned
<1>3. ASSUME NEW r \in Requests, IssueInvalidate(r)
      PROVE  MutexOwned'
  <2>1. Takes(r, "insert", req[r].who, req[r].token, Ids(Outstanding(req[r].who)))
    BY <1>3, IssueInvalidateTakes
  <2>2. mutex' = mutex
    BY <1>3 DEF IssueInvalidate
  <2>3. QED
    BY <2>1, <2>2 DEF MutexOwned, Takes, TypeOK
<1>4. ASSUME NEW r \in Requests, NEW pc, NEW who, NEW token, NEW holds,
             Takes(r, pc, who, token, holds)
      PROVE  \A q \in Requests \ {r} : req'[q] = req[q]
  BY <1>4 DEF Takes
<1>5. ASSUME NEW r \in Requests, NEW e \in Employees, IssueBegin(r, e) \/ DeleteLock(r, e)
      PROVE  Frees(r)
  BY <1>4, <1>5, IssueBeginTakes, DeleteLockTakes DEF IssueBegin, DeleteLock, At
<1>6. ASSUME NEW r \in Requests, NEW t \in 1 .. last, RedeemBegin(r, t)
      PROVE  Frees(r)
  BY <1>4, <1>6, RedeemBeginTakes DEF RedeemBegin, At
<1>7. ASSUME NEW r \in Requests, IssueInsert(r)
      PROVE  Frees(r)
  <2>1. Unlock(r)
    BY <1>7 DEF IssueInsert
  <2>2. \A q \in Requests \ {r} : req'[q] = req[q]
    BY <1>4, <1>7, IssueInsertTakes DEF Returns
  <2>3. QED
    BY <2>1, <2>2
<1>8. ASSUME NEW r \in Requests, RedeemClaim(r)
      PROVE  Frees(r)
  <2>1. UNCHANGED mutex /\ req[r].pc = "claim"
    BY <1>8 DEF RedeemClaim, At
  <2>2. \A q \in Requests \ {r} : req'[q] = req[q]
    BY <1>4, <1>8, RedeemClaimTakes DEF Returns, Claims
  <2>3. QED
    BY <2>1, <2>2
<1>9. ASSUME NEW r \in Requests,
             \/ IssueMail(r) \/ RedeemCommit(r) \/ DeleteCommit(r)
             \/ DeadlockVictim(r) \/ Abort(r)
      PROVE  Frees(r)
  <2>1. \A q \in Requests \ {r} : req'[q] = req[q]
    BY <1>4, <1>9, ReturnsToCaller DEF Returns
  <2>2. Unlock(r) \/ (UNCHANGED mutex /\ req[r].pc \notin {"invalidate", "insert"})
    BY <1>9 DEF IssueMail, RedeemCommit, DeleteCommit, DeadlockVictim, Abort, RollBack, At
  <2>3. QED
    BY <2>1, <2>2
<1>10. CASE Crash
  BY <1>10, CrashIdles DEF MutexOwned
<1>11. CASE Tick \/ UNCHANGED vars \/ \E e \in Employees, b \in BOOLEAN : SetEmployeeActive(e, b)
  BY <1>11 DEF Tick, vars, SetEmployeeActive, MutexOwned
<1> HIDE DEF Frees
<1>12. CASE \E r \in Requests : Progress(r)
  BY <1>1, <1>2, <1>3, <1>7, <1>8, <1>9, <1>12 DEF Progress
<1>13. QED
  BY <1>1, <1>5, <1>6, <1>9, <1>10, <1>11, <1>12 DEF Next

(* r can do nothing before q lets go of a row or of a mutex. *)
WaitsOn(r, q) == WaitsFor(r, q) \/ (At(r, "lock") /\ mutex[req[r].who] = q)

WaitWithin(A) == A # {} /\ \A r \in A : \E q \in A \ {r} : WaitsOn(r, q)

(* Requests that only wait for each other include two transactions, of     *)
(* which Postgres fails one.                                               *)
DeadlocksInPairs ==
  \A A \in SUBSET Requests :
    WaitWithin(A) => \E r, q \in A : r # q /\ WaitsFor(r, q) /\ WaitsFor(q, r)

LEMMA PairsFound ==
  ASSUME ResetInv, MutexOwned
  PROVE  DeadlocksInPairs
<1> SUFFICES ASSUME NEW A \in SUBSET Requests, WaitWithin(A)
             PROVE  \E r, q \in A : r # q /\ WaitsFor(r, q) /\ WaitsFor(q, r)
  BY DEF DeadlocksInPairs
<1> DEFINE AtIn(r, steps) == req[r].pc \in steps
<1>1. \A q \in Requests : req[q].holds # {} => AtIn(q, {"insert", "set"})
  BY DEF ResetInv, LocksCover
<1>2. \A r \in A : \E q \in A \ {r} : WaitsOn(r, q)
  BY DEF WaitWithin
<1>3. ASSUME NEW r \in A, AtIn(r, {"insert", "set"})
      PROVE  \E d \in A : At(d, "cascade")
  BY <1>2, <1>3 DEF WaitsOn, WaitsFor, At
<1>4. ASSUME NEW r \in A, AtIn(r, {"invalidate", "claim"})
      PROVE  \E q \in A : AtIn(q, {"insert", "set"})
  <2>1. PICK q \in A : WaitsFor(r, q)
    BY <1>2, <1>4 DEF WaitsOn, At
  <2>2. req[q].holds # {}
    BY <1>4, <2>1 DEF WaitsFor, At
  <2>3. QED
    BY <1>1, <2>2
<1>5. ASSUME NEW r \in A, At(r, "lock")
      PROVE  \E q \in A : AtIn(q, {"invalidate", "insert"})
  <2>1. PICK q \in A : mutex[req[r].who] = q
    BY <1>2, <1>5 DEF WaitsOn, WaitsFor, At
  <2>2. req[r].who \in Employees
    BY <1>5 DEF ResetInv, RequestsNamed, At, Steps, InTransaction
  <2>3. q # Nobody
    BY NobodyAssumption
  <2>4. QED
    BY <2>1, <2>2, <2>3 DEF MutexOwned
<1>6. \A r \in A : AtIn(r, {"insert", "set", "invalidate", "claim", "lock", "cascade"})
  BY <1>2 DEF WaitsOn, WaitsFor, At
<1>7. \E r \in A : TRUE
  BY DEF WaitWithin
<1>8. PICK d \in A : At(d, "cascade")
  BY <1>3, <1>4, <1>5, <1>6, <1>7 DEF At
<1>9. PICK q \in A \ {d}, t \in tokens : t.employee = req[d].who /\ t.id \in req[q].holds
  BY <1>2, <1>8 DEF WaitsOn, WaitsFor, At
<1>10. AtIn(q, {"insert", "set"})
  BY <1>1, <1>9
<1>11. req[q].who = req[d].who
  BY <1>9, <1>10 DEF ResetInv, LocksCover, TokensInOrder
<1>12. WaitsFor(q, d) /\ WaitsFor(d, q)
  BY <1>8, <1>9, <1>10, <1>11 DEF WaitsFor
<1>13. QED
  BY <1>12

(* However issuances, redemptions and deletions lock the mutexes and the   *)
(* rows, requests that wait in a ring have two transactions in it that     *)
(* wait for each other's row: the deadlock detector finds every ring, and  *)
(* none is made of mutexes, which it does not see.                         *)
THEOREM DeadlocksDetected == Spec => []DeadlocksInPairs
<1>1. Init => MutexOwned
  BY DEF Init, MutexOwned
<1>2. ResetInv /\ MutexOwned /\ [Next]_vars => MutexOwned'
  BY OwnersStep DEF ResetInv
<1>3. ResetInv /\ MutexOwned => DeadlocksInPairs
  BY PairsFound
<1>4. QED
  BY <1>1, <1>2, <1>3, ResetInvHolds, PTL DEF Spec

=============================================================================
