----------------------------- MODULE AuthProofs -----------------------------
(***************************************************************************)
(* Safety of Auth for every number of Employees, Stores and requests and   *)
(* for every value of the durations, thresholds and bounds: types, the     *)
(* rows of sessions and who holds their tokens, the lockout, and last why  *)
(* Sessions end, with the refinement of SessionLifecycle.                  *)
(***************************************************************************)
EXTENDS Auth, TLAPS

-----------------------------------------------------------------------------
(* Types *)

LEMMA IdleType == Idle \in Request
BY DEF Idle, Request, Steps, Answers, Ended

LEMMA BecomesType ==
  ASSUME TypeOK, NEW r \in Requests, NEW q \in Request, Becomes(r, q)
  PROVE  req' \in [Requests -> Request]
BY DEF TypeOK, Becomes

(* What a handler that is not finished knows of its Employee. *)
LEMMA StepType ==
  ASSUME TypeOK, NEW r \in Requests, req[r].pc \in Steps
  PROVE  /\ req[r] \in Request
         /\ req[r].who \in Employees
         /\ isAdmin[req[r].who] \in BOOLEAN
         /\ failed[req[r].who] \in Nat
         /\ memberOf[req[r].who] \subseteq Stores
BY DEF TypeOK, Request

LEMMA ReturnType ==
  ASSUME TypeOK, NEW r \in Requests, Return(r)
  PROVE  req' \in [Requests -> Request]
BY IdleType, BecomesType DEF Return

LEMMA AnswerType ==
  ASSUME TypeOK, NEW r \in Requests, NEW a \in Ended, Answer(r, a)
  PROVE  req' \in [Requests -> Request]
<1>1. req[r].token \in Nat
  BY DEF TypeOK, Request
<1>2. [Idle EXCEPT !.pc = a, !.token = req[r].token] \in Request
  BY <1>1 DEF Idle, Request, Steps, Answers, Ended
<1>3. QED
  BY <1>2, BecomesType DEF Answer

LEMMA LoginReadType ==
  ASSUME TypeOK, NEW r \in Requests, NEW e \in Employees, NEW right \in BOOLEAN,
         LoginRead(r, e, right)
  PROVE  TypeOK'
<1>1. [Idle EXCEPT !.pc = IF right THEN "reset" ELSE "fail", !.who = e,
                   !.verified = IF right THEN password[e] ELSE 0] \in Request
  BY DEF TypeOK, Idle, Request, Steps, Answers
<1>2. QED
  BY <1>1, BecomesType DEF TypeOK, LoginRead, accountVars, rightsVars

LEMMA RecordFailureSnapshotType ==
  ASSUME TypeOK, NEW r \in Requests, RecordFailureSnapshot(r)
  PROVE  TypeOK'
<1> DEFINE q == [req[r] EXCEPT !.pc = "record",
                               !.count = NewCount(req[r].who),
                               !.until = now + LockoutDuration]
<1>1. req[r] \in Request /\ req[r].who \in Employees /\ failed[req[r].who] \in Nat
  BY StepType DEF RecordFailureSnapshot, At, Steps
<1>2. NewCount(req[r].who) \in Nat /\ now + LockoutDuration \in Nat
  BY <1>1, DurationsAssumption DEF TypeOK, NewCount
<1>3. q \in Request
  BY <1>1, <1>2 DEF Request, Steps
<1>4. Return(r) \/ Becomes(r, q)
  BY DEF RecordFailureSnapshot
<1>5. req' \in [Requests -> Request]
  BY <1>3, <1>4, ReturnType, BecomesType
<1>6. QED
  BY <1>5 DEF TypeOK, RecordFailureSnapshot, accountVars, rightsVars

LEMMA RecordFailureWriteType ==
  ASSUME TypeOK, NEW r \in Requests, RecordFailureWrite(r)
  PROVE  TypeOK'
<1>1. req' \in [Requests -> Request]
  BY ReturnType DEF RecordFailureWrite
<1>2. req[r].count \in Nat /\ req[r].until \in Nat
  BY DEF TypeOK, Request
<1>3. failed' \in [Employees -> Nat] /\ lockedUntil' \in [Employees -> Nat]
  BY <1>2 DEF TypeOK, RecordFailureWrite
<1>4. QED
  BY <1>1, <1>3 DEF TypeOK, RecordFailureWrite, rightsVars

LEMMA LoginResetType ==
  ASSUME TypeOK, NEW r \in Requests, LoginReset(r)
  PROVE  TypeOK'
<1>1. req[r] \in Request /\ req[r].who \in Employees
  BY StepType DEF LoginReset, At, Steps
<1>2. [req[r] EXCEPT !.pc = "admin"] \in Request
  BY <1>1 DEF Request, Steps
<1>3. req' \in [Requests -> Request]
  BY <1>2, BecomesType DEF LoginReset
<1>4. failed' \in [Employees -> Nat] /\ lockedUntil' \in [Employees -> Nat]
  BY DEF TypeOK, LoginReset, ClearLockout
<1>5. QED
  BY <1>3, <1>4 DEF TypeOK, LoginReset, rightsVars

LEMMA LoginIsAdminType ==
  ASSUME TypeOK, NEW r \in Requests, LoginIsAdmin(r)
  PROVE  TypeOK'
<1> DEFINE q == [req[r] EXCEPT !.pc = IF isAdmin[req[r].who] THEN "open" ELSE "match",
                               !.asAdmin = isAdmin[req[r].who]]
<1>1. req[r] \in Request /\ req[r].who \in Employees /\ isAdmin[req[r].who] \in BOOLEAN
  BY StepType DEF LoginIsAdmin, At, Steps
<1>2. q \in Request
  BY <1>1 DEF Request, Steps
<1>3. Becomes(r, q)
  BY DEF LoginIsAdmin
<1>4. req' \in [Requests -> Request]
  BY <1>2, <1>3, BecomesType
<1>5. QED
  BY <1>4 DEF TypeOK, LoginIsAdmin, accountVars, rightsVars

LEMMA LoginMatchStoreType ==
  ASSUME TypeOK, NEW r \in Requests, LoginMatchStore(r)
  PROVE  TypeOK'
<1>1. req[r] \in Request /\ req[r].who \in Employees /\ memberOf[req[r].who] \subseteq Stores
  BY StepType DEF LoginMatchStore, At, Steps
<1>2. \A s \in memberOf[req[r].who] : [req[r] EXCEPT !.pc = "open", !.store = s] \in Request
  BY <1>1 DEF Request, Steps
<1>3. req' \in [Requests -> Request]
  BY <1>2, ReturnType, BecomesType DEF LoginMatchStore
<1>4. QED
  BY <1>3 DEF TypeOK, LoginMatchStore, accountVars, rightsVars

(* The row LoginOpen writes. *)
NewSession(r) ==
  [employee |-> req[r].who, store |-> req[r].store, token |-> issued + 1,
   issuedAt |-> now,
   expiresAt |-> now + (IF req[r].asAdmin THEN AdminTTL ELSE NonAdminTTL),
   lastHeartbeat |-> now, failures |-> 0,
   asAdmin |-> req[r].asAdmin, verified |-> req[r].verified]

LEMMA NewSessionType ==
  ASSUME TypeOK, NEW r \in Requests, At(r, "open")
  PROVE  NewSession(r) \in Session
<1>1. req[r] \in Request /\ req[r].who \in Employees
  BY StepType DEF At, Steps
<1>2. /\ req[r].store \in Stores \cup {NoStore}
      /\ req[r].asAdmin \in BOOLEAN
      /\ req[r].verified \in Nat
  BY <1>1 DEF Request
<1>3. now + (IF req[r].asAdmin THEN AdminTTL ELSE NonAdminTTL) \in Nat
  BY DurationsAssumption DEF TypeOK
<1>4. QED
  BY <1>1, <1>2, <1>3 DEF NewSession, Session, TypeOK

(* LoginOpen either writes that row or changes no Session. *)
LEMMA LoginOpenWrites ==
  ASSUME NEW r \in Requests, LoginOpen(r)
  PROVE  \/ /\ ForeignKeysHold(req[r].who, req[r].store)
            /\ issued' = issued + 1
            /\ sessions' = Upsert(NewSession(r))
         \/ UNCHANGED <<sessions, issued>>
BY DEF LoginOpen, NewSession

LEMMA LoginOpenType ==
  ASSUME TypeOK, NEW r \in Requests, LoginOpen(r)
  PROVE  TypeOK'
<1>1. NewSession(r) \in Session
  BY NewSessionType DEF LoginOpen
<1>2. issued' \in Nat /\ sessions' \subseteq Session
  BY <1>1, LoginOpenWrites DEF TypeOK, Upsert
<1>3. req' \in [Requests -> Request]
  BY ReturnType DEF LoginOpen
<1>4. QED
  BY <1>2, <1>3 DEF TypeOK, LoginOpen, accountVars, rightsVars

LEMMA LogoutType ==
  ASSUME TypeOK, NEW t \in Nat, Logout(t)
  PROVE  TypeOK'
BY DEF TypeOK, Logout, DeleteByToken, accountVars, rightsVars

LEMMA HeartbeatReadType ==
  ASSUME TypeOK, NEW r \in Requests, NEW t \in Nat, HeartbeatRead(r, t)
  PROVE  TypeOK'
<1> DEFINE unknown == [Idle EXCEPT !.pc = "logged_out_elsewhere", !.token = t]
           known(s) == [Idle EXCEPT
                          !.pc = IF Silent(s) \/ Expired(s) THEN "expire" ELSE "recheck",
                          !.who = s.employee, !.store = s.store, !.token = t]
<1>1. unknown \in Request
  BY DEF Idle, Request, Steps, Answers, Ended
<1>2. ASSUME NEW s \in Named(t)
      PROVE  known(s) \in Request
  <2>1. s.employee \in Employees /\ s.store \in Stores \cup {NoStore}
    BY DEF TypeOK, Named, Session
  <2>2. QED
    BY <2>1 DEF Idle, Request, Steps, Answers, Ended
<1>3. \/ Becomes(r, unknown)
      \/ Return(r)
      \/ \E s \in Named(t) : Becomes(r, known(s))
  BY DEF HeartbeatRead
<1>4. req' \in [Requests -> Request]
  BY <1>1, <1>2, <1>3, ReturnType, BecomesType
<1>5. QED
  BY <1>4 DEF TypeOK, HeartbeatRead, accountVars, rightsVars

LEMMA HeartbeatExpireType ==
  ASSUME TypeOK, NEW r \in Requests, HeartbeatExpire(r)
  PROVE  TypeOK'
<1>1. req' \in [Requests -> Request]
  BY AnswerType DEF HeartbeatExpire, Ended
<1>2. QED
  BY <1>1 DEF TypeOK, HeartbeatExpire, DeleteByToken, accountVars, rightsVars

LEMMA HeartbeatRecheckType ==
  ASSUME TypeOK, NEW r \in Requests, HeartbeatRecheck(r)
  PROVE  TypeOK'
<1>1. req[r] \in Request /\ req[r].who \in Employees
  BY StepType DEF HeartbeatRecheck, At, Steps
<1>2. \A next \in {"pass", "miss"} : [req[r] EXCEPT !.pc = next] \in Request
  BY <1>1 DEF Request, Steps
<1>3. req' \in [Requests -> Request]
  BY <1>2, ReturnType, BecomesType DEF HeartbeatRecheck
<1>4. QED
  BY <1>3 DEF TypeOK, HeartbeatRecheck, accountVars, rightsVars

LEMMA RefreshedType ==
  ASSUME TypeOK, NEW s \in Session
  PROVE  Refreshed(s) \in Session /\ FailedOnce(s) \in Session
<1>1. s.failures + 1 \in Nat
  BY DEF Session
<1>2. QED
  BY <1>1 DEF TypeOK, Session, Refreshed, FailedOnce

LEMMA HeartbeatPassType ==
  ASSUME TypeOK, NEW r \in Requests, HeartbeatPass(r)
  PROVE  TypeOK'
<1>1. sessions' \subseteq Session
  BY RefreshedType DEF TypeOK, HeartbeatPass, Named
<1>2. req' \in [Requests -> Request]
  BY ReturnType DEF HeartbeatPass
<1>3. QED
  BY <1>1, <1>2 DEF TypeOK, HeartbeatPass, accountVars, rightsVars

LEMMA HeartbeatMissType ==
  ASSUME TypeOK, NEW r \in Requests, HeartbeatMiss(r)
  PROVE  TypeOK'
<1>1. sessions' \subseteq Session
  BY RefreshedType DEF TypeOK, HeartbeatMiss, Named
<1>2. req[r] \in Request /\ req[r].who \in Employees
  BY StepType DEF HeartbeatMiss, At, Steps
<1>3. [req[r] EXCEPT !.pc = "leave"] \in Request
  BY <1>2 DEF Request, Steps
<1>4. req' \in [Requests -> Request]
  BY <1>3, ReturnType, BecomesType DEF HeartbeatMiss
<1>5. QED
  BY <1>1, <1>4 DEF TypeOK, HeartbeatMiss, accountVars, rightsVars

LEMMA HeartbeatLeaveType ==
  ASSUME TypeOK, NEW r \in Requests, HeartbeatLeave(r)
  PROVE  TypeOK'
<1>1. req' \in [Requests -> Request]
  BY AnswerType DEF HeartbeatLeave, Ended
<1>2. QED
  BY <1>1 DEF TypeOK, HeartbeatLeave, DeleteByToken, accountVars, rightsVars

LEMMA AbortType ==
  ASSUME TypeOK, NEW r \in Requests, Abort(r)
  PROVE  TypeOK'
<1>1. req' \in [Requests -> Request]
  BY ReturnType DEF Abort
<1>2. QED
  BY <1>1 DEF TypeOK, Abort, accountVars, rightsVars

LEMMA OthersType ==
  ASSUME TypeOK, OthersNext
  PROVE  TypeOK'
<1>1. ASSUME NEW e \in Employees, NEW b \in BOOLEAN, SetEmployeeActive(e, b)
      PROVE  TypeOK'
  BY <1>1 DEF TypeOK, SetEmployeeActive, rightsVars
<1>2. ASSUME NEW e \in Employees, SetEmployeePassword(e)
      PROVE  TypeOK'
  BY <1>2 DEF TypeOK, SetEmployeePassword, rightsVars
<1>3. ASSUME NEW e \in Employees, CompleteActivation(e)
      PROVE  TypeOK'
  <2>1. password[e] + 1 \in Nat
    BY DEF TypeOK
  <2>2. QED
    BY <1>3, <2>1 DEF TypeOK, CompleteActivation, ClearLockout, rightsVars
<1>4. ASSUME NEW e \in Employees, DeleteEmployee(e)
      PROVE  TypeOK'
  BY <1>4 DEF TypeOK, DeleteEmployee, accountVars
<1>5. ASSUME NEW e \in Employees, NEW members \in SUBSET Stores,
             SyncEmployeeStores(e, members)
      PROVE  TypeOK'
  BY <1>5 DEF TypeOK, SyncEmployeeStores, accountVars
<1>6. ASSUME NEW admins \in SUBSET Employees, SetAdmins(admins)
      PROVE  TypeOK'
  BY <1>6 DEF TypeOK, SetAdmins, accountVars
<1>7. ASSUME NEW gone \in SUBSET Stores, DeleteStores(gone)
      PROVE  TypeOK'
  <2>1. \A s \in Session : Orphaned(s, gone) \in Session
    BY DEF Orphaned, Session
  <2>2. sessions' \subseteq Session
    BY <1>7, <2>1 DEF TypeOK, DeleteStores
  <2>3. memberOf' \in [Employees -> SUBSET Stores]
    BY <1>7 DEF TypeOK, DeleteStores
  <2>4. QED
    BY <1>7, <2>2, <2>3 DEF TypeOK, DeleteStores, accountVars
<1>8. QED
  BY <1>1, <1>2, <1>3, <1>4, <1>5, <1>6, <1>7 DEF OthersNext

LEMMA InitType == Init => TypeOK
BY IdleType DEF Init, TypeOK

LEMMA NextType ==
  ASSUME TypeOK, [Next]_vars
  PROVE  TypeOK'
<1>1. CASE UNCHANGED vars
  BY <1>1 DEF TypeOK, vars, accountVars, rightsVars
<1>2. ASSUME NEW r \in Requests, LoginNext(r)
      PROVE  TypeOK'
  BY <1>2, LoginReadType, RecordFailureSnapshotType, RecordFailureWriteType,
     LoginResetType, LoginIsAdminType, LoginMatchStoreType, LoginOpenType
     DEF LoginNext
<1>3. ASSUME NEW r \in Requests, HeartbeatNext(r)
      PROVE  TypeOK'
  <2>1. 1 .. issued \subseteq Nat
    BY DEF TypeOK
  <2>2. QED
    BY <1>3, <2>1, HeartbeatReadType, HeartbeatExpireType, HeartbeatRecheckType,
       HeartbeatPassType, HeartbeatMissType, HeartbeatLeaveType
       DEF HeartbeatNext
<1>4. ASSUME NEW t \in 1 .. issued, Logout(t)
      PROVE  TypeOK'
  BY <1>4, LogoutType DEF TypeOK
<1>5. CASE Tick
  BY <1>5 DEF TypeOK, Tick, accountVars, rightsVars
<1>6. QED
  BY <1>1, <1>2, <1>3, <1>4, <1>5, AbortType, OthersType DEF Next

(* Every column keeps its type, and a handler that has begun keeps its     *)
(* Employee, through every interleaving of requests and services.          *)
THEOREM AuthTypeCorrect == Spec => []TypeOK
BY InitType, NextType, PTL DEF Spec

-----------------------------------------------------------------------------
(* How a step changes the rows of sessions *)

(* A row before and after a statement that is not UpsertSession. *)
SameSession(s, o) ==
  /\ o.employee = s.employee
  /\ o.token = s.token
  /\ o.issuedAt = s.issuedAt
  /\ o.expiresAt = s.expiresAt
  /\ o.asAdmin = s.asAdmin
  /\ o.lastHeartbeat \in {s.lastHeartbeat, now}

(* No row is new: what is left of the rows has been rewritten by g. *)
Rewritten(g) ==
  /\ \A s \in sessions : SameSession(s, g[s])
  /\ sessions' \subseteq {g[s] : s \in sessions}

NoNewSession ==
  /\ issued' = issued
  /\ \E g \in [sessions -> Session] : Rewritten(g)

OpensSession(r) ==
  /\ At(r, "open")
  /\ ForeignKeysHold(req[r].who, req[r].store)
  /\ issued' = issued + 1
  /\ sessions' = Upsert(NewSession(r))
  /\ employees' = employees /\ stores' = stores /\ now' = now

LEMMA SubsetIsNotNew ==
  ASSUME TypeOK, issued' = issued, sessions' \subseteq sessions
  PROVE  NoNewSession
<1> DEFINE g == [s \in sessions |-> s]
<1>1. g \in [sessions -> Session]
  BY DEF TypeOK
<1>2. Rewritten(g)
  BY DEF Rewritten, SameSession
<1>3. QED
  BY <1>1, <1>2 DEF NoNewSession

LEMMA PassIsNotNew ==
  ASSUME TypeOK, NEW r \in Requests, HeartbeatPass(r)
  PROVE  NoNewSession
<1> DEFINE g == [s \in sessions |-> IF s.token = req[r].token THEN Refreshed(s) ELSE s]
<1>1. g \in [sessions -> Session]
  BY RefreshedType DEF TypeOK
<1>2. \A s \in sessions : SameSession(s, g[s])
  BY DEF TypeOK, SameSession, Refreshed, Session
<1>3. sessions' \subseteq {g[s] : s \in sessions}
  BY DEF HeartbeatPass, Named
<1>4. QED
  BY <1>1, <1>2, <1>3 DEF NoNewSession, Rewritten, HeartbeatPass

LEMMA MissIsNotNew ==
  ASSUME TypeOK, NEW r \in Requests, HeartbeatMiss(r)
  PROVE  NoNewSession
<1> DEFINE g == [s \in sessions |-> IF s.token = req[r].token THEN FailedOnce(s) ELSE s]
<1>1. g \in [sessions -> Session]
  BY RefreshedType DEF TypeOK
<1>2. \A s \in sessions : SameSession(s, g[s])
  BY DEF TypeOK, SameSession, FailedOnce, Session
<1>3. sessions' \subseteq {g[s] : s \in sessions}
  BY DEF HeartbeatMiss, Named
<1>4. QED
  BY <1>1, <1>2, <1>3 DEF NoNewSession, Rewritten, HeartbeatMiss

LEMMA OrphanedIsNotNew ==
  ASSUME TypeOK, NEW gone \in SUBSET Stores, DeleteStores(gone)
  PROVE  NoNewSession
<1> DEFINE g == [s \in sessions |-> Orphaned(s, gone)]
<1>1. g \in [sessions -> Session]
  BY DEF TypeOK, Orphaned, Session
<1>2. \A s \in sessions : SameSession(s, g[s])
  BY DEF TypeOK, SameSession, Orphaned, Session
<1>3. sessions' \subseteq {g[s] : s \in sessions}
  BY DEF DeleteStores
<1>4. QED
  BY <1>1, <1>2, <1>3 DEF NoNewSession, Rewritten, DeleteStores

LEMMA SessionsStep ==
  ASSUME TypeOK, [Next]_vars
  PROVE  NoNewSession \/ \E r \in Requests : OpensSession(r)
<1>1. ASSUME NEW r \in Requests, LoginNext(r)
      PROVE  NoNewSession \/ OpensSession(r)
  <2>1. CASE LoginOpen(r)
    BY <2>1, LoginOpenWrites, SubsetIsNotNew DEF LoginOpen, OpensSession
  <2>2. CASE ~LoginOpen(r)
    BY <1>1, <2>2, SubsetIsNotNew
       DEF LoginNext, LoginRead, RecordFailureSnapshot, RecordFailureWrite, LoginReset,
           LoginIsAdmin, LoginMatchStore
  <2>3. QED
    BY <2>1, <2>2
<1>2. ASSUME NEW r \in Requests, HeartbeatNext(r)
      PROVE  NoNewSession
  BY <1>2, PassIsNotNew, MissIsNotNew, SubsetIsNotNew
     DEF HeartbeatNext, HeartbeatRead, HeartbeatExpire, HeartbeatRecheck,
         HeartbeatLeave, DeleteByToken
<1>3. ASSUME OthersNext
      PROVE  NoNewSession
  BY <1>3, OrphanedIsNotNew, SubsetIsNotNew
     DEF OthersNext, SetEmployeeActive, SetEmployeePassword, CompleteActivation,
         DeleteEmployee, SyncEmployeeStores, SetAdmins
<1>4. CASE \/ UNCHANGED vars
           \/ Tick
           \/ \E r \in Requests : Abort(r)
           \/ \E t \in 1 .. issued : Logout(t)
  BY <1>4, SubsetIsNotNew DEF vars, Tick, Abort, Logout, DeleteByToken
<1>5. QED
  BY <1>1, <1>2, <1>3, <1>4 DEF Next

LEMMA TimeMovesOn ==
  ASSUME TypeOK, [Next]_vars
  PROVE  now' \in Nat /\ now <= now'
<1>1. now' = now \/ Tick
  <2>1. ASSUME NEW r \in Requests, LoginNext(r) \/ HeartbeatNext(r) \/ Abort(r)
        PROVE  now' = now
    BY <2>1 DEF LoginNext, LoginRead, RecordFailureSnapshot, RecordFailureWrite,
         LoginReset, LoginIsAdmin, LoginMatchStore, LoginOpen, HeartbeatNext,
         HeartbeatRead, HeartbeatExpire, HeartbeatRecheck, HeartbeatPass,
         HeartbeatMiss, HeartbeatLeave, Abort
  <2>2. ASSUME OthersNext \/ \E t \in 1 .. issued : Logout(t)
        PROVE  now' = now
    BY <2>2 DEF OthersNext, Logout, SetEmployeeActive, SetEmployeePassword,
         CompleteActivation, DeleteEmployee, SyncEmployeeStores, SetAdmins, DeleteStores
  <2>3. QED
    BY <2>1, <2>2 DEF Next, vars
<1>2. QED
  BY <1>1 DEF TypeOK, Tick

-----------------------------------------------------------------------------
(* Invariants of the rows *)

LEMMA TokensIssuedStep ==
  ASSUME TypeOK, TokensIssued, [Next]_vars
  PROVE  TokensIssued'
<1>1. CASE NoNewSession
  BY <1>1 DEF NoNewSession, Rewritten, SameSession, TokensIssued
<1>2. ASSUME NEW r \in Requests, OpensSession(r)
      PROVE  TokensIssued'
  BY <1>2 DEF OpensSession, Upsert, NewSession, TokensIssued, TypeOK, Session
<1>3. QED
  BY <1>1, <1>2, SessionsStep

(* UpsertSession is the only writer of a new row, and it leaves no other   *)
(* row of the same Employee; its token is fresh.                           *)
LEMMA OneSessionStep ==
  ASSUME TypeOK, TokensIssued, OneSessionPerEmployee, [Next]_vars
  PROVE  OneSessionPerEmployee'
<1>1. ASSUME NEW g \in [sessions -> Session], Rewritten(g)
      PROVE  OneSessionPerEmployee'
  BY <1>1 DEF Rewritten, SameSession, OneSessionPerEmployee
<1>2. ASSUME NEW r \in Requests, OpensSession(r)
      PROVE  OneSessionPerEmployee'
  <2>1. \A s \in sessions : s.token \in Nat /\ s.token # issued + 1
    BY DEF TokensIssued, TypeOK, Session
  <2>2. NewSession(r).token = issued + 1 /\ NewSession(r).employee = req[r].who
    BY DEF NewSession
  <2>3. sessions' = {o \in sessions : o.employee # NewSession(r).employee}
                      \cup {NewSession(r)}
    BY <1>2 DEF OpensSession, Upsert
  <2>4. QED
    BY <2>1, <2>2, <2>3 DEF OneSessionPerEmployee
<1>3. QED
  BY <1>1, <1>2, SessionsStep DEF NoNewSession

LEMMA CapStep ==
  ASSUME TypeOK, CapIsAbsolute, [Next]_vars
  PROVE  CapIsAbsolute'
<1>1. now' \in Nat /\ now <= now' /\ now \in Nat
  BY TimeMovesOn DEF TypeOK
<1>2. CASE NoNewSession
  <2>1. PICK g \in [sessions -> Session] : Rewritten(g)
    BY <1>2 DEF NoNewSession
  <2>2. SUFFICES ASSUME NEW s \in sessions
                 PROVE  /\ g[s].expiresAt =
                             g[s].issuedAt + (IF g[s].asAdmin THEN AdminTTL ELSE NonAdminTTL)
                        /\ g[s].issuedAt <= g[s].lastHeartbeat
                        /\ g[s].lastHeartbeat <= now'
    BY <2>1 DEF CapIsAbsolute, Rewritten
  <2>3. SameSession(s, g[s])
    BY <2>1 DEF Rewritten
  <2>4. s.issuedAt \in Nat /\ s.lastHeartbeat \in Nat
    BY DEF TypeOK, Session
  <2>5. /\ s.expiresAt = s.issuedAt + (IF s.asAdmin THEN AdminTTL ELSE NonAdminTTL)
        /\ s.issuedAt <= s.lastHeartbeat
        /\ s.lastHeartbeat <= now
    BY DEF CapIsAbsolute
  <2>6. QED
    BY <1>1, <2>3, <2>4, <2>5 DEF SameSession
<1>3. ASSUME NEW r \in Requests, OpensSession(r)
      PROVE  CapIsAbsolute'
  <2>1. sessions' \subseteq sessions \cup {NewSession(r)} /\ now' = now
    BY <1>3 DEF OpensSession, Upsert
  <2>2. QED
    BY <1>1, <2>1 DEF CapIsAbsolute, NewSession
<1>4. QED
  BY <1>2, <1>3, SessionsStep

-----------------------------------------------------------------------------
(* No dangling reference *)

(* The rows of sessions name what the two tables hold. *)
LEMMA DanglingStep ==
  ASSUME TypeOK, NoDanglingSession, [Next]_vars
  PROVE  NoDanglingSession'
<1>1. ASSUME NEW r \in Requests, OpensSession(r)
      PROVE  NoDanglingSession'
  <2>1. sessions' \subseteq sessions \cup {NewSession(r)}
    BY <1>1 DEF OpensSession, Upsert
  <2>2. QED
    BY <1>1, <2>1 DEF OpensSession, NewSession, ForeignKeysHold, NoDanglingSession
<1>2. ASSUME NEW r \in Requests, HeartbeatPass(r)
      PROVE  NoDanglingSession'
  BY <1>2 DEF HeartbeatPass, Refreshed, Named, NoDanglingSession, TypeOK, Session
<1>3. ASSUME NEW r \in Requests, HeartbeatMiss(r)
      PROVE  NoDanglingSession'
  BY <1>3 DEF HeartbeatMiss, FailedOnce, Named, NoDanglingSession, TypeOK, Session
<1>4. ASSUME NEW gone \in SUBSET Stores, DeleteStores(gone)
      PROVE  NoDanglingSession'
  <2>1. \A s \in sessions : /\ Orphaned(s, gone).employee = s.employee
                            /\ \/ Orphaned(s, gone).store = NoStore
                               \/ /\ Orphaned(s, gone).store = s.store
                                  /\ s.store \notin gone
    BY DEF Orphaned, TypeOK, Session
  <2>2. QED
    BY <1>4, <2>1 DEF DeleteStores, NoDanglingSession
<1>5. ASSUME NEW e \in Employees, DeleteEmployee(e)
      PROVE  NoDanglingSession'
  BY <1>5 DEF DeleteEmployee, NoDanglingSession
<1>6. ASSUME sessions' \subseteq sessions, employees' = employees, stores' = stores
      PROVE  NoDanglingSession'
  BY <1>6 DEF NoDanglingSession
<1>7. ASSUME NEW r \in Requests, LoginNext(r)
      PROVE  NoDanglingSession'
  <2>1. CASE LoginOpen(r)
    BY <1>1, <1>6, <2>1, LoginOpenWrites DEF LoginOpen, OpensSession
  <2>2. CASE ~LoginOpen(r)
    BY <1>6, <1>7, <2>2
       DEF LoginNext, LoginRead, RecordFailureSnapshot, RecordFailureWrite, LoginReset,
           LoginIsAdmin, LoginMatchStore
  <2>3. QED
    BY <2>1, <2>2
<1>8. ASSUME NEW r \in Requests, HeartbeatNext(r)
      PROVE  NoDanglingSession'
  BY <1>2, <1>3, <1>6, <1>8
     DEF HeartbeatNext, HeartbeatRead, HeartbeatExpire, HeartbeatRecheck,
         HeartbeatLeave, DeleteByToken
<1>9. CASE OthersNext
  BY <1>4, <1>5, <1>6, <1>9
     DEF OthersNext, SetEmployeeActive, SetEmployeePassword, CompleteActivation,
         SyncEmployeeStores, SetAdmins
<1>10. CASE \/ UNCHANGED vars
            \/ Tick
            \/ \E r \in Requests : Abort(r)
            \/ \E t \in 1 .. issued : Logout(t)
  BY <1>6, <1>10 DEF vars, Tick, Abort, Logout, DeleteByToken
<1>11. QED
  BY <1>7, <1>8, <1>9, <1>10 DEF Next

-----------------------------------------------------------------------------
(* What the requests hold *)

(* No row holds the token after the step. *)
Gone(t) == \A s \in sessions' : s.token # t

(* A token whose Session has ended never names a row again. *)
LEMMA ClosedStaysClosed ==
  ASSUME TypeOK, [Next]_vars
  PROVE  /\ issued' \in Nat /\ issued <= issued'
         /\ \A t \in Nat : t <= issued /\ Named(t) = {} => Gone(t)
<1>1. CASE NoNewSession
  BY <1>1 DEF NoNewSession, Rewritten, SameSession, Named, Gone, TypeOK
<1>2. ASSUME NEW r \in Requests, OpensSession(r)
      PROVE  /\ issued' \in Nat /\ issued <= issued'
             /\ \A t \in Nat : t <= issued /\ Named(t) = {} => Gone(t)
  <2>1. sessions' \subseteq sessions \cup {NewSession(r)} /\ NewSession(r).token = issued + 1
    BY <1>2 DEF OpensSession, Upsert, NewSession
  <2>2. QED
    BY <1>2, <2>1 DEF OpensSession, Named, Gone, TypeOK
<1>3. QED
  BY <1>1, <1>2, SessionsStep

(* RequestsInv after the step, request by request. *)
LEMMA RequestsInvPrime ==
  ASSUME \A r \in Requests : /\ req'[r].token <= issued'
                             /\ req'[r].pc \in Ended => Gone(req'[r].token)
                             /\ req'[r].pc = "record" => req'[r].until # 0
  PROVE  RequestsInv'
BY DEF RequestsInv, Named, Gone

LEMMA OtherRequests ==
  ASSUME TypeOK, RequestsInv, [Next]_vars, NEW r \in Requests,
         req'[r] = req[r]
  PROVE  /\ req'[r].token <= issued'
         /\ req'[r].pc \in Ended => Gone(req'[r].token)
         /\ req'[r].pc = "record" => req'[r].until # 0
<1>1. req[r].token \in Nat
  BY DEF TypeOK, Request
<1>2. issued \in Nat /\ issued' \in Nat /\ issued <= issued'
  BY ClosedStaysClosed DEF TypeOK
<1>3. req[r].token <= issued /\ (req[r].pc = "record" => req[r].until # 0)
  BY DEF RequestsInv
<1>4. req[r].pc \in Ended => Gone(req[r].token)
  BY <1>1, <1>3, ClosedStaysClosed DEF RequestsInv
<1>5. QED
  BY <1>1, <1>2, <1>3, <1>4

LEMMA BecomesInv ==
  ASSUME TypeOK, RequestsInv, [Next]_vars, NEW r \in Requests, NEW q, Becomes(r, q),
         q.token \in Nat, q.token <= issued,
         q.pc \in Ended => Gone(q.token),
         q.pc = "record" => q.until # 0
  PROVE  RequestsInv'
<1>1. req'[r] = q /\ \A o \in Requests \ {r} : req'[o] = req[o]
  BY DEF TypeOK, Becomes
<1>2. q.token <= issued'
  BY ClosedStaysClosed DEF TypeOK
<1>3. QED
  BY <1>1, <1>2, OtherRequests, RequestsInvPrime

LEMMA NoRequest ==
  ASSUME TypeOK, RequestsInv, [Next]_vars, req' = req
  PROVE  RequestsInv'
BY OtherRequests, RequestsInvPrime

LEMMA ReturnInv ==
  ASSUME TypeOK, RequestsInv, [Next]_vars, NEW r \in Requests, Return(r)
  PROVE  RequestsInv'
<1>1. Idle.token = 0 /\ Idle.pc = "idle"
  BY DEF Idle
<1>2. 0 \in Nat /\ 0 <= issued
  BY DEF TypeOK
<1>3. QED
  BY <1>1, <1>2, BecomesInv DEF Return, Ended

LEMMA AnswerInv ==
  ASSUME TypeOK, RequestsInv, [Next]_vars, NEW r \in Requests, NEW a \in Ended,
         Answer(r, a), DeleteByToken(req[r].token)
  PROVE  RequestsInv'
<1> DEFINE q == [Idle EXCEPT !.pc = a, !.token = req[r].token]
<1>1. req[r].token \in Nat /\ req[r].token <= issued
  BY DEF TypeOK, Request, RequestsInv
<1>2. q.token = req[r].token /\ q.pc # "record"
  BY DEF Idle, Ended
<1>3. Gone(req[r].token)
  BY DEF Gone, DeleteByToken, Named
<1>4. Becomes(r, q)
  BY DEF Answer
<1> HIDE DEF q
<1>5. QED
  BY <1>1, <1>2, <1>3, <1>4, BecomesInv

(* The steps of a request that neither end it nor wait to record a failure. *)
LEMMA StepInv ==
  ASSUME TypeOK, RequestsInv, [Next]_vars, NEW r \in Requests, NEW q, Becomes(r, q),
         q.pc \in Steps \ {"record"}, q.token = req[r].token
  PROVE  RequestsInv'
<1>1. req[r].token \in Nat /\ req[r].token <= issued
  BY DEF TypeOK, Request, RequestsInv
<1>2. q.pc \notin Ended /\ q.pc # "record"
  BY DEF Steps, Ended
<1>3. QED
  BY <1>1, <1>2, BecomesInv

LEMMA LoginInv ==
  ASSUME TypeOK, RequestsInv, [Next]_vars, NEW r \in Requests, LoginNext(r)
  PROVE  RequestsInv'
<1> req[r] \in Request
  BY DEF TypeOK
<1>1. ASSUME NEW e \in Employees, NEW right \in BOOLEAN, LoginRead(r, e, right)
      PROVE  RequestsInv'
  <2> DEFINE q == [Idle EXCEPT !.pc = IF right THEN "reset" ELSE "fail", !.who = e,
                               !.verified = IF right THEN password[e] ELSE 0]
  <2>1. q.token = 0 /\ q.pc \notin Ended /\ q.pc # "record"
    BY DEF Idle, Ended
  <2>2. Becomes(r, q)
    BY <1>1 DEF LoginRead
  <2>3. 0 \in Nat /\ 0 <= issued
    BY DEF TypeOK
  <2> HIDE DEF q
  <2>4. QED
    BY <2>1, <2>2, <2>3, BecomesInv
<1>2. CASE RecordFailureSnapshot(r) /\ ~Return(r)
  <2> DEFINE q == [req[r] EXCEPT !.pc = "record", !.count = NewCount(req[r].who),
                                 !.until = now + LockoutDuration]
  <2>1. q.token = req[r].token /\ q.pc = "record" /\ q.until = now + LockoutDuration
    BY DEF Request
  <2>2. now + LockoutDuration # 0
    BY DurationsAssumption DEF TypeOK
  <2>3. Becomes(r, q)
    BY <1>2 DEF RecordFailureSnapshot
  <2>4. req[r].token \in Nat /\ req[r].token <= issued
    BY DEF Request, RequestsInv
  <2> HIDE DEF q
  <2>5. QED
    BY <2>1, <2>2, <2>3, <2>4, BecomesInv DEF Ended
<1>3. CASE LoginReset(r)
  <2>1. Becomes(r, [req[r] EXCEPT !.pc = "admin"])
    BY <1>3 DEF LoginReset
  <2>2. /\ [req[r] EXCEPT !.pc = "admin"].pc = "admin"
        /\ [req[r] EXCEPT !.pc = "admin"].token = req[r].token
    BY DEF Request
  <2>3. QED
    BY <2>1, <2>2, StepInv DEF Steps
<1>4. CASE LoginIsAdmin(r)
  <2> DEFINE q == [req[r] EXCEPT !.pc = IF isAdmin[req[r].who] THEN "open" ELSE "match",
                                 !.asAdmin = isAdmin[req[r].who]]
  <2>1. Becomes(r, q)
    BY <1>4 DEF LoginIsAdmin
  <2>2. q.pc \in {"open", "match"} /\ q.token = req[r].token
    BY DEF Request
  <2> HIDE DEF q
  <2>3. QED
    BY <2>1, <2>2, StepInv DEF Steps
<1>5. ASSUME NEW s, Becomes(r, [req[r] EXCEPT !.pc = "open", !.store = s])
      PROVE  RequestsInv'
  <2> DEFINE q == [req[r] EXCEPT !.pc = "open", !.store = s]
  <2>1. q.pc = "open" /\ q.token = req[r].token
    BY DEF Request
  <2>2. Becomes(r, q)
    BY <1>5
  <2> HIDE DEF q
  <2>3. QED
    BY <2>1, <2>2, StepInv DEF Steps
<1>6. CASE Return(r)
  BY <1>6, ReturnInv
<1>7. QED
  BY <1>1, <1>2, <1>3, <1>4, <1>5, <1>6
     DEF LoginNext, LoginMatchStore, RecordFailureWrite, LoginOpen

LEMMA HeartbeatInv ==
  ASSUME TypeOK, RequestsInv, [Next]_vars, NEW r \in Requests, HeartbeatNext(r)
  PROVE  RequestsInv'
<1> req[r] \in Request
  BY DEF TypeOK
<1>1. ASSUME NEW t \in 1 .. issued, HeartbeatRead(r, t)
      PROVE  RequestsInv'
  <2> DEFINE unknown == [Idle EXCEPT !.pc = "logged_out_elsewhere", !.token = t]
             known(s) == [Idle EXCEPT
                            !.pc = IF Silent(s) \/ Expired(s) THEN "expire" ELSE "recheck",
                            !.who = s.employee, !.store = s.store, !.token = t]
  <2>1. t \in Nat /\ t <= issued
    BY DEF TypeOK
  <2>2. CASE Named(t) = {} /\ Becomes(r, unknown)
    <3>1. unknown.token = t /\ unknown.pc # "record"
      BY DEF Idle
    <3>2. Gone(t)
      BY <2>1, <2>2, ClosedStaysClosed
    <3>3. Becomes(r, unknown)
      BY <2>2
    <3> HIDE DEF unknown
    <3>4. QED
      BY <2>1, <3>1, <3>2, <3>3, BecomesInv
  <2>3. ASSUME NEW s \in Named(t), Becomes(r, known(s))
        PROVE  RequestsInv'
    <3>1. /\ known(s).token = t
          /\ known(s).pc # "record"
          /\ known(s).pc \notin Ended
      BY DEF Idle, Ended
    <3>2. Becomes(r, known(s))
      BY <2>3
    <3> HIDE DEF known
    <3>3. QED
      BY <2>1, <3>1, <3>2, BecomesInv
  <2>4. CASE Return(r)
    BY <2>4, ReturnInv
  <2>5. QED
    BY <1>1, <2>2, <2>3, <2>4 DEF HeartbeatRead
<1>2. CASE HeartbeatExpire(r) \/ HeartbeatLeave(r)
  BY <1>2, AnswerInv DEF HeartbeatExpire, HeartbeatLeave, Ended
<1>3. ASSUME NEW p \in {"pass", "miss", "leave"}, Becomes(r, [req[r] EXCEPT !.pc = p])
      PROVE  RequestsInv'
  <2>1. /\ [req[r] EXCEPT !.pc = p].pc = p
        /\ [req[r] EXCEPT !.pc = p].token = req[r].token
    BY DEF Request
  <2>2. QED
    BY <1>3, <2>1, StepInv DEF Steps
<1>4. CASE Return(r)
  BY <1>4, ReturnInv
<1>5. QED
  BY <1>1, <1>2, <1>3, <1>4 DEF HeartbeatNext, HeartbeatRecheck, HeartbeatPass, HeartbeatMiss

LEMMA RequestsStep ==
  ASSUME TypeOK, RequestsInv, [Next]_vars
  PROVE  RequestsInv'
<1>1. CASE OthersNext
  BY <1>1, NoRequest DEF OthersNext, SetEmployeeActive, SetEmployeePassword,
     CompleteActivation, DeleteEmployee, SyncEmployeeStores, SetAdmins, DeleteStores
<1>2. CASE UNCHANGED vars \/ Tick \/ \E t \in 1 .. issued : Logout(t)
  BY <1>2, NoRequest DEF vars, Tick, Logout
<1>3. ASSUME NEW r \in Requests, Abort(r)
      PROVE  RequestsInv'
  BY <1>3, ReturnInv DEF Abort
<1>4. QED
  BY <1>1, <1>2, <1>3, LoginInv, HeartbeatInv DEF Next

-----------------------------------------------------------------------------
(* The theorems about Sessions *)

SessionInv ==
  TypeOK /\ TokensIssued /\ RequestsInv /\ OneSessionPerEmployee /\ NoDanglingSession
         /\ CapIsAbsolute

LEMMA SessionInvInit == Init => SessionInv
BY InitType DEF Init, SessionInv, TokensIssued, RequestsInv, OneSessionPerEmployee,
   NoDanglingSession, CapIsAbsolute, Idle, Ended

LEMMA SessionInvStep == SessionInv /\ [Next]_vars => SessionInv'
BY NextType, TokensIssuedStep, RequestsStep, OneSessionStep, DanglingStep, CapStep
   DEF SessionInv

LEMMA SessionInvHolds == Spec => []SessionInv
BY SessionInvInit, SessionInvStep, PTL DEF Spec

(* An Employee never has two Sessions, and a token never names two.        *)
THEOREM OneSession == Spec => []OneSessionPerEmployee
BY SessionInvHolds, PTL DEF SessionInv

(* No Session names an Employee or a Store that is gone, however long      *)
(* before UpsertSession the Login read them.                               *)
THEOREM NoSessionDangles == Spec => []NoDanglingSession
BY SessionInvHolds, PTL DEF SessionInv

(* No sequence of Heartbeats extends the absolute end of a Session.        *)
THEOREM SessionCapHolds == Spec => []CapIsAbsolute
BY SessionInvHolds, PTL DEF SessionInv

(* A device that was told its Session ended holds a dead token for good.   *)
THEOREM EndIsFinal == Spec => []EndedMeansEnded
<1>1. SessionInv => EndedMeansEnded
  BY DEF SessionInv, RequestsInv, EndedMeansEnded, Validates
<1>2. QED
  BY <1>1, SessionInvHolds, PTL

-----------------------------------------------------------------------------
(* The lockout: its two columns agree *)

RecordsCarryALock == \A r \in Requests : req[r].pc = "record" => req[r].until # 0

LockoutInv == TypeOK /\ RecordsCarryALock /\ LockoutConsistent /\ ResetsInv

(* What most steps leave alone. *)
KeepsAccounts == UNCHANGED <<failed, lockedUntil, resetTo, password>>

LEMMA QuietSteps ==
  ASSUME [Next]_vars
  PROVE  \/ KeepsAccounts
         \/ \E r \in Requests : RecordFailureWrite(r) \/ LoginReset(r)
         \/ \E e \in Employees : SetEmployeePassword(e) \/ CompleteActivation(e)
<1>1. ASSUME NEW r \in Requests, LoginNext(r)
      PROVE  KeepsAccounts \/ RecordFailureWrite(r) \/ LoginReset(r)
  BY <1>1 DEF LoginNext, LoginRead, RecordFailureSnapshot, LoginIsAdmin, LoginMatchStore,
       LoginOpen, KeepsAccounts, accountVars
<1>2. ASSUME NEW r \in Requests, HeartbeatNext(r) \/ Abort(r)
      PROVE  KeepsAccounts
  BY <1>2 DEF HeartbeatNext, HeartbeatRead, HeartbeatExpire, HeartbeatRecheck,
       HeartbeatPass, HeartbeatMiss, HeartbeatLeave, Abort, KeepsAccounts, accountVars
<1>3. ASSUME OthersNext
      PROVE  \/ KeepsAccounts
             \/ \E e \in Employees : SetEmployeePassword(e) \/ CompleteActivation(e)
  BY <1>3 DEF OthersNext, SetEmployeeActive, DeleteEmployee, SyncEmployeeStores,
       SetAdmins, DeleteStores, KeepsAccounts, accountVars
<1>4. CASE UNCHANGED vars \/ Tick \/ \E t \in 1 .. issued : Logout(t)
  BY <1>4 DEF vars, Tick, Logout, KeepsAccounts, accountVars
<1>5. QED
  BY <1>1, <1>2, <1>3, <1>4 DEF Next

(* Only RecordFailureSnapshot makes a record, and it stamps it. *)
LEMMA RecordsStep ==
  ASSUME TypeOK, RecordsCarryALock, [Next]_vars
  PROVE  RecordsCarryALock'
<1>1. ASSUME NEW r \in Requests, NEW q, Becomes(r, q), q.pc = "record" => q.until # 0
      PROVE  RecordsCarryALock'
  BY <1>1 DEF TypeOK, Becomes, RecordsCarryALock
<1>2. ASSUME req' = req
      PROVE  RecordsCarryALock'
  BY <1>2 DEF RecordsCarryALock
<1>3. ASSUME NEW r \in Requests, Return(r)
      PROVE  RecordsCarryALock'
  BY <1>1, <1>3 DEF Return, Idle
<1>4. ASSUME NEW r \in Requests, NEW a \in Ended, Answer(r, a)
      PROVE  RecordsCarryALock'
  <2>1. [Idle EXCEPT !.pc = a, !.token = req[r].token].pc # "record"
    BY DEF Idle, Ended
  <2>2. QED
    BY <1>1, <1>4, <2>1 DEF Answer
<1>5. ASSUME NEW r \in Requests, LoginNext(r)
      PROVE  RecordsCarryALock'
  <2> req[r] \in Request
    BY DEF TypeOK
  <2>1. CASE RecordFailureSnapshot(r) /\ ~Return(r)
    <3> DEFINE q == [req[r] EXCEPT !.pc = "record", !.count = NewCount(req[r].who),
                                   !.until = now + LockoutDuration]
    <3>1. q.until = now + LockoutDuration
      BY DEF Request
    <3>2. now + LockoutDuration # 0
      BY DurationsAssumption DEF TypeOK
    <3>3. Becomes(r, q)
      BY <2>1 DEF RecordFailureSnapshot
    <3> HIDE DEF q
    <3>4. QED
      BY <1>1, <3>1, <3>2, <3>3
  <2>2. ASSUME NEW e \in Employees, NEW right \in BOOLEAN, LoginRead(r, e, right)
        PROVE  RecordsCarryALock'
    <3> DEFINE q == [Idle EXCEPT !.pc = IF right THEN "reset" ELSE "fail", !.who = e,
                                 !.verified = IF right THEN password[e] ELSE 0]
    <3>1. q.pc # "record"
      BY DEF Idle
    <3>2. Becomes(r, q)
      BY <2>2 DEF LoginRead
    <3> HIDE DEF q
    <3>3. QED
      BY <1>1, <3>1, <3>2
  <2>3. CASE LoginReset(r)
    <3>1. [req[r] EXCEPT !.pc = "admin"].pc # "record"
      BY DEF Request
    <3>2. QED
      BY <1>1, <2>3, <3>1 DEF LoginReset
  <2>4. CASE LoginIsAdmin(r)
    <3> DEFINE q == [req[r] EXCEPT !.pc = IF isAdmin[req[r].who] THEN "open" ELSE "match",
                                   !.asAdmin = isAdmin[req[r].who]]
    <3>1. q.pc # "record"
      BY DEF Request
    <3>2. Becomes(r, q)
      BY <2>4 DEF LoginIsAdmin
    <3> HIDE DEF q
    <3>3. QED
      BY <1>1, <3>1, <3>2
  <2>5. ASSUME NEW s, Becomes(r, [req[r] EXCEPT !.pc = "open", !.store = s])
        PROVE  RecordsCarryALock'
    <3>1. [req[r] EXCEPT !.pc = "open", !.store = s].pc # "record"
      BY DEF Request
    <3>2. QED
      BY <1>1, <2>5, <3>1
  <2>6. QED
    BY <1>3, <1>5, <2>1, <2>2, <2>3, <2>4, <2>5
       DEF LoginNext, RecordFailureWrite, LoginMatchStore, LoginOpen
<1>6. ASSUME NEW r \in Requests, HeartbeatNext(r)
      PROVE  RecordsCarryALock'
  <2> req[r] \in Request
    BY DEF TypeOK
  <2>1. ASSUME NEW t \in 1 .. issued, HeartbeatRead(r, t)
        PROVE  RecordsCarryALock'
    <3> DEFINE unknown == [Idle EXCEPT !.pc = "logged_out_elsewhere", !.token = t]
               known(s) == [Idle EXCEPT
                              !.pc = IF Silent(s) \/ Expired(s) THEN "expire" ELSE "recheck",
                              !.who = s.employee, !.store = s.store, !.token = t]
    <3>1. unknown.pc # "record" /\ \A s : known(s).pc # "record"
      BY DEF Idle
    <3>2. Becomes(r, unknown) \/ Return(r) \/ \E s \in Named(t) : Becomes(r, known(s))
      BY <2>1 DEF HeartbeatRead
    <3> HIDE DEF unknown, known
    <3>3. QED
      BY <1>1, <1>3, <3>1, <3>2
  <2>2. ASSUME NEW p \in {"pass", "miss", "leave"},
               Becomes(r, [req[r] EXCEPT !.pc = p])
        PROVE  RecordsCarryALock'
    <3>1. [req[r] EXCEPT !.pc = p].pc # "record"
      BY DEF Request
    <3>2. QED
      BY <1>1, <2>2, <3>1
  <2>3. QED
    BY <1>3, <1>4, <1>6, <2>1, <2>2
       DEF HeartbeatNext, HeartbeatExpire, HeartbeatRecheck, HeartbeatPass,
           HeartbeatMiss, HeartbeatLeave, Ended
<1>7. CASE OthersNext
  BY <1>2, <1>7 DEF OthersNext, SetEmployeeActive, SetEmployeePassword,
     CompleteActivation, DeleteEmployee, SyncEmployeeStores, SetAdmins, DeleteStores
<1>8. CASE \/ UNCHANGED vars
           \/ Tick
           \/ \E t \in 1 .. issued : Logout(t)
           \/ \E r \in Requests : Abort(r)
  BY <1>2, <1>3, <1>8 DEF vars, Tick, Logout, Abort
<1>9. QED
  BY <1>5, <1>6, <1>7, <1>8 DEF Next

LEMMA ClearLockoutAgrees ==
  ASSUME TypeOK, LockoutConsistent, NEW e \in Employees, ClearLockout(e)
  PROVE  LockoutConsistent'
<1>1. ~(0 >= LockoutThreshold)
  BY ThresholdsAssumption
<1>2. QED
  BY <1>1 DEF TypeOK, LockoutConsistent, ClearLockout

LEMMA LockoutStep ==
  ASSUME LockoutInv, [Next]_vars
  PROVE  LockoutConsistent'
<1>1. ASSUME NEW r \in Requests, RecordFailureWrite(r)
      PROVE  LockoutConsistent'
  <2>1. req[r].until # 0 /\ req[r].who \in Employees /\ req[r].count \in Nat
    BY <1>1, StepType DEF RecordFailureWrite, At, Steps, LockoutInv, RecordsCarryALock, Request
  <2>2. QED
    BY <1>1, <2>1 DEF RecordFailureWrite, LockoutInv, TypeOK, LockoutConsistent
<1>2. ASSUME NEW r \in Requests, LoginReset(r)
      PROVE  LockoutConsistent'
  <2>1. req[r].who \in Employees
    BY <1>2, StepType DEF LoginReset, At, Steps, LockoutInv
  <2>2. QED
    BY <1>2, <2>1, ClearLockoutAgrees DEF LoginReset, LockoutInv, LockoutConsistent
<1>3. ASSUME NEW e \in Employees, SetEmployeePassword(e) \/ CompleteActivation(e)
      PROVE  LockoutConsistent'
  BY <1>3, ClearLockoutAgrees
     DEF SetEmployeePassword, CompleteActivation, LockoutInv, LockoutConsistent
<1>4. CASE KeepsAccounts
  BY <1>4 DEF KeepsAccounts, LockoutInv, LockoutConsistent
<1>5. QED
  BY <1>1, <1>2, <1>3, <1>4, QuietSteps

LEMMA ResetsStep ==
  ASSUME LockoutInv, [Next]_vars
  PROVE  ResetsInv'
<1>1. ASSUME NEW e \in Employees, SetEmployeePassword(e) \/ CompleteActivation(e)
      PROVE  ResetsInv'
  BY <1>1 DEF SetEmployeePassword, CompleteActivation, LockoutInv, TypeOK, ResetsInv
<1>2. ASSUME UNCHANGED <<resetTo, password>>
      PROVE  ResetsInv'
  BY <1>2 DEF LockoutInv, ResetsInv
<1>3. QED
  BY <1>1, <1>2, QuietSteps DEF KeepsAccounts, RecordFailureWrite, LoginReset

LEMMA LockoutInvInit == Init => LockoutInv
<1>1. ~(0 >= LockoutThreshold)
  BY ThresholdsAssumption
<1>2. Init => RecordsCarryALock
  BY DEF Init, RecordsCarryALock, Idle
<1>3. Init => LockoutConsistent
  BY <1>1 DEF Init, LockoutConsistent
<1>4. ASSUME Init
      PROVE  ResetsInv
  <2>1. TypeOK
    BY <1>4, InitType
  <2>2. SUFFICES ASSUME NEW e \in Employees
                 PROVE  resetTo[e] <= password[e]
    BY DEF ResetsInv
  <2>3. password[e] \in Nat /\ resetTo[e] = 0
    BY <1>4, <2>1 DEF Init, TypeOK
  <2>4. QED
    BY <2>3
<1>5. QED
  BY <1>2, <1>3, <1>4, InitType DEF LockoutInv

LEMMA LockoutInvHolds == Spec => []LockoutInv
<1>1. LockoutInv /\ [Next]_vars => LockoutInv'
  BY NextType, RecordsStep, LockoutStep, ResetsStep DEF LockoutInv
<1>2. QED
  BY <1>1, LockoutInvInit, PTL DEF Spec

(* failed_login_attempts and locked_until never drift apart, although a    *)
(* failed attempt writes both from a snapshot that may be stale.           *)
THEOREM LockoutColumnsAgree == Spec => []LockoutConsistent
BY LockoutInvHolds, PTL DEF LockoutInv

-----------------------------------------------------------------------------
(* The lockout: a lock holds, whatever number of attempts are in flight *)

StaysLocked(e) == lockedUntil'[e] = lockedUntil[e] /\ InFlight(e)' = {}

EndsLock(e) == (~Locked(e)' /\ now' > now) \/ resetTo'[e] # resetTo[e]

(* A step of a request that is not a Login's first one brings no Login of  *)
(* the Employee into flight.                                               *)
LEMMA NoLoginBegins ==
  ASSUME TypeOK, NEW e \in Employees, InFlight(e) = {},
         NEW r \in Requests, NEW q, Becomes(r, q),
         q.who = e => q.pc \notin {"fail", "record", "reset"}
  PROVE  InFlight(e)' = {}
<1>1. req'[r] = q /\ \A o \in Requests \ {r} : req'[o] = req[o]
  BY DEF TypeOK, Becomes
<1>2. QED
  BY <1>1 DEF InFlight

LEMMA ReturnNoLogin ==
  ASSUME TypeOK, NEW e \in Employees, InFlight(e) = {}, NEW r \in Requests, Return(r)
  PROVE  InFlight(e)' = {}
BY NoLoginBegins DEF Return, Idle

LEMMA AnswerNoLogin ==
  ASSUME TypeOK, NEW e \in Employees, InFlight(e) = {}, NEW r \in Requests,
         NEW a \in Ended, Answer(r, a)
  PROVE  InFlight(e)' = {}
<1>1. [Idle EXCEPT !.pc = a, !.token = req[r].token].pc \notin {"fail", "record", "reset"}
  BY DEF Idle, Ended
<1>2. QED
  BY <1>1, NoLoginBegins DEF Answer

LEMMA LockedLogin ==
  ASSUME TypeOK, NEW e \in employees, Locked(e), InFlight(e) = {},
         NEW r \in Requests, LoginNext(r)
  PROVE  StaysLocked(e)
<1> req[r] \in Request /\ e \in Employees
  BY DEF TypeOK
<1>1. ASSUME NEW f \in Employees, NEW right \in BOOLEAN, LoginRead(r, f, right)
      PROVE  StaysLocked(e)
  <2> DEFINE q == [Idle EXCEPT !.pc = IF right THEN "reset" ELSE "fail", !.who = f,
                               !.verified = IF right THEN password[f] ELSE 0]
  <2>1. f # e
    BY <1>1 DEF LoginRead
  <2>2. q.who = f
    BY DEF Idle
  <2>3. Becomes(r, q) /\ lockedUntil' = lockedUntil
    BY <1>1 DEF LoginRead, accountVars
  <2> HIDE DEF q
  <2>4. QED
    BY <2>1, <2>2, <2>3, NoLoginBegins DEF StaysLocked
<1>2. CASE RecordFailureSnapshot(r)
  <2>1. req[r].who # e
    BY <1>2 DEF RecordFailureSnapshot, At, InFlight
  <2>2. lockedUntil' = lockedUntil
    BY <1>2 DEF RecordFailureSnapshot, accountVars
  <2>3. CASE Return(r)
    BY <2>2, <2>3, ReturnNoLogin DEF StaysLocked
  <2>4. CASE ~Return(r)
    <3> DEFINE q == [req[r] EXCEPT !.pc = "record", !.count = NewCount(req[r].who),
                                   !.until = now + LockoutDuration]
    <3>1. q.who = req[r].who
      BY DEF Request
    <3>2. Becomes(r, q)
      BY <1>2, <2>4 DEF RecordFailureSnapshot
    <3> HIDE DEF q
    <3>3. QED
      BY <2>1, <2>2, <3>1, <3>2, NoLoginBegins DEF StaysLocked
  <2>5. QED
    BY <2>3, <2>4
<1>3. CASE RecordFailureWrite(r)
  <2>1. req[r].who # e
    BY <1>3 DEF RecordFailureWrite, At, InFlight
  <2>2. lockedUntil'[e] = lockedUntil[e]
    BY <1>3, <2>1 DEF RecordFailureWrite, TypeOK
  <2>3. QED
    BY <1>3, <2>2, ReturnNoLogin DEF RecordFailureWrite, StaysLocked
<1>4. CASE LoginReset(r)
  <2>1. req[r].who # e
    BY <1>4 DEF LoginReset, At, InFlight
  <2>2. lockedUntil'[e] = lockedUntil[e]
    BY <1>4, <2>1 DEF LoginReset, ClearLockout, TypeOK
  <2>3. [req[r] EXCEPT !.pc = "admin"].pc = "admin"
    BY DEF Request
  <2>4. QED
    BY <1>4, <2>2, <2>3, NoLoginBegins DEF LoginReset, StaysLocked
<1>5. CASE LoginIsAdmin(r)
  <2> DEFINE q == [req[r] EXCEPT !.pc = IF isAdmin[req[r].who] THEN "open" ELSE "match",
                                 !.asAdmin = isAdmin[req[r].who]]
  <2>1. q.pc \in {"open", "match"}
    BY DEF Request
  <2>2. Becomes(r, q) /\ lockedUntil' = lockedUntil
    BY <1>5 DEF LoginIsAdmin, accountVars
  <2> HIDE DEF q
  <2>3. QED
    BY <2>1, <2>2, NoLoginBegins DEF StaysLocked
<1>6. CASE LoginMatchStore(r)
  <2>1. \A s : [req[r] EXCEPT !.pc = "open", !.store = s].pc = "open"
    BY DEF Request
  <2>2. \/ Return(r)
        \/ \E s : Becomes(r, [req[r] EXCEPT !.pc = "open", !.store = s])
    BY <1>6 DEF LoginMatchStore
  <2>3. InFlight(e)' = {}
    BY <2>1, <2>2, ReturnNoLogin, NoLoginBegins
  <2>4. QED
    BY <1>6, <2>3 DEF LoginMatchStore, StaysLocked, accountVars
<1>7. CASE LoginOpen(r)
  BY <1>7, ReturnNoLogin DEF LoginOpen, StaysLocked, accountVars
<1>8. QED
  BY <1>1, <1>2, <1>3, <1>4, <1>5, <1>6, <1>7 DEF LoginNext

LEMMA LockedHeartbeat ==
  ASSUME TypeOK, NEW e \in employees, InFlight(e) = {},
         NEW r \in Requests, HeartbeatNext(r)
  PROVE  StaysLocked(e)
<1> req[r] \in Request /\ e \in Employees
  BY DEF TypeOK
<1>1. lockedUntil' = lockedUntil
  BY DEF HeartbeatNext, HeartbeatRead, HeartbeatExpire, HeartbeatRecheck,
         HeartbeatPass, HeartbeatMiss, HeartbeatLeave, accountVars
<1>2. ASSUME NEW t \in 1 .. issued, HeartbeatRead(r, t)
      PROVE  InFlight(e)' = {}
  <2> DEFINE unknown == [Idle EXCEPT !.pc = "logged_out_elsewhere", !.token = t]
             known(s) == [Idle EXCEPT
                            !.pc = IF Silent(s) \/ Expired(s) THEN "expire" ELSE "recheck",
                            !.who = s.employee, !.store = s.store, !.token = t]
  <2>1. /\ unknown.pc \notin {"fail", "record", "reset"}
        /\ \A s : known(s).pc \notin {"fail", "record", "reset"}
    BY DEF Idle
  <2>2. Becomes(r, unknown) \/ Return(r) \/ \E s \in Named(t) : Becomes(r, known(s))
    BY <1>2 DEF HeartbeatRead
  <2> HIDE DEF unknown, known
  <2>3. QED
    BY <2>1, <2>2, ReturnNoLogin, NoLoginBegins
<1>3. ASSUME NEW p \in {"pass", "miss", "leave"}, Becomes(r, [req[r] EXCEPT !.pc = p])
      PROVE  InFlight(e)' = {}
  <2>1. [req[r] EXCEPT !.pc = p].pc = p
    BY DEF Request
  <2>2. QED
    BY <1>3, <2>1, NoLoginBegins
<1>4. QED
  BY <1>1, <1>2, <1>3, ReturnNoLogin, AnswerNoLogin
     DEF HeartbeatNext, HeartbeatExpire, HeartbeatRecheck, HeartbeatPass,
         HeartbeatMiss, HeartbeatLeave, Ended, StaysLocked

LEMMA LockedOthers ==
  ASSUME LockoutInv, NEW e \in employees, InFlight(e) = {}, OthersNext
  PROVE  StaysLocked(e) \/ EndsLock(e)
<1> e \in Employees
  BY DEF LockoutInv, TypeOK
<1>1. req' = req
  BY DEF OthersNext, SetEmployeeActive, SetEmployeePassword, CompleteActivation,
         DeleteEmployee, SyncEmployeeStores, SetAdmins, DeleteStores
<1>2. InFlight(e)' = {}
  BY <1>1 DEF InFlight
<1>3. ASSUME NEW f \in Employees, CompleteActivation(f)
      PROVE  StaysLocked(e) \/ EndsLock(e)
  <2>1. CASE f = e
    BY <1>3, <2>1 DEF CompleteActivation, LockoutInv, TypeOK, ResetsInv, EndsLock
  <2>2. CASE f # e
    BY <1>2, <1>3, <2>2 DEF CompleteActivation, ClearLockout, LockoutInv, TypeOK, StaysLocked
  <2>3. QED
    BY <2>1, <2>2
<1>4. CASE ~\E f \in Employees : CompleteActivation(f)
  BY <1>2, <1>4 DEF OthersNext, SetEmployeeActive, SetEmployeePassword,
     DeleteEmployee, SyncEmployeeStores, SetAdmins, DeleteStores, StaysLocked, accountVars
<1>5. QED
  BY <1>3, <1>4

LEMMA LockedRest ==
  ASSUME LockoutInv, NEW e \in employees, InFlight(e) = {},
         \/ UNCHANGED vars
         \/ Tick
         \/ \E t \in 1 .. issued : Logout(t)
         \/ \E r \in Requests : Abort(r)
  PROVE  StaysLocked(e)
<1> e \in Employees /\ TypeOK
  BY DEF LockoutInv, TypeOK
<1>1. lockedUntil' = lockedUntil
  BY DEF vars, Tick, Logout, Abort, accountVars
<1>2. ASSUME req' = req
      PROVE  InFlight(e)' = {}
  BY <1>2 DEF InFlight
<1>3. QED
  BY <1>1, <1>2, ReturnNoLogin DEF vars, Tick, Logout, Abort, StaysLocked

(* Once no Login of a locked-out Employee is in flight, nothing but the    *)
(* end of the lock or a completed reset lets a password be tried again.    *)
THEOREM LockHolds == Spec => LockHoldsOnceDrained
<1>1. LockoutInv /\ [Next]_vars =>
        [\A e \in employees :
           Locked(e) /\ InFlight(e) = {} =>
             \/ lockedUntil'[e] = lockedUntil[e] /\ InFlight(e)' = {}
             \/ ~Locked(e)' /\ now' > now
             \/ resetTo'[e] # resetTo[e]]_vars
  <2> SUFFICES ASSUME LockoutInv, [Next]_vars,
                      NEW e \in employees, Locked(e), InFlight(e) = {}
               PROVE  StaysLocked(e) \/ EndsLock(e)
    BY DEF StaysLocked, EndsLock
  <2> TypeOK
    BY DEF LockoutInv
  <2>1. QED
    BY LockedLogin, LockedHeartbeat, LockedOthers, LockedRest DEF Next
<1>2. QED
  BY <1>1, LockoutInvHolds, PTL DEF Spec, LockHoldsOnceDrained

-----------------------------------------------------------------------------
(* How a step changes which Sessions are open *)

(* The same Employees have a Session, under the same tokens. *)
KeepsTokens ==
  /\ issued' = issued
  /\ \A s \in sessions : \E o \in sessions' : o.employee = s.employee /\ o.token = s.token
  /\ \A o \in sessions' : \E s \in sessions : o.employee = s.employee /\ o.token = s.token

EndsToken(t) == issued' = issued /\ sessions' = sessions \ Named(t)

EndsEmployee(e) == issued' = issued /\ sessions' = {s \in sessions : s.employee # e}

LEMMA LoginOpens ==
  ASSUME TypeOK, NEW r \in Requests, LoginNext(r)
  PROVE  KeepsTokens \/ OpensSession(r)
<1>1. CASE LoginOpen(r)
  BY <1>1, LoginOpenWrites DEF LoginOpen, OpensSession, KeepsTokens
<1>2. CASE ~LoginOpen(r)
  BY <1>2 DEF LoginNext, LoginRead, RecordFailureSnapshot, RecordFailureWrite, LoginReset,
       LoginIsAdmin, LoginMatchStore, KeepsTokens
<1>3. QED
  BY <1>1, <1>2

LEMMA HeartbeatKeeps ==
  ASSUME TypeOK, NEW r \in Requests, HeartbeatPass(r) \/ HeartbeatMiss(r)
  PROVE  KeepsTokens
<1> DEFINE f(s) == IF s.token # req[r].token THEN s
                   ELSE IF HeartbeatPass(r) THEN Refreshed(s) ELSE FailedOnce(s)
<1>1. \A s \in sessions : f(s).employee = s.employee /\ f(s).token = s.token
  BY DEF TypeOK, Session, Refreshed, FailedOnce
<1>2. sessions' = {f(s) : s \in sessions}
  BY DEF HeartbeatPass, HeartbeatMiss, Named
<1>3. issued' = issued
  BY DEF HeartbeatPass, HeartbeatMiss
<1> HIDE DEF f
<1>4. QED
  BY <1>1, <1>2, <1>3 DEF KeepsTokens

LEMMA HeartbeatEnds ==
  ASSUME TypeOK, NEW r \in Requests, HeartbeatNext(r)
  PROVE  \/ KeepsTokens
         \/ /\ EndsToken(req[r].token)
            /\ req[r].pc \in {"expire", "leave"}
            /\ req'[r].pc \in Ended
<1>1. CASE HeartbeatPass(r) \/ HeartbeatMiss(r)
  BY <1>1, HeartbeatKeeps
<1>2. CASE HeartbeatExpire(r) \/ HeartbeatLeave(r)
  BY <1>2 DEF HeartbeatExpire, HeartbeatLeave, At, DeleteByToken, EndsToken, Answer,
       Becomes, Idle, Ended, TypeOK
<1>3. CASE HeartbeatRecheck(r) \/ \E t \in 1 .. issued : HeartbeatRead(r, t)
  BY <1>3 DEF HeartbeatRecheck, HeartbeatRead, KeepsTokens
<1>4. QED
  BY <1>1, <1>2, <1>3 DEF HeartbeatNext

LEMMA OthersEnd ==
  ASSUME TypeOK, OthersNext
  PROVE  \/ KeepsTokens
         \/ \E e \in Employees : EndsEmployee(e) /\ (CompleteActivation(e) \/ DeleteEmployee(e))
<1>1. ASSUME NEW gone \in SUBSET Stores, DeleteStores(gone)
      PROVE  KeepsTokens
  <2>1. \A s \in sessions : /\ Orphaned(s, gone).employee = s.employee
                            /\ Orphaned(s, gone).token = s.token
    BY DEF TypeOK, Session, Orphaned
  <2>2. QED
    BY <1>1, <2>1 DEF DeleteStores, KeepsTokens
<1>2. ASSUME NEW e \in Employees, CompleteActivation(e) \/ DeleteEmployee(e)
      PROVE  EndsEmployee(e)
  BY <1>2 DEF CompleteActivation, DeleteEmployee, EndsEmployee
<1>3. ASSUME UNCHANGED <<sessions, issued>>
      PROVE  KeepsTokens
  BY <1>3 DEF KeepsTokens
<1>4. QED
  BY <1>1, <1>2, <1>3
     DEF OthersNext, SetEmployeeActive, SetEmployeePassword, SyncEmployeeStores, SetAdmins

LEMMA RestEnds ==
  ASSUME \/ UNCHANGED vars
         \/ Tick
         \/ \E r \in Requests : Abort(r)
         \/ \E t \in 1 .. issued : Logout(t)
  PROVE  KeepsTokens \/ \E t \in 1 .. issued : EndsToken(t) /\ Logout(t)
BY DEF vars, Tick, Abort, Logout, DeleteByToken, KeepsTokens, EndsToken

-----------------------------------------------------------------------------
(* Why a Session ends *)

EndsForAReason(s) ==
  \/ \E o \in sessions' : o.employee = s.employee /\ o.token > s.token
  \/ s.employee \notin employees'
  \/ resetTo'[s.employee] # resetTo[s.employee]
  \/ Logout(s.token)
  \/ \E r \in Requests :
       /\ req[r].pc \in {"expire", "leave"}
       /\ req[r].token = s.token
       /\ req'[r].pc \in Ended

LEMMA EveryEndHasAReason ==
  ASSUME SessionInv, ResetsInv, [Next]_vars, NEW s \in sessions, Gone(s.token)
  PROVE  EndsForAReason(s)
<1> s.employee \in Employees /\ s.token \in Nat /\ TypeOK
  BY DEF SessionInv, TypeOK, Session
<1>1. ~KeepsTokens
  BY DEF KeepsTokens, Gone
<1>2. ASSUME NEW r \in Requests, OpensSession(r)
      PROVE  EndsForAReason(s)
  <2>1. s.employee = req[r].who
    BY <1>2 DEF OpensSession, Upsert, NewSession, Gone
  <2>2. NewSession(r) \in sessions' /\ NewSession(r).employee = s.employee
    BY <1>2, <2>1 DEF OpensSession, Upsert, NewSession
  <2>3. NewSession(r).token > s.token
    BY DEF NewSession, SessionInv, TokensIssued, TypeOK
  <2>4. QED
    BY <2>2, <2>3 DEF EndsForAReason
<1>3. ASSUME NEW t, EndsToken(t)
      PROVE  t = s.token
  BY <1>3 DEF EndsToken, Named, Gone
<1>4. ASSUME NEW e \in Employees, EndsEmployee(e), CompleteActivation(e) \/ DeleteEmployee(e)
      PROVE  EndsForAReason(s)
  <2>1. e = s.employee
    BY <1>4 DEF EndsEmployee, Gone
  <2>2. CASE CompleteActivation(e)
    <3>1. resetTo'[e] = password[e] + 1
      BY <2>2 DEF CompleteActivation, TypeOK
    <3>2. resetTo[e] <= password[e] /\ resetTo[e] \in Nat /\ password[e] \in Nat
      BY DEF ResetsInv, TypeOK
    <3>3. QED
      BY <2>1, <3>1, <3>2 DEF EndsForAReason
  <2>3. CASE DeleteEmployee(e)
    BY <2>1, <2>3 DEF DeleteEmployee, EndsForAReason
  <2>4. QED
    BY <1>4, <2>2, <2>3
<1>5. CASE \E r \in Requests : LoginNext(r)
  BY <1>1, <1>2, <1>5, LoginOpens
<1>6. CASE \E r \in Requests : HeartbeatNext(r)
  BY <1>1, <1>3, <1>6, HeartbeatEnds DEF EndsForAReason
<1>7. CASE OthersNext
  BY <1>1, <1>4, <1>7, OthersEnd
<1>8. CASE \/ UNCHANGED vars
           \/ Tick
           \/ \E r \in Requests : Abort(r)
           \/ \E t \in 1 .. issued : Logout(t)
  BY <1>1, <1>3, <1>8, RestEnds DEF EndsForAReason
<1>9. QED
  BY <1>5, <1>6, <1>7, <1>8 DEF Next

(* A Heartbeat, Logout or Login never ends the Session of another token,   *)
(* except that a Login ends the one it takes the place of.                 *)
THEOREM SessionsEndForAReason == Spec => SessionEndsForAReason
<1>1. SessionInv /\ ResetsInv /\ [Next]_vars =>
        [\A s \in sessions :
           Named(s.token)' = {} =>
             \/ \E o \in sessions' : o.employee = s.employee /\ o.token > s.token
             \/ s.employee \notin employees'
             \/ resetTo'[s.employee] # resetTo[s.employee]
             \/ Logout(s.token)
             \/ \E r \in Requests :
                  /\ req[r].pc \in {"expire", "leave"}
                  /\ req[r].token = s.token
                  /\ req'[r].pc \in Ended]_vars
  <2> SUFFICES ASSUME SessionInv, ResetsInv, [Next]_vars,
                      NEW s \in sessions, \A o \in sessions' : o.token # s.token
               PROVE  EndsForAReason(s)
    BY DEF EndsForAReason, Named
  <2>1. QED
    BY EveryEndHasAReason DEF Gone
<1>2. QED
  BY <1>1, SessionInvHolds, LockoutInvHolds, PTL
     DEF Spec, SessionEndsForAReason, LockoutInv

-----------------------------------------------------------------------------
(* The rows implement the life of Sessions *)

(* At most one row of S belongs to an Employee. *)
OneEach(S) == \A s, o \in S : s.employee = o.employee => s = o

TokenIn(S, e) ==
  IF \E s \in S : s.employee = e THEN (CHOOSE s \in S : s.employee = e).token ELSE 0

LEMMA TokenOfRow ==
  ASSUME NEW S, OneEach(S), NEW s \in S
  PROVE  TokenIn(S, s.employee) = s.token
<1>1. (CHOOSE o \in S : o.employee = s.employee) = s
  BY DEF OneEach
<1>2. QED
  BY <1>1 DEF TokenIn

LEMMA TokenOfNoRow ==
  ASSUME NEW S, NEW e, \A s \in S : s.employee # e
  PROVE  TokenIn(S, e) = 0
BY DEF TokenIn

(* Where two sets of rows have the same token for an Employee. *)
LEMMA SameToken ==
  ASSUME NEW S, NEW T, OneEach(S), OneEach(T), NEW e,
         \A s \in S : s.employee = e => \E o \in T : o.employee = e /\ o.token = s.token,
         \A o \in T : o.employee = e => \E s \in S : s.employee = e /\ s.token = o.token
  PROVE  TokenIn(S, e) = TokenIn(T, e)
<1>1. CASE \E s \in S : s.employee = e
  <2>1. PICK s \in S : s.employee = e
    BY <1>1
  <2>2. PICK o \in T : o.employee = e /\ o.token = s.token
    BY <2>1
  <2>3. QED
    BY <2>1, <2>2, TokenOfRow
<1>2. CASE ~\E s \in S : s.employee = e
  BY <1>2, TokenOfNoRow
<1>3. QED
  BY <1>1, <1>2

Map(S) == [e \in Employees |-> TokenIn(S, e)]

LEMMA LifecycleDefs ==
  /\ Lifecycle!Init <=> issued = 0 /\ Map(sessions) = [e \in Employees |-> 0]
  /\ \A e : Lifecycle!Open(e) <=>
       issued' = issued + 1 /\ Map(sessions') = [Map(sessions) EXCEPT ![e] = issued + 1]
  /\ \A e : Lifecycle!End(e) <=>
       /\ Map(sessions)[e] # 0
       /\ Map(sessions') = [Map(sessions) EXCEPT ![e] = 0]
       /\ issued' = issued
  /\ UNCHANGED Lifecycle!vars <=> issued' = issued /\ Map(sessions') = Map(sessions)
BY DEF Lifecycle!Init, Lifecycle!Open, Lifecycle!End, Lifecycle!vars, OpenToken, Map, TokenIn

LEMMA KeepsTokensIsStutter ==
  ASSUME OneEach(sessions), OneEach(sessions'), KeepsTokens
  PROVE  UNCHANGED Lifecycle!vars
<1>1. \A e \in Employees : TokenIn(sessions, e) = TokenIn(sessions', e)
  BY SameToken DEF KeepsTokens
<1>2. QED
  BY <1>1, LifecycleDefs DEF KeepsTokens, Map

LEMMA OpensIsOpen ==
  ASSUME TypeOK, OneEach(sessions), OneEach(sessions'), NEW r \in Requests, OpensSession(r)
  PROVE  \E e \in Employees : Lifecycle!Open(e)
<1> DEFINE who == req[r].who
<1>1. who \in Employees
  BY DEF OpensSession, ForeignKeysHold, TypeOK
<1>2. /\ NewSession(r) \in sessions'
      /\ NewSession(r).employee = who
      /\ NewSession(r).token = issued + 1
  BY DEF OpensSession, Upsert, NewSession
<1>3. TokenIn(sessions', who) = issued + 1
  BY <1>2, TokenOfRow
<1>4. ASSUME NEW e \in Employees, e # who
      PROVE  TokenIn(sessions', e) = TokenIn(sessions, e)
  <2>1. /\ \A s \in sessions : s.employee = e => s \in sessions'
        /\ \A o \in sessions' : o.employee = e => o \in sessions
    BY <1>2, <1>4 DEF OpensSession, Upsert
  <2>2. QED
    BY <2>1, SameToken
<1>5. Map(sessions') = [Map(sessions) EXCEPT ![who] = issued + 1]
  BY <1>1, <1>3, <1>4 DEF Map
<1>6. Lifecycle!Open(who)
  BY <1>5, LifecycleDefs DEF OpensSession
<1>7. QED
  BY <1>1, <1>6

(* Removing the rows of one Employee. *)
LEMMA EndsIsEnd ==
  ASSUME TypeOK, TokensIssued, OneEach(sessions), OneEach(sessions'), issued' = issued,
         NEW s \in sessions, sessions' = {o \in sessions : o.employee # s.employee}
  PROVE  \E e \in Employees : Lifecycle!End(e)
<1>1. s.employee \in Employees /\ s.token # 0
  BY DEF TypeOK, Session, TokensIssued
<1>2. TokenIn(sessions, s.employee) # 0
  BY <1>1, TokenOfRow
<1>3. TokenIn(sessions', s.employee) = 0
  BY TokenOfNoRow
<1>4. ASSUME NEW e \in Employees, e # s.employee
      PROVE  TokenIn(sessions', e) = TokenIn(sessions, e)
  BY <1>4, SameToken
<1>5. Map(sessions') = [Map(sessions) EXCEPT ![s.employee] = 0]
  BY <1>1, <1>3, <1>4 DEF Map
<1>6. Map(sessions)[s.employee] # 0
  BY <1>1, <1>2 DEF Map
<1>7. QED
  BY <1>1, <1>5, <1>6, LifecycleDefs

LEMMA EndsEmployeeIsEnd ==
  ASSUME TypeOK, TokensIssued, OneEach(sessions), OneEach(sessions'),
         NEW e, EndsEmployee(e)
  PROVE  UNCHANGED Lifecycle!vars \/ \E f \in Employees : Lifecycle!End(f)
<1>1. CASE \E s \in sessions : s.employee = e
  BY <1>1, EndsIsEnd DEF EndsEmployee
<1>2. CASE ~\E s \in sessions : s.employee = e
  BY <1>2, KeepsTokensIsStutter DEF EndsEmployee, KeepsTokens
<1>3. QED
  BY <1>1, <1>2

LEMMA EndsTokenIsEnd ==
  ASSUME SessionInv, OneEach(sessions), OneEach(sessions'), NEW t, EndsToken(t)
  PROVE  UNCHANGED Lifecycle!vars \/ \E f \in Employees : Lifecycle!End(f)
<1> TypeOK /\ TokensIssued
  BY DEF SessionInv
<1>1. CASE Named(t) = {}
  BY <1>1, KeepsTokensIsStutter DEF EndsToken, KeepsTokens
<1>2. CASE Named(t) # {}
  <2>1. PICK s \in Named(t) : TRUE
    BY <1>2
  <2>2. s \in sessions /\ s.token = t
    BY <2>1 DEF Named
  <2>3. \A o \in sessions : o.employee = s.employee <=> o \in Named(t)
    BY <2>2 DEF Named, SessionInv, OneSessionPerEmployee
  <2>4. sessions' = {o \in sessions : o.employee # s.employee}
    BY <2>3 DEF EndsToken
  <2>5. QED
    BY <2>2, <2>4, EndsIsEnd DEF EndsToken
<1>3. QED
  BY <1>1, <1>2

LEMMA LifecycleStep ==
  ASSUME SessionInv, SessionInv', [Next]_vars
  PROVE  [Lifecycle!Next]_Lifecycle!vars
<1> TypeOK /\ TokensIssued /\ OneEach(sessions) /\ OneEach(sessions')
  BY DEF SessionInv, OneSessionPerEmployee, OneEach
<1>1. CASE KeepsTokens
  BY <1>1, KeepsTokensIsStutter
<1>2. CASE \E r \in Requests : OpensSession(r)
  BY <1>2, OpensIsOpen DEF Lifecycle!Next
<1>3. CASE \E t : EndsToken(t)
  BY <1>3, EndsTokenIsEnd DEF Lifecycle!Next
<1>4. CASE \E e : EndsEmployee(e)
  BY <1>4, EndsEmployeeIsEnd DEF Lifecycle!Next
<1>5. QED
  BY <1>1, <1>2, <1>3, <1>4, LoginOpens, HeartbeatEnds, OthersEnd, RestEnds DEF Next

(* Whatever the interleaving, the rows of sessions behave as Sessions that *)
(* are opened under fresh tokens and, once ended, never open again.        *)
THEOREM SessionsImplementLifecycle == Spec => ImplementsLifecycle
<1>1. Init => Lifecycle!Init
  <2>1. ASSUME Init
        PROVE  Map(sessions) = [e \in Employees |-> 0] /\ issued = 0
    BY <2>1, TokenOfNoRow DEF Init, Map
  <2>2. QED
    BY <2>1, LifecycleDefs
<1>2. SessionInv /\ SessionInv' /\ [Next]_vars => [Lifecycle!Next]_Lifecycle!vars
  BY LifecycleStep
<1>3. QED
  BY <1>1, <1>2, SessionInvHolds, PTL DEF Spec, ImplementsLifecycle, Lifecycle!Spec
=============================================================================
