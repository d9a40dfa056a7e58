-------------------------------- MODULE Auth --------------------------------
(***************************************************************************)
(* Login, Logout, Heartbeat and ValidateSession of internal/auth, served   *)
(* by concurrent requests over the rows of Postgres they share with the    *)
(* rest of the backend.                                                    *)
(*                                                                         *)
(* None of these handlers opens a transaction: every statement commits on  *)
(* its own, so a handler is a sequence of actions, one per statement, with *)
(* what it has read kept in the request's record.  The operations of the   *)
(* employees, positions and stores services that touch the same rows are   *)
(* one action each, their commit.                                          *)
(*                                                                         *)
(* Passwords are version numbers (0 for SQL NULL), session tokens numbers  *)
(* in the order they are handed out (they are 256 random bits: no two are  *)
(* equal), times a bounded clock shared by the API and the database, and   *)
(* 0 stands for the time NULL.                                             *)
(***************************************************************************)
EXTENDS Integers

CONSTANTS
  Employees,                  \* the Employees that have been created
  Stores,                     \* the Stores that Odoo has reported
  Requests,                   \* the goroutines that serve requests
  Nobody, NoStore,            \* SQL NULL for an Employee and for a store_id
  LockoutThreshold,           \* loginLockoutThreshold, 5
  LockoutDuration,            \* loginLockoutDuration, 15 minutes
  AdminTTL,                   \* adminSessionTTL, 8 hours
  NonAdminTTL,                \* nonAdminSessionTTL, 12 hours
  HeartbeatFailureThreshold,  \* heartbeatFailureThreshold, 2
  HeartbeatSilence,           \* heartbeatSilenceTimeout, 90 seconds
  MaxTime,                    \* bound of the clock
  MaxTokens,                  \* bound of the Sessions ever opened
  MaxPassword,                \* bound of an Employee's password changes
  MaxCount                    \* bound of the two counters of failures

ASSUME NullAssumption == Nobody \notin Employees /\ NoStore \notin Stores
ASSUME DurationsAssumption ==
  {LockoutDuration, AdminTTL, NonAdminTTL, HeartbeatSilence} \subseteq Nat \ {0}
ASSUME ThresholdsAssumption ==
  {LockoutThreshold, HeartbeatFailureThreshold} \subseteq Nat \ {0}
ASSUME BoundsAssumption == {MaxTime, MaxTokens, MaxPassword, MaxCount} \subseteq Nat

VARIABLES
  now,           \* the clock
  \* table employees, and what is joined to it
  employees,     \* the rows that exist
  password,      \* version of the password, 0 before activation
  isActive,      \* is_active
  failed,        \* failed_login_attempts
  lockedUntil,   \* locked_until
  isAdmin,       \* holds the Position named Admin
  memberOf,      \* employee_stores
  \* table store
  stores,        \* the rows that exist
  \* table sessions
  sessions,      \* its rows
  issued,        \* how many tokens have been handed out
  \* the API process
  req,           \* what each request is doing
  \* history
  resetTo        \* the password version of the last completed reset, 0 for none

accountVars == <<password, isActive, failed, lockedUntil>>
rightsVars == <<isAdmin, memberOf>>
vars == <<now, employees, accountVars, rightsVars, stores, sessions, issued, req, resetTo>>

-----------------------------------------------------------------------------
Session ==
  [employee      : Employees,
   store         : Stores \cup {NoStore},
   token         : Nat,
   issuedAt      : Nat,
   expiresAt     : Nat,
   lastHeartbeat : Nat,
   failures      : Nat,       \* consecutive_failures
   asAdmin       : BOOLEAN,   \* history: opened for an Admin
   verified      : Nat]       \* history: the password version Login checked

(* Where a request is: what it does next, for which Employee, or that it   *)
(* has told its device why the Session ended; any other answer leaves it   *)
(* idle.                                                                   *)
Steps == {"fail", "record", "reset", "admin", "match", "open",
          "expire", "recheck", "pass", "miss", "leave"}
Ended == {"logged_out_elsewhere", "session_expired", "left_premises"}
Answers == Ended \cup {"idle"}

Request ==
  {q \in [pc       : Steps \cup Answers,
          who      : Employees \cup {Nobody},   \* who logs in, or whose Session was read
          verified : Nat,                       \* the password version it matched
          count    : Nat,                       \* new failed_login_attempts
          until    : Nat,                       \* new locked_until
          store    : Stores \cup {NoStore},     \* the Store that matched
          asAdmin  : BOOLEAN,                   \* logging in as Admin
          token    : Nat] :                     \* the bearer token of a Heartbeat
     q.pc \in Steps => q.who \in Employees}

Idle ==
  [pc |-> "idle", who |-> Nobody, verified |-> 0, count |-> 0, until |-> 0,
   store |-> NoStore, asAdmin |-> FALSE, token |-> 0]

(* Types.  A request is one record whatever its handler: what the handler *)
(* has read so far, and nothing of the database.                          *)
TypeOK ==
  /\ now \in Nat
  /\ employees \subseteq Employees
  /\ password \in [Employees -> Nat]
  /\ isActive \in [Employees -> BOOLEAN]
  /\ failed \in [Employees -> Nat]
  /\ lockedUntil \in [Employees -> Nat]
  /\ isAdmin \in [Employees -> BOOLEAN]
  /\ memberOf \in [Employees -> SUBSET Stores]
  /\ stores \subseteq Stores
  /\ sessions \subseteq Session
  /\ issued \in Nat
  /\ req \in [Requests -> Request]
  /\ resetTo \in [Employees -> Nat]

(* Employees have just been created, or already set their first password;  *)
(* nobody is logged in.                                                    *)
Init ==
  /\ now = 0
  /\ employees = Employees
  /\ password \in [Employees -> {v \in {0, 1} : v <= MaxPassword}]
  /\ isActive = [e \in Employees |-> TRUE]
  /\ failed = [e \in Employees |-> 0]
  /\ lockedUntil = [e \in Employees |-> 0]
  /\ isAdmin \in [Employees -> BOOLEAN]
  /\ memberOf \in [Employees -> SUBSET Stores]
  /\ stores = Stores
  /\ sessions = {}
  /\ issued = 0
  /\ req = [r \in Requests |-> Idle]
  /\ resetTo = [e \in Employees |-> 0]

Ready(r) == req[r].pc \in Answers
At(r, step) == req[r].pc = step
Becomes(r, q) == req' = [req EXCEPT ![r] = q]
Return(r) == Becomes(r, Idle)
Answer(r, reason) == Becomes(r, [Idle EXCEPT !.pc = reason, !.token = req[r].token])

(* The rows a token names: at most one, token_hash is UNIQUE. *)
Named(t) == {s \in sessions : s.token = t}

-----------------------------------------------------------------------------
(* Login *)

Locked(e) == lockedUntil[e] # 0 /\ lockedUntil[e] > now

(* Mutated: without the test of locked_until. *)
LoginReadIgnoresLock(r, e, right) ==
  /\ Ready(r)
  /\ e \in employees
  /\ password[e] # 0
  /\ isActive[e]
  /\ Becomes(r, [Idle EXCEPT !.pc = IF right THEN "reset" ELSE "fail",
                             !.who = e,
                             !.verified = IF right THEN password[e] ELSE 0])
  /\ UNCHANGED <<now, employees, accountVars, rightsVars, stores, sessions, issued, resetTo>>

(* GetEmployeeByUsername and the checks made on the row it returned.  An   *)
(* unknown username, an Employee who is not activated, is inactive or is   *)
(* locked out is answered without any change.                              *)
LoginRead(r, e, right) ==
  /\ Ready(r)
  /\ e \in employees
  /\ password[e] # 0
  /\ isActive[e]
  /\ ~Locked(e)
  /\ Becomes(r, [Idle EXCEPT !.pc = IF right THEN "reset" ELSE "fail",
                             !.who = e,
                             !.verified = IF right THEN password[e] ELSE 0])
  /\ UNCHANGED <<now, employees, accountVars, rightsVars, stores, sessions, issued, resetTo>>

(* RecordFailedLoginAttempt is an UPDATE joined to a subquery on the same  *)
(* row.  The subquery is evaluated on the statement's snapshot; when the   *)
(* UPDATE then waits for another writer of the row it keeps what the       *)
(* subquery saw (READ COMMITTED rechecks only the target row).             *)
NewCount(e) ==
  IF lockedUntil[e] # 0 /\ lockedUntil[e] <= now THEN 1 ELSE failed[e] + 1

RecordFailureSnapshot(r) ==
  LET e == req[r].who IN
  /\ At(r, "fail")
  /\ IF e \in employees
       THEN /\ NewCount(e) <= MaxCount
            /\ Becomes(r, [req[r] EXCEPT !.pc = "record",
                                         !.count = NewCount(e),
                                         !.until = now + LockoutDuration])
       ELSE Return(r)
  /\ UNCHANGED <<now, employees, accountVars, rightsVars, stores, sessions, issued, resetTo>>

RecordFailureWrite(r) ==
  LET e == req[r].who IN
  /\ At(r, "record")
  /\ IF e \in employees
       THEN /\ failed' = [failed EXCEPT ![e] = req[r].count]
            /\ lockedUntil' = [lockedUntil EXCEPT ![e] =
                 IF req[r].count >= LockoutThreshold THEN req[r].until ELSE 0]
       ELSE UNCHANGED <<failed, lockedUntil>>
  /\ Return(r)
  /\ UNCHANGED <<now, employees, password, isActive, rightsVars, stores, sessions,
                 issued, resetTo>>

(* Mutated: the count starts over, the lock stays. *)
ClearCountOnly(e) ==
  /\ failed' = [failed EXCEPT ![e] = 0]
  /\ UNCHANGED lockedUntil

(* ResetFailedLoginAttempts, for a Login and for a completed reset. *)
ClearLockout(e) ==
  /\ failed' = [failed EXCEPT ![e] = 0]
  /\ lockedUntil' = [lockedUntil EXCEPT ![e] = 0]

LoginReset(r) ==
  LET e == req[r].who IN
  /\ At(r, "reset")
  /\ IF e \in employees THEN ClearLockout(e) ELSE UNCHANGED <<failed, lockedUntil>>
  /\ Becomes(r, [req[r] EXCEPT !.pc = "admin"])
  /\ UNCHANGED <<now, employees, password, isActive, rightsVars, stores, sessions,
                 issued, resetTo>>

LoginIsAdmin(r) ==
  /\ At(r, "admin")
  /\ Becomes(r, [req[r] EXCEPT !.pc = IF isAdmin[req[r].who] THEN "open" ELSE "match",
                               !.asAdmin = isAdmin[req[r].who]])
  /\ UNCHANGED <<now, employees, accountVars, rightsVars, stores, sessions, issued, resetTo>>

(* ListStoresForLoginByEmployeeID and matchStore: one of the Employee's    *)
(* Stores, or ErrNoStoreMatch (module Presence says which one).            *)
LoginMatchStore(r) ==
  /\ At(r, "match")
  /\ \/ \E s \in memberOf[req[r].who] :
          Becomes(r, [req[r] EXCEPT !.pc = "open", !.store = s])
     \/ Return(r)
  /\ UNCHANGED <<now, employees, accountVars, rightsVars, stores, sessions, issued, resetTo>>

(* Mutated: a plain INSERT, no ON CONFLICT (employee_id) DO UPDATE. *)
UpsertInserts(s) == sessions \cup {s}

(* Mutated: DO UPDATE without token_hash = EXCLUDED.token_hash. *)
UpsertKeepsToken(s) ==
  LET old == {o \in sessions : o.employee = s.employee} IN
  IF old = {} THEN sessions \cup {s}
  ELSE (sessions \ old) \cup {[s EXCEPT !.token = o.token] : o \in old}

(* UpsertSession: the row of the Employee, if any, is overwritten. *)
Upsert(s) == {o \in sessions : o.employee # s.employee} \cup {s}

(* Mutated: no foreign key on store_id. *)
EmployeeKeyHolds(e, s) == e \in employees

(* Its foreign keys: the Employee and the Store still have to exist. *)
ForeignKeysHold(e, s) == e \in employees /\ (s = NoStore \/ s \in stores)

LoginOpen(r) ==
  /\ At(r, "open")
  /\ IF ForeignKeysHold(req[r].who, req[r].store)
       THEN /\ issued < MaxTokens
            /\ issued' = issued + 1
            /\ sessions' = Upsert(
                 [employee |-> req[r].who, store |-> req[r].store, token |-> issued + 1,
                  issuedAt |-> now,
                  expiresAt |-> now + (IF req[r].asAdmin THEN AdminTTL ELSE NonAdminTTL),
                  lastHeartbeat |-> now, failures |-> 0,
                  asAdmin |-> req[r].asAdmin, verified |-> req[r].verified])
       ELSE UNCHANGED <<sessions, issued>>
  /\ Return(r)
  /\ UNCHANGED <<now, employees, accountVars, rightsVars, stores, resetTo>>

-----------------------------------------------------------------------------
(* Logout, Heartbeat, ValidateSession: requests made with a token that was *)
(* handed out, whether or not its Session is still open.                   *)

DeleteByToken(t) == sessions' = sessions \ Named(t)

Logout(t) ==
  /\ DeleteByToken(t)
  /\ UNCHANGED <<now, employees, accountVars, rightsVars, stores, issued, req, resetTo>>

Silent(s) == now - s.lastHeartbeat > HeartbeatSilence
Expired(s) == s.expiresAt < now

(* GetSessionByTokenHash and the checks made on the row it returned. *)
HeartbeatRead(r, t) ==
  /\ Ready(r)
  /\ \/ /\ Named(t) = {}
        /\ Becomes(r, [Idle EXCEPT !.pc = "logged_out_elsewhere", !.token = t])
     \/ \E s \in Named(t) :
          IF s.store = NoStore
            THEN Return(r)
            ELSE Becomes(r, [Idle EXCEPT
                   !.pc = IF Silent(s) \/ Expired(s) THEN "expire" ELSE "recheck",
                   !.who = s.employee, !.store = s.store, !.token = t])
  /\ UNCHANGED <<now, employees, accountVars, rightsVars, stores, sessions, issued, resetTo>>

(* Mutated: the device is told, the row stays. *)
HeartbeatExpireKeepsRow(r) ==
  /\ At(r, "expire")
  /\ Answer(r, "session_expired")
  /\ UNCHANGED <<now, employees, accountVars, rightsVars, stores, sessions, issued, resetTo>>

HeartbeatExpire(r) ==
  /\ At(r, "expire")
  /\ DeleteByToken(req[r].token)
  /\ Answer(r, "session_expired")
  /\ UNCHANGED <<now, employees, accountVars, rightsVars, stores, issued, resetTo>>

(* GetStoreByID, its whitelists and matchStore on that one Store. *)
HeartbeatRecheck(r) ==
  /\ At(r, "recheck")
  /\ IF req[r].store \in stores
       THEN \E next \in {"pass", "miss"} : Becomes(r, [req[r] EXCEPT !.pc = next])
       ELSE Return(r)
  /\ UNCHANGED <<now, employees, accountVars, rightsVars, stores, sessions, issued, resetTo>>

(* Mutated: a passing Heartbeat extends the Session. *)
RefreshedExtends(s) ==
  [s EXCEPT !.lastHeartbeat = now, !.failures = 0, !.expiresAt = now + NonAdminTTL]

(* Mutated: the count goes the wrong way. *)
FailedOnceDown(s) == [s EXCEPT !.lastHeartbeat = now, !.failures = @ - 1]

Refreshed(s) == [s EXCEPT !.lastHeartbeat = now, !.failures = 0]
FailedOnce(s) == [s EXCEPT !.lastHeartbeat = now, !.failures = @ + 1]

(* RecordHeartbeatSuccess; an error if the Session is gone by now. *)
HeartbeatPass(r) ==
  LET t == req[r].token IN
  /\ At(r, "pass")
  /\ sessions' = (sessions \ Named(t)) \cup {Refreshed(s) : s \in Named(t)}
  /\ Return(r)
  /\ UNCHANGED <<now, employees, accountVars, rightsVars, stores, issued, resetTo>>

(* RecordHeartbeatFailure, and the test of the count it returns. *)
HeartbeatMiss(r) ==
  LET t == req[r].token IN
  /\ At(r, "miss")
  /\ \A s \in Named(t) : s.failures < MaxCount
  /\ sessions' = (sessions \ Named(t)) \cup {FailedOnce(s) : s \in Named(t)}
  /\ IF \E s \in Named(t) : s.failures + 1 >= HeartbeatFailureThreshold
       THEN Becomes(r, [req[r] EXCEPT !.pc = "leave"])
       ELSE Return(r)
  /\ UNCHANGED <<now, employees, accountVars, rightsVars, stores, issued, resetTo>>

(* Mutated: DeleteSessionByEmployeeID where DeleteSessionByTokenHash is due. *)
HeartbeatLeaveByEmployee(r) ==
  /\ At(r, "leave")
  /\ sessions' = {s \in sessions : s.employee # req[r].who}
  /\ Answer(r, "left_premises")
  /\ UNCHANGED <<now, employees, accountVars, rightsVars, stores, issued, resetTo>>

HeartbeatLeave(r) ==
  /\ At(r, "leave")
  /\ DeleteByToken(req[r].token)
  /\ Answer(r, "left_premises")
  /\ UNCHANGED <<now, employees, accountVars, rightsVars, stores, issued, resetTo>>

(* ValidateSession changes nothing: whether a token gets past it, and past *)
(* AdminOnly.                                                              *)
Validates(t) == \E s \in Named(t) : ~Expired(s)
AdmittedByAdminOnly(t) == \E s \in Named(t) : ~Expired(s) /\ isAdmin[s.employee]

(* A statement fails or the request's context ends (a 60 s timeout, a      *)
(* client that went away): the handler returns, what it wrote stays.       *)
Abort(r) ==
  /\ req[r].pc \in Steps
  /\ Return(r)
  /\ UNCHANGED <<now, employees, accountVars, rightsVars, stores, sessions, issued, resetTo>>

-----------------------------------------------------------------------------
(* The other services, at their commit. *)

SetEmployeeActive(e, b) ==
  /\ e \in employees
  /\ isActive' = [isActive EXCEPT ![e] = b]
  /\ UNCHANGED <<now, employees, password, failed, lockedUntil, rightsVars, stores,
                 sessions, issued, req, resetTo>>

(* SetEmployeePassword, and UpdateEmployee with a password: nothing else   *)
(* of the account changes, its Session stays open.                         *)
SetEmployeePassword(e) ==
  /\ e \in employees
  /\ password[e] < MaxPassword
  /\ password' = [password EXCEPT ![e] = @ + 1]
  /\ UNCHANGED <<now, employees, isActive, failed, lockedUntil, rightsVars, stores,
                 sessions, issued, req, resetTo>>

(* CompleteActivation: the new password, the Session's end and the lockout *)
(* reset in one transaction.  Module PasswordReset says when it can run.   *)
CompleteActivation(e) ==
  /\ e \in employees
  /\ password[e] < MaxPassword
  /\ password' = [password EXCEPT ![e] = @ + 1]
  /\ resetTo' = [resetTo EXCEPT ![e] = password[e] + 1]
  /\ sessions' = {s \in sessions : s.employee # e}
  /\ ClearLockout(e)
  /\ UNCHANGED <<now, employees, isActive, rightsVars, stores, issued, req>>

(* ON DELETE CASCADE on sessions, employee_stores and employee_positions. *)
DeleteEmployee(e) ==
  /\ e \in employees
  /\ employees' = employees \ {e}
  /\ sessions' = {s \in sessions : s.employee # e}
  /\ isAdmin' = [isAdmin EXCEPT ![e] = FALSE]
  /\ memberOf' = [memberOf EXCEPT ![e] = {}]
  /\ UNCHANGED <<now, accountVars, stores, issued, req, resetTo>>

(* The positions service, and UpdateEmployee with positions: a Position is *)
(* assigned, unassigned, renamed or deleted.                               *)
SetAdmins(admins) ==
  /\ admins \subseteq employees
  /\ isAdmin' = [e \in Employees |-> e \in admins]
  /\ UNCHANGED <<now, employees, accountVars, memberOf, stores, sessions, issued, req, resetTo>>

(* Employee sync: the Employee's Stores are what Odoo says they are. *)
SyncEmployeeStores(e, members) ==
  /\ e \in employees
  /\ members \subseteq stores
  /\ memberOf' = [memberOf EXCEPT ![e] = members]
  /\ UNCHANGED <<now, employees, accountVars, isAdmin, stores, sessions, issued, req, resetTo>>

(* Store sync: DeleteStores on the Stores Odoo no longer reports.  ON      *)
(* DELETE SET NULL on sessions.store_id, CASCADE on employee_stores.       *)
Orphaned(s, gone) == IF s.store \in gone THEN [s EXCEPT !.store = NoStore] ELSE s

DeleteStores(gone) ==
  /\ gone \subseteq stores
  /\ stores' = stores \ gone
  /\ sessions' = {Orphaned(s, gone) : s \in sessions}
  /\ memberOf' = [e \in Employees |-> memberOf[e] \ gone]
  /\ UNCHANGED <<now, employees, accountVars, isAdmin, issued, req, resetTo>>

Tick ==
  /\ now < MaxTime
  /\ now' = now + 1
  /\ UNCHANGED <<employees, accountVars, rightsVars, stores, sessions, issued, req, resetTo>>

-----------------------------------------------------------------------------
LoginNext(r) ==
  \/ \E e \in Employees, right \in BOOLEAN : LoginRead(r, e, right)
  \/ RecordFailureSnapshot(r)
  \/ RecordFailureWrite(r)
  \/ LoginReset(r)
  \/ LoginIsAdmin(r)
  \/ LoginMatchStore(r)
  \/ LoginOpen(r)

HeartbeatNext(r) ==
  \/ \E t \in 1 .. issued : HeartbeatRead(r, t)
  \/ HeartbeatExpire(r)
  \/ HeartbeatRecheck(r)
  \/ HeartbeatPass(r)
  \/ HeartbeatMiss(r)
  \/ HeartbeatLeave(r)

OthersNext ==
  \/ \E e \in Employees :
       \/ \E b \in BOOLEAN : SetEmployeeActive(e, b)
       \/ SetEmployeePassword(e)
       \/ CompleteActivation(e)
       \/ DeleteEmployee(e)
       \/ \E members \in SUBSET Stores : SyncEmployeeStores(e, members)
  \/ \E admins \in SUBSET Employees : SetAdmins(admins)
  \/ \E gone \in SUBSET Stores : DeleteStores(gone)

Next ==
  \/ \E r \in Requests : LoginNext(r) \/ HeartbeatNext(r) \/ Abort(r)
  \/ \E t \in 1 .. issued : Logout(t)
  \/ OthersNext
  \/ Tick

Spec == Init /\ [][Next]_vars

-----------------------------------------------------------------------------
(* Safety *)

(* An Employee has at most one Session, and a token names at most one,     *)
(* however many Logins, Heartbeats and resets overlap (CONTEXT.md, "An     *)
(* Employee has at most one Session at a time").                           *)
OneSessionPerEmployee ==
  \A s, o \in sessions : s.employee = o.employee \/ s.token = o.token => s = o

(* A Session never outlives its Employee, nor names a Store that is gone,  *)
(* though Login checks both long before UpsertSession writes them.         *)
NoDanglingSession ==
  \A s \in sessions :
    s.employee \in employees /\ (s.store = NoStore \/ s.store \in stores)

(* An Employee is locked out exactly when failed_login_attempts says so:   *)
(* the two columns are set by three handlers and must not drift apart,     *)
(* also when a failed attempt is recorded from a stale snapshot.           *)
LockoutConsistent ==
  \A e \in Employees : failed[e] >= LockoutThreshold <=> lockedUntil[e] # 0

InFlight(e) ==
  {r \in Requests : req[r].who = e /\ req[r].pc \in {"fail", "record", "reset"}}

(* Once the Logins admitted before the lock have drained, a locked-out     *)
(* Employee stays locked out and no further password is tried, whatever    *)
(* admins do to the account meanwhile, until the time is over or a reset   *)
(* is completed.                                                           *)
LockHoldsOnceDrained ==
  [][\A e \in employees :
       Locked(e) /\ InFlight(e) = {} =>
         \/ lockedUntil'[e] = lockedUntil[e] /\ InFlight(e)' = {}
         \/ ~Locked(e)'  /\ now' > now
         \/ resetTo'[e] # resetTo[e]]_vars

(* What a device was told stays true: after logged_out_elsewhere,          *)
(* session_expired or left_premises its token never validates again, even  *)
(* if other Heartbeats with the same token were in flight.                 *)
EndedMeansEnded ==
  \A r \in Requests : req[r].pc \in Ended => ~Validates(req[r].token)

(* The 12 hours (8 for an Admin) count from the Login: nothing that        *)
(* happens to a Session extends them (ADR-0014).                           *)
CapIsAbsolute ==
  \A s \in sessions :
    /\ s.expiresAt = s.issuedAt + (IF s.asAdmin THEN AdminTTL ELSE NonAdminTTL)
    /\ s.issuedAt <= s.lastHeartbeat /\ s.lastHeartbeat <= now

(* A Session only ever ends because its Employee logged in again, was      *)
(* deleted or completed a reset, because its own token logged out, or      *)
(* because a Heartbeat sent with its own token found it ended.  A late     *)
(* Heartbeat of a superseded Session leaves the new one alone.             *)
SessionEndsForAReason ==
  [][\A s \in sessions :
       Named(s.token)' = {} =>
         \/ \E o \in sessions' : o.employee = s.employee /\ o.token > s.token
         \/ s.employee \notin employees'
         \/ resetTo'[s.employee] # resetTo[s.employee]
         \/ Logout(s.token)
         \/ \E r \in Requests :
              /\ req[r].pc \in {"expire", "leave"}
              /\ req[r].token = s.token
              /\ req'[r].pc \in Ended]_vars

(* What the invariants rest on: a row and a handler only hold tokens that  *)
(* were handed out, a device is told its Session ended when no row is left *)
(* for its token, a failed attempt carries the lock it may set, and a      *)
(* reset sets a password later than the one before.                        *)
TokensIssued == \A s \in sessions : 1 <= s.token /\ s.token <= issued

RequestsInv ==
  \A r \in Requests :
    /\ req[r].token <= issued
    /\ req[r].pc \in Ended => Named(req[r].token) = {}
    /\ req[r].pc = "record" => req[r].until # 0

ResetsInv == \A e \in Employees : resetTo[e] <= password[e]

AuthInv ==
  /\ TypeOK
  /\ TokensIssued
  /\ RequestsInv
  /\ ResetsInv
  /\ OneSessionPerEmployee
  /\ NoDanglingSession
  /\ CapIsAbsolute
  /\ LockoutConsistent

(* The rows of sessions implement the abstract life of a Session. *)
OpenToken(e) ==
  IF \E s \in sessions : s.employee = e
    THEN (CHOOSE s \in sessions : s.employee = e).token
    ELSE 0

Lifecycle == INSTANCE SessionLifecycle WITH open <- [e \in Employees |-> OpenToken(e)]

ImplementsLifecycle == Lifecycle!Spec

-----------------------------------------------------------------------------
(* What the repository says and the code does not do. *)

(* queries.sql says that RecordFailedLoginAttempt "atomically increments   *)
(* failed_login_attempts".                                                 *)
FailuresAreCounted ==
  [][\A r \in Requests :
       RecordFailureWrite(r) /\ req[r].who \in employees =>
         failed'[req[r].who] = NewCount(req[r].who)]_vars

(* CONTEXT.md and the comment in Heartbeat say that a Session without a    *)
(* Store is an Admin Session, never Heartbeat-monitored.                   *)
StorelessMeansAdmin ==
  \A s \in sessions : s.store = NoStore => s.asAdmin

(* CompleteActivation's comment says that no session from before a reset   *)
(* is left behind.                                                         *)
NoSessionUnderOldPassword ==
  \A s \in sessions : s.verified >= resetTo[s.employee]

=============================================================================
