---------------------------- MODULE PasswordReset ----------------------------
(***************************************************************************)
(* The single-use links of internal/employees: issuePasswordResetToken and *)
(* the mail that follows it, CompleteActivation, and DeleteEmployee, as    *)
(* transactions of concurrent requests in one API process.                 *)
(*                                                                         *)
(* A transaction's writes take effect in the action that commits it; until *)
(* then the request's record holds the row locks it took, and other        *)
(* transactions wait for them.  Postgres resolves a deadlock by failing    *)
(* one of the transactions.  The mutex of the Employee (syncx.KeyedMutex)  *)
(* lives in the process and is lost when it dies.                          *)
(*                                                                         *)
(* Tokens are numbered in the order they are inserted.                     *)
(***************************************************************************)
EXTENDS Integers, FiniteSets

CONSTANTS
  Employees,
  Requests,      \* the goroutines that serve requests or send a mail
  Nobody,        \* no Employee, and no holder of a mutex
  TokenTTL,      \* activationTokenTTL, 30 minutes
  MaxTime,       \* bound of the clock
  MaxTokens      \* bound of the tokens ever issued

ASSUME NobodyAssumption == Nobody \notin Employees \cup Requests
ASSUME TTLAssumption == TokenTTL \in Nat \ {0}
ASSUME ResetBoundsAssumption == {MaxTime, MaxTokens} \subseteq Nat

VARIABLES
  now,         \* the clock
  employees,   \* the rows of table employees
  isActive,    \* is_active
  tokens,      \* the rows of table password_reset_tokens
  last,        \* how many tokens have been inserted
  mailed,      \* the tokens whose link has been mailed
  mutex,       \* passwordResetLocks: who holds the lock of each Employee
  req,         \* what each request is doing
  completed    \* history: the tokens that set a password

vars == <<now, employees, isActive, tokens, last, mailed, mutex, req, completed>>

-----------------------------------------------------------------------------
Token ==
  [id : Nat \ {0}, employee : Employees, expiresAt : Nat, used : BOOLEAN]

(* What a request does next.  The transactions are open in "invalidate",   *)
(* "insert", "claim", "set" and "cascade".                                 *)
InTransaction == {"invalidate", "insert", "claim", "set", "cascade"}
Steps == InTransaction \cup {"lock", "mail"}

Request ==
  [pc    : Steps \cup {"idle"},
   who   : Employees \cup {Nobody},
   token : Nat,            \* the token to mail, or to redeem
   began : Nat,            \* the time its expiry is reckoned from, or compared with
   holds : SUBSET Nat]     \* the token rows it has locked

Idle == [pc |-> "idle", who |-> Nobody, token |-> 0, began |-> 0, holds |-> {}]

(* Types; only tokens that were inserted are ever mailed or redeemed. *)
TypeOK ==
  /\ now \in Nat
  /\ employees \subseteq Employees
  /\ isActive \in [Employees -> BOOLEAN]
  /\ tokens \subseteq Token
  /\ last \in Nat
  /\ mailed \subseteq 1 .. last
  /\ mutex \in [Employees -> Requests \cup {Nobody}]
  /\ req \in [Requests -> Request]
  /\ completed \subseteq 1 .. last

Init ==
  /\ now = 0
  /\ employees = Employees
  /\ isActive = [e \in Employees |-> TRUE]
  /\ tokens = {}
  /\ last = 0
  /\ mailed = {}
  /\ mutex = [e \in Employees |-> Nobody]
  /\ req = [r \in Requests |-> Idle]
  /\ completed = {}

At(r, step) == req[r].pc = step
Becomes(r, q) == req' = [req EXCEPT ![r] = q]

(* The tokens an Employee has that are not used, expired or not. *)
Outstanding(e) == {t \in tokens : t.employee = e /\ ~t.used}
Ids(ts) == {t.id : t \in ts}

LockedByOther(r, ids) == \E q \in Requests \ {r} : req[q].holds \cap ids # {}
BeingDeleted(e) == \E q \in Requests : At(q, "cascade") /\ req[q].who = e

(* Mutated: the deferred unlock is missing. *)
UnlockForgotten(r) == UNCHANGED mutex

Unlock(r) == mutex' = [e \in Employees |-> IF mutex[e] = r THEN Nobody ELSE mutex[e]]

(* The transaction is rolled back and the handler returns. *)
RollBack(r) == Becomes(r, Idle) /\ Unlock(r)

(* Mutated: used_at is not set. *)
SpentNone(ids) == tokens

Spent(ids) == {IF t.id \in ids THEN [t EXCEPT !.used = TRUE] ELSE t : t \in tokens}

-----------------------------------------------------------------------------
(* Issuing a link: CreateEmployee's detached sendActivationEmail,          *)
(* RequestPasswordReset and BulkSendPasswordResetLinks.                    *)

Issuing == {r \in Requests : req[r].pc \in {"lock", "invalidate", "insert"}}

IssueBegin(r, e) ==
  /\ At(r, "idle")
  /\ e \in employees
  /\ isActive[e]
  /\ last + Cardinality(Issuing) < MaxTokens
  /\ Becomes(r, [Idle EXCEPT !.pc = "lock", !.who = e])
  /\ UNCHANGED <<now, employees, isActive, tokens, last, mailed, mutex, completed>>

(* Mutated: the Employee's mutex is not taken. *)
IssueLockNotTaken(r) ==
  /\ At(r, "lock")
  /\ Becomes(r, [req[r] EXCEPT !.pc = "invalidate"])
  /\ UNCHANGED <<now, employees, isActive, tokens, last, mailed, mutex, completed>>

(* passwordResetLocks.Lock: waits until the mutex is free, deadline or not. *)
IssueLock(r) ==
  /\ At(r, "lock")
  /\ mutex[req[r].who] = Nobody
  /\ mutex' = [mutex EXCEPT ![req[r].who] = r]
  /\ Becomes(r, [req[r] EXCEPT !.pc = "invalidate"])
  /\ UNCHANGED <<now, employees, isActive, tokens, last, mailed, completed>>

(* Mutated: not in the transaction, so that it commits at once. *)
IssueInvalidateCommits(r) ==
  LET ids == Ids(Outstanding(req[r].who)) IN
  /\ At(r, "invalidate")
  /\ ~LockedByOther(r, ids)
  /\ tokens' = Spent(ids)
  /\ Becomes(r, [req[r] EXCEPT !.pc = "insert", !.began = now])
  /\ UNCHANGED <<now, employees, isActive, last, mailed, mutex, completed>>

(* InvalidatePasswordResetTokensByEmployeeID: locks what it invalidates.   *)
(* The new token's expiry is reckoned from here.                           *)
IssueInvalidate(r) ==
  LET ids == Ids(Outstanding(req[r].who)) IN
  /\ At(r, "invalidate")
  /\ ~LockedByOther(r, ids)
  /\ Becomes(r, [req[r] EXCEPT !.pc = "insert", !.began = now, !.holds = ids])
  /\ UNCHANGED <<now, employees, isActive, tokens, last, mailed, mutex, completed>>

NewToken(r) ==
  [id |-> last + 1, employee |-> req[r].who, expiresAt |-> req[r].began + TokenTTL,
   used |-> FALSE]

(* Mutated: tokens are not told apart. *)
IssueInsertSameId(r) ==
  /\ At(r, "insert")
  /\ ~BeingDeleted(req[r].who)
  /\ Unlock(r)
  /\ IF req[r].who \in employees
       THEN /\ tokens' = Spent(req[r].holds) \cup {NewToken(r)}
            /\ Becomes(r, [Idle EXCEPT !.pc = "mail", !.who = req[r].who, !.token = last + 1])
       ELSE Becomes(r, Idle) /\ UNCHANGED tokens
  /\ UNCHANGED <<now, employees, isActive, last, mailed, completed>>

(* CreatePasswordResetToken and the commit; the deferred unlock follows.   *)
(* The foreign key locks the Employee's row against its deletion, or       *)
(* waits for it, or fails the transaction when the Employee is gone.       *)
IssueInsert(r) ==
  /\ At(r, "insert")
  /\ ~BeingDeleted(req[r].who)
  /\ Unlock(r)
  /\ IF req[r].who \in employees
       THEN /\ last' = last + 1
            /\ tokens' = Spent(req[r].holds) \cup {NewToken(r)}
            /\ Becomes(r, [Idle EXCEPT !.pc = "mail", !.who = req[r].who, !.token = last + 1])
       ELSE Becomes(r, Idle) /\ UNCHANGED <<tokens, last>>
  /\ UNCHANGED <<now, employees, isActive, mailed, completed>>

(* mailer.Send, which may fail: the token stays. *)
IssueMail(r) ==
  /\ At(r, "mail")
  /\ mailed' \in {mailed, mailed \cup {req[r].token}}
  /\ Becomes(r, Idle)
  /\ UNCHANGED <<now, employees, isActive, tokens, last, mutex, completed>>

-----------------------------------------------------------------------------
(* CompleteActivation *)

RedeemBegin(r, t) ==
  /\ At(r, "idle")
  /\ t \in mailed
  /\ Becomes(r, [Idle EXCEPT !.pc = "claim", !.token = t, !.began = now])
  /\ UNCHANGED <<now, employees, isActive, tokens, last, mailed, mutex, completed>>

Redeemable(r) ==
  {t \in tokens : t.id = req[r].token /\ ~t.used /\ t.expiresAt > req[r].began}

(* Mutated: the row is read, not updated and locked. *)
RedeemClaimReads(r) ==
  /\ At(r, "claim")
  /\ IF Redeemable(r) = {}
       THEN Becomes(r, Idle)
       ELSE \E t \in Redeemable(r) :
              Becomes(r, [req[r] EXCEPT !.pc = "set", !.who = t.employee])
  /\ UNCHANGED <<now, employees, isActive, tokens, last, mailed, mutex, completed>>

(* RedeemPasswordResetToken waits for the row's lock and then looks at the *)
(* row again: ErrInvalidOrExpiredToken unless it is still unused.          *)
RedeemClaim(r) ==
  /\ At(r, "claim")
  /\ ~LockedByOther(r, {req[r].token})
  /\ IF Redeemable(r) = {}
       THEN Becomes(r, Idle)
       ELSE \E t \in Redeemable(r) :
              Becomes(r, [req[r] EXCEPT !.pc = "set", !.who = t.employee, !.holds = {t.id}])
  /\ UNCHANGED <<now, employees, isActive, tokens, last, mailed, mutex, completed>>

(* SetEmployeePassword, which locks the Employee's row,                    *)
(* DeleteSessionByEmployeeID, ResetFailedLoginAttempts and the commit:     *)
(* CompleteActivation of module Auth.                                      *)
RedeemCommit(r) ==
  /\ At(r, "set")
  /\ ~BeingDeleted(req[r].who)
  /\ tokens' = Spent(req[r].holds)
  /\ completed' = completed \cup {req[r].token}
  /\ Becomes(r, Idle)
  /\ UNCHANGED <<now, employees, isActive, last, mailed, mutex>>

-----------------------------------------------------------------------------
(* The rest *)

(* DELETE on employees locks the row first ... *)
DeleteLock(r, e) ==
  /\ At(r, "idle")
  /\ e \in employees
  /\ ~BeingDeleted(e)
  /\ Becomes(r, [Idle EXCEPT !.pc = "cascade", !.who = e])
  /\ UNCHANGED <<now, employees, isActive, tokens, last, mailed, mutex, completed>>

(* ... and then, ON DELETE CASCADE, those of its tokens. *)
DeleteCommit(r) ==
  LET e == req[r].who
      mine == {t \in tokens : t.employee = e}
  IN
  /\ At(r, "cascade")
  /\ ~LockedByOther(r, Ids(mine))
  /\ employees' = employees \ {e}
  /\ tokens' = tokens \ mine
  /\ Becomes(r, Idle)
  /\ UNCHANGED <<now, isActive, last, mailed, mutex, completed>>

SetEmployeeActive(e, b) ==
  /\ e \in employees
  /\ ~BeingDeleted(e)
  /\ isActive' = [isActive EXCEPT ![e] = b]
  /\ UNCHANGED <<now, employees, tokens, last, mailed, mutex, req, completed>>

(* Which transaction waits for which other one's row lock. *)
WaitsFor(r, q) ==
  \/ At(r, "invalidate") /\ req[q].holds \cap Ids(Outstanding(req[r].who)) # {}
  \/ At(r, "claim") /\ req[r].token \in req[q].holds
  \/ req[r].pc \in {"insert", "set"} /\ At(q, "cascade") /\ req[q].who = req[r].who
  \/ At(r, "cascade") /\ \E t \in tokens : t.employee = req[r].who /\ t.id \in req[q].holds

(* Postgres fails a transaction that waits in a cycle.  What holds a token *)
(* waits for nothing but the deletion of that token's Employee, and a      *)
(* deletion only for what holds its Employee's tokens: every cycle has two *)
(* members.                                                                *)
DeadlockVictim(r) ==
  /\ \E q \in Requests \ {r} : WaitsFor(r, q) /\ WaitsFor(q, r)
  /\ RollBack(r)
  /\ UNCHANGED <<now, employees, isActive, tokens, last, mailed, completed>>

(* A statement fails, or the request's context ends. *)
Abort(r) ==
  /\ req[r].pc \in InTransaction
  /\ RollBack(r)
  /\ UNCHANGED <<now, employees, isActive, tokens, last, mailed, completed>>

(* The process dies: open transactions roll back, unsent mails are lost. *)
Crash ==
  /\ \E r \in Requests : ~At(r, "idle")
  /\ req' = [r \in Requests |-> Idle]
  /\ mutex' = [e \in Employees |-> Nobody]
  /\ UNCHANGED <<now, employees, isActive, tokens, last, mailed, completed>>

Tick ==
  /\ now < MaxTime
  /\ now' = now + 1
  /\ UNCHANGED <<employees, isActive, tokens, last, mailed, mutex, req, completed>>

-----------------------------------------------------------------------------
Progress(r) ==
  \/ IssueLock(r)
  \/ IssueInvalidate(r)
  \/ IssueInsert(r)
  \/ IssueMail(r)
  \/ RedeemClaim(r)
  \/ RedeemCommit(r)
  \/ DeleteCommit(r)

Next ==
  \/ \E r \in Requests :
       \/ \E e \in Employees : IssueBegin(r, e) \/ DeleteLock(r, e)
       \/ \E t \in 1 .. last : RedeemBegin(r, t)
       \/ Progress(r)
       \/ DeadlockVictim(r)
       \/ Abort(r)
  \/ \E e \in Employees, b \in BOOLEAN : SetEmployeeActive(e, b)
  \/ Crash
  \/ Tick

Spec == Init /\ [][Next]_vars

(* The mutex (sync.Mutex hands over to a waiter after 1 ms) and Postgres   *)
(* row locks are granted first come, first served; a goroutine that need   *)
(* not wait goes on; the deadlock detector runs after deadlock_timeout.    *)
Fairness ==
  \A r \in Requests : SF_vars(Progress(r)) /\ WF_vars(DeadlockVictim(r))

FairSpec == Spec /\ Fairness

-----------------------------------------------------------------------------
(* Properties *)

(* However many resets are requested at once, an Employee has at most one  *)
(* token that is not used (queries.sql, "at most one issued token is ever  *)
(* redeemable per Employee at a time").                                    *)
AtMostOneOutstanding ==
  \A t, u \in tokens : t.employee = u.employee /\ ~t.used /\ ~u.used => t = u

(* A token is taken from an Employee only in exchange for a new one, or    *)
(* when it sets a password, or with the Employee: a failure between        *)
(* invalidating and inserting, or a crash, never leaves the Employee       *)
(* without (issuePasswordResetToken, "never leaves the Employee with zero  *)
(* redeemable tokens").                                                    *)
NeverLeftWithoutToken ==
  [][\A t \in tokens :
       /\ ~t.used
       /\ t.employee \in employees'
       /\ Outstanding(t.employee)' = {}
       => t.id \in completed']_vars

(* A password is set through the newest token only, and once: a link that  *)
(* was superseded while its redemption waited for the row is refused.      *)
NewestTokenSetsPassword ==
  [][\A r \in Requests :
       RedeemCommit(r) =>
         /\ req[r].token \notin completed
         /\ \A t \in tokens : t.employee = req[r].who => t.id <= req[r].token]_vars

(* No request waits for ever: whatever the order in which resets,          *)
(* redemptions and deletions lock the mutex and the rows, each one ends.   *)
EveryRequestEnds ==
  \A r \in Requests : ~At(r, "idle") ~> At(r, "idle")

LiveToken(e) ==
  IF Outstanding(e) = {} THEN 0 ELSE (CHOOSE t \in Outstanding(e) : TRUE).id

Links == INSTANCE ResetLinks
  WITH live <- [e \in Employees |-> LiveToken(e)], spent <- completed

(* The rows of password_reset_tokens implement the abstract links. *)
ImplementsLinks == Links!Spec

=============================================================================
