------------------------------ MODULE RateLimit ------------------------------
(***************************************************************************)
(* allowPasswordResetRequest of internal/employees/ratelimit.go: at most   *)
(* EmailLimit password-reset mails per email and IPLimit per IP address in *)
(* a rolling window, decided by one transaction per attempt under two      *)
(* advisory locks.                                                         *)
(*                                                                         *)
(* The transaction is READ COMMITTED: each statement sees what has been    *)
(* committed when it begins.  Two clean-ups that meet on a row wait for    *)
(* each other in table order while they wait for nothing else, so that     *)
(* row locks are left out.  The clock is the API's and the database's.     *)
(***************************************************************************)
EXTENDS Integers, FiniteSets

CONSTANTS
  Emails,        \* lowercased email addresses, of an Employee or not
  IPs,           \* client IP addresses
  Requests,      \* the goroutines that serve requests
  EmailLimit,    \* passwordResetRequestEmailLimit, 3
  IPLimit,       \* passwordResetRequestIPLimit, 10
  Window,        \* passwordResetRequestWindow, 15 minutes
  MaxTime,       \* bound of the clock
  MaxAttempts    \* bound of the attempts ever recorded

ASSUME LimitsAssumption == {EmailLimit, IPLimit, Window} \subseteq Nat \ {0}
ASSUME RateBoundsAssumption == {MaxTime, MaxAttempts} \subseteq Nat

VARIABLES
  now,     \* the clock
  rows,    \* table password_reset_requests
  last,    \* how many rows have been inserted: id numbers them by commit
  req,     \* what each request is doing
  log      \* history: every row ever inserted, also those that were cleaned up

vars == <<now, rows, last, req, log>>

-----------------------------------------------------------------------------
Keys == [email : Emails, ip : IPs]

Row ==
  [id : Nat \ {0}, key : Keys, createdAt : Int,
   allowed : BOOLEAN,      \* history: the attempt went on to send a mail
   committedAt : Int]      \* history: when it could

Steps == {"open", "lock1", "lock2", "count", "count_ip", "insert"}

Attempt ==
  [pc         : Steps,
   key        : Keys,
   since      : Int,          \* the start of the window
   startedAt  : Int,          \* now() of the transaction
   emailCount : Nat,
   ipCount    : Nat,
   old        : SUBSET Nat]   \* the rows its clean-up deletes

Free == [pc |-> "free"]

(* Types; rows and attempts are what the columns and the call hold. *)
TypeOK ==
  /\ now \in Nat
  /\ log \subseteq Row
  /\ rows \subseteq log
  /\ last \in Nat
  /\ req \in [Requests -> Attempt \cup {Free}]

Init ==
  /\ now = 0
  /\ rows = {}
  /\ last = 0
  /\ req = [r \in Requests |-> Free]
  /\ log = {}

At(r, step) == req[r].pc = step
Becomes(r, q) == req' = [req EXCEPT ![r] = q]
Running == {r \in Requests : ~At(r, "free")}

-----------------------------------------------------------------------------
(* The two advisory locks, taken in a fixed order, held to the end of the  *)
(* transaction.                                                            *)

(* Mutated: one code path takes them the other way round. *)
LockOrderDiffers(r) ==
  IF r = CHOOSE q \in Requests : TRUE THEN <<"ip", "email">> ELSE <<"email", "ip">>

LockOrder(r) == <<"email", "ip">>

(* The dimensions whose lock a request holds. *)
Holds(r) ==
  CASE At(r, "lock2") -> {LockOrder(r)[1]}
    [] req[r].pc \in {"count", "count_ip", "insert"} -> {"email", "ip"}
    [] OTHER -> {}

(* Mutated: the IP address is not locked. *)
LockedByEmailOnly(r, dim) ==
  dim = "email" /\ \E q \in Requests \ {r} : dim \in Holds(q) /\ req[q].key[dim] = req[r].key[dim]

(* LockPasswordResetRequestKey waits while another transaction has the key. *)
LockedByOther(r, dim) ==
  \E q \in Requests \ {r} : dim \in Holds(q) /\ req[q].key[dim] = req[r].key[dim]

-----------------------------------------------------------------------------
(* The window's start is computed before the transaction begins. *)
Begin(r, key) ==
  /\ At(r, "free")
  /\ last + Cardinality(Running) < MaxAttempts
  /\ Becomes(r, [pc |-> "open", key |-> key, since |-> now - Window, startedAt |-> now,
                 emailCount |-> 0, ipCount |-> 0, old |-> {}])
  /\ UNCHANGED <<now, rows, last, log>>

(* pool.Begin: waits for a connection; created_at defaults to its time. *)
OpenTransaction(r) ==
  /\ At(r, "open")
  /\ Becomes(r, [req[r] EXCEPT !.pc = "lock1", !.startedAt = now])
  /\ UNCHANGED <<now, rows, last, log>>

Lock1(r) ==
  /\ At(r, "lock1")
  /\ ~LockedByOther(r, LockOrder(r)[1])
  /\ Becomes(r, [req[r] EXCEPT !.pc = "lock2"])
  /\ UNCHANGED <<now, rows, last, log>>

Lock2(r) ==
  /\ At(r, "lock2")
  /\ ~LockedByOther(r, LockOrder(r)[2])
  /\ Becomes(r, [req[r] EXCEPT !.pc = "count"])
  /\ UNCHANGED <<now, rows, last, log>>

(* The rows that count against a key in one dimension. *)
Counted(dim, key, since) == {w \in rows : w.key[dim] = key[dim] /\ w.createdAt >= since}

(* Mutated: the clean-up leaves the attempt's own time, not its window. *)
CleanUpToNow(r) ==
  /\ At(r, "count")
  /\ Becomes(r, [req[r] EXCEPT
       !.pc = "count_ip",
       !.emailCount = Cardinality(Counted("email", req[r].key, req[r].since)),
       !.old = {w.id : w \in {v \in rows : v.createdAt < req[r].startedAt}}])
  /\ UNCHANGED <<now, rows, last, log>>

(* DeletePasswordResetRequestsOlderThan, whatever their key, and           *)
(* CountPasswordResetRequestsByEmail.                                      *)
CleanAndCount(r) ==
  /\ At(r, "count")
  /\ Becomes(r, [req[r] EXCEPT
       !.pc = "count_ip",
       !.emailCount = Cardinality(Counted("email", req[r].key, req[r].since)),
       !.old = {w.id : w \in {v \in rows : v.createdAt < req[r].since}}])
  /\ UNCHANGED <<now, rows, last, log>>

(* CountPasswordResetRequestsByIPAddress, a statement with a snapshot of its own. *)
CountIP(r) ==
  /\ At(r, "count_ip")
  /\ Becomes(r, [req[r] EXCEPT
       !.pc = "insert",
       !.ipCount = Cardinality(Counted("ip", req[r].key, req[r].since))])
  /\ UNCHANGED <<now, rows, last, log>>

NewRow(r) ==
  [id |-> last + 1, key |-> req[r].key, createdAt |-> req[r].startedAt,
   allowed |-> req[r].emailCount < EmailLimit /\ req[r].ipCount < IPLimit,
   committedAt |-> now]

Insert(r, row) ==
  /\ At(r, "insert")
  /\ last' = last + 1
  /\ rows' = {w \in rows : w.id \notin req[r].old} \cup {row}
  /\ log' = log \cup {row}
  /\ Becomes(r, Free)
  /\ UNCHANGED now

(* Mutated: rows are numbered from 0. *)
InsertNumbersFromZero(r) == Insert(r, [NewRow(r) EXCEPT !.id = last])

(* CreatePasswordResetRequest and the commit.  The attempt is recorded     *)
(* whether it is allowed or not.                                           *)
InsertAndCommit(r) == Insert(r, NewRow(r))

(* A statement fails or the request's context ends: rolled back, no mail. *)
Abort(r) ==
  /\ req[r].pc \in Steps
  /\ Becomes(r, Free)
  /\ UNCHANGED <<now, rows, last, log>>

Tick ==
  /\ now < MaxTime
  /\ now' = now + 1
  /\ UNCHANGED <<rows, last, req, log>>

Progress(r) ==
  OpenTransaction(r) \/ Lock1(r) \/ Lock2(r)
  \/ CleanAndCount(r) \/ CountIP(r) \/ InsertAndCommit(r)

Next ==
  \/ \E r \in Requests : (\E key \in Keys : Begin(r, key)) \/ Progress(r) \/ Abort(r)
  \/ Tick

Spec == Init /\ [][Next]_vars

(* Postgres grants an advisory lock first come, first served, and a        *)
(* transaction that need not wait goes on.                                 *)
FairSpec == Spec /\ \A r \in Requests : SF_vars(Progress(r))

-----------------------------------------------------------------------------
(* The attempts of one key committed before w in the window that ends when *)
(* w is, whether their rows are still in the table or not.                 *)
Earlier(dim, w) ==
  {v \in log : v.id < w.id /\ v.key[dim] = w.key[dim] /\ v.createdAt >= w.committedAt - Window}

(* No burst of attempts gets a mail past the limit per email, whatever the *)
(* order in which they begin, wait for the locks and commit: an attempt    *)
(* may send its mail only if, in the window that ends when it does, fewer  *)
(* than the limit were recorded before it.  A clean-up for another key may *)
(* delete rows that the attempt's own window, which is reckoned from       *)
(* before it waited, still holds, but none of this one.                    *)
EmailCeiling == \A w \in log : w.allowed => Cardinality(Earlier("email", w)) < EmailLimit

(* The same per IP address. *)
IPCeiling == \A w \in log : w.allowed => Cardinality(Earlier("ip", w)) < IPLimit

(* What the documents say instead: the limit "is an exact ceiling per key" *)
(* (ADR-0017, Consequences) on the requests recorded within any one        *)
(* window.  The code breaks it: while an attempt waits, the clean-up of    *)
(* another key deletes rows that its window still holds.                   *)
ExactCeiling ==
  \A w \in log :
    w.allowed =>
      Cardinality({v \in log : /\ v.allowed
                               /\ v.key.email = w.key.email
                               /\ v.createdAt > w.createdAt - Window
                               /\ v.createdAt <= w.createdAt}) <= EmailLimit

(* Two attempts that share an email or an IP address never wait for each   *)
(* other: every attempt ends (queries.sql, "two concurrent requests can    *)
(* never deadlock").                                                       *)
EveryAttemptEnds == \A r \in Requests : ~At(r, "free") ~> At(r, "free")

=============================================================================
