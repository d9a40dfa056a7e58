# Bang Bang Nails employee backend: specifications

TLA+ modules, TLC configurations and TLAPS proofs for the Go service in this
repository: who is logged in, from where, for how long, what the links and
limits around passwords promise, and what becomes of Employees, Positions and
Stores, when requests and syncs overlap, fail or are cut off.
`PROJECT.json` maps every definition to the lines it models.

    tlc -workers 2 -config MCAuth.cfg MCAuth.tla
    tlapm AuthProofs.tla

## The system

One API process (ADR-0014) serves HTTP requests, each in its goroutine, over
one Postgres database; it calls Odoo and a mail provider. Nothing is kept in
the process but locks, a mutex per Employee and one single-flight guard per
kind of sync, and Odoo's access token. All other state is rows.

| component | state | operations | hard behaviour |
|---|---|---|---|
| presence check (`auth/service.go`, `matchStore`) | none | one call over an ordered list of Stores | three passes, two gates, tie-break |
| sessions, lockout (`auth`) | `sessions`, lockout columns of `employees` | Login, Logout, Heartbeat, ValidateSession/AdminOnly | no transactions: every statement interleaves with every other request; rows vanish by cascade |
| activation and reset links (`employees/service.go`) | `password_reset_tokens`, keyed mutex | issue (create, request, bulk), mail, CompleteActivation | mutex and row locks, rollback, crash, deadlock with a deletion |
| rate limiter (`employees/ratelimit.go`) | `password_reset_requests` | allowPasswordResetRequest | READ COMMITTED counts, two advisory locks, shared clean-up |
| Employees (`employees/service.go`) | `employees`, `employee_positions` | create, update, password, active, delete, bulk, list | Odoo validation outside the transaction |
| Employee sync | `employees`, `employee_stores`, guard | SyncEmployees, runSync, SyncStatus | detached goroutine, batches, races Store sync |
| Stores (`stores/service.go`) | `store`, `store_wifi_ip`, `store_wifi_mac` | update, whitelist delete, toggle, bulk toggle, list | optimistic lock on `updated_at`, lock order |
| Store sync | `store`, guard | SyncStores, runSync, SyncStatus | deletes what Sessions and memberships refer to |
| Positions (`positions/service.go`) | `positions`, `employee_positions` | create, rename, delete, bulk delete, set Employees | two writers of one table; the name Admin is a right |
| Admin bootstrap (`cmd/bootstrapadmin`) | the same rows | one command | no transaction |
| Odoo client (`odoo/http_client.go`) | the cached token, two mutexes | token, authenticate, searchRead | a lock held across HTTP; a token that others' renewals invalidate |
| helpers | `syncx` locks, `dbx.DiffReplace` | | |

They interact through rows, the syncs and the validation of an Odoo id also
through the one Odoo client: a reset ends Sessions and clears the lockout,
a deleted Employee takes its Sessions, links and memberships with it (ON
DELETE CASCADE), a deleted Store sets `sessions.store_id` to NULL, a Position
named Admin decides how a Login goes and who passes AdminOnly, Employee sync
decides which Stores a Login may match.

What makes each one correct: one Session per Employee, never a dangling or an
extended one, none that ends without a reason, and no lie to a device about its
end; lockout columns that agree and a lock that holds; at most one working link
per Employee, none lost to a failure, only the newest one accepted, once;
mails that a burst cannot get past the limits; whitelists and geofences that no lost update
corrupts; syncs that run one at a time and always release their guard; Position
sets that are what somebody submitted. The hazards behind these are listed with
their lines in `PROJECT.json`.

## The modules

    Presence                      matchStore, step by step
    Auth                          Login, Logout, Heartbeat, ValidateSession; the others at their commit
      implements SessionLifecycle what a Session promises
    PasswordReset                 links: issue, mail, redeem; deletion, crash
      implements ResetLinks       what a link promises
    RateLimit                     allowPasswordResetRequest
    StoreEdits                    the stores service: reads, edits, Store sync
      implements VersionedStores  what updated_at promises
    RowLocks                      Postgres' row locks, waiting and deadlocks
    Directory (RowLocks)          Employees and Positions from both sides, bootstrapadmin
    OdooClient                    the access token and its renewal
    Sync (OdooClient, RowLocks)   Employee sync against Store sync, over one client
    MC*                           constants, symmetry and constraints for TLC
    *Proofs                       theorems

`Presence`. A call is a scan: `tier` and `i` are the pass and the loop index,
`Hit`, `Miss` and `EndPass` what an iteration does, `found` the result. Rows are
records of what the tiers look at; addresses and places are abstract and the
distance is a function, so that trigonometry is left out and everything the
loops decide is kept. The passes go tier by tier over all Stores: a Store that
matches by IP comes before one that only its geofence matches, wherever they
stand in the list. That is what the code does and the comment above `matchStore`
says; `CONTEXT.md` and ADR-0013 say something else (below).

`Auth`. Handlers open no transaction, so each statement is an action and what
the handler read so far is its record in `req` (`pc` names the next statement).
`RecordFailedLoginAttempt` is two actions, because its subquery reads the
statement's snapshot and the UPDATE may wait for another writer:
READ COMMITTED then rechecks the target row and keeps the subquery's value.
Foreign keys and cascades are part of the action whose statement sets them off.
Operations of the other services are one action, their commit; that
`CompleteActivation` is atomic makes a Session opened between its DELETE and its
commit one that was opened after it, which is what the database shows. Passwords
are version numbers, tokens numbers in order of issue, `asAdmin`, `verified` and
`resetTo` history that only properties read. Which Store matches is any of the
Employee's: `Presence` says which.

`PasswordReset`. A transaction takes effect in the action that commits it and
until then holds, in the request's record, the token rows it has locked.
`mutex` is the keyed mutex. `DeleteLock` and `DeleteCommit` are the two halves
of deleting an Employee: its row first, then, by cascade, its tokens.
`WaitsFor` is the wait graph; Postgres fails a member of a cycle
(`DeadlockVictim`). `Crash` loses the process: transactions roll back, the mutex
and unsent mails are gone. `RedeemCommit` is `CompleteActivation` of `Auth`.

`RateLimit`. One attempt is: compute the window's start, begin, lock the email,
lock the IP address, clean up and count by email, count by IP address, insert and
commit. Rows are numbered by commit. `allowed` and `committedAt` are history, and so
is `log`, every row that was ever inserted: a clean-up takes rows out of the table,
and what the limits promise is about the requests that were made, not about the
rows that are left.

`StoreEdits`. A client reads Stores (`ReadList`, or `ReadRow` and then
`ReadEntries`) and its edit begins a transaction that starts from that view.
Postgres' `now()` is the start of the transaction, so transactions are numbered
as they begin and a commit gives the Stores it writes that number as version;
that no two transactions begin in the same microsecond is an assumption. The two
whitelists, which every operation treats alike, are one set, and so the two
statements that read or change them are one action. `pc` tells where a
transaction waits: `CasPatch` and `ToggleCommit` for the row, `PatchCommit` for
entries that a delete has locked, `Bump` for the row after the entries, `LockRow`
(bulk toggle, upsert, deletion of stale Stores) row by row in any order. A row
changes when its transaction commits. `syncing` is `syncx.Guard`; the goroutine
of a sync is a request like the others, `FetchFails` an Odoo that fails or the
timeout. Ids come from a sequence; the numbers it skips are left out.
`VersionedStores` says that each commit uses a version of its own, that what
differs after it has that version or is gone, and that no id comes back.

`RowLocks`. A lock is a row with a mode: a foreign key's FOR KEY SHARE, the lock
of an UPDATE that leaves keys alone, and that of a DELETE, an INSERT or an UPDATE
of a key. The operators say who keeps whom waiting and which transactions wait in
a cycle; the modules that use them keep `locks` and `want` per transaction.

`Directory`. A statement that needs locks lists them in `want`, `Take` takes one
at a time in any order, and once `want` is empty the next action is the next
statement. What a lock comes to when it is granted (`Taken`) depends on what has
been committed meanwhile: an INSERT ... ON CONFLICT DO NOTHING skips a pair that
is there by then, a DELETE one that is gone, a foreign key fails on a row that was
deleted. The pairs to delete are those the statement's snapshot shows. `Confirm`
is the question to Odoo before any transaction. `UpdateRow` locks the Employee's
row, again in the stronger mode if its Odoo id turns out to change; `UpdateIndex`
and `CreateInsert` meet the unique index. `bootstrapadmin` is one record more,
whose statements commit one by one. The three unique columns of `employees` are one, `odoo`. `origin`,
`confirmed` and `touched` are history.

`OdooClient`. `http` is a goroutine's way through `token`, `authenticate` and
`searchRead`: look at the cache, queue for `refreshMu`, look again, be granted a
token, cache it, ask, and after a 401 be granted another, not under the lock. The
grant is two actions, Odoo's and the answer's, so that two callers' grants may be
cached in the opposite order. Odoo honours its newest token until it expires:
`authenticate`'s comment expects the older ones to stop working. `validateOdooEmployeeID`
uses the client as one more caller; in `Directory` it is `Confirm`.

`Sync`. A run of `runSync` is a record in `run`, its calls go through
`OdooClient`. Employee sync: `ListIds`, then for each batch fetch, upsert and
resolve, then a transaction per Employee (delete, insert, foreign keys) that may
fail alone. Store sync: fetch, then one transaction that upserts and deletes, with
its cascade. An edit of an Employee is one action here, at its commit. `Crash` is
the process restarted, with an empty cache and free guards. `told` is history: the
Stores that the last successful transaction for an Employee had.

`Abort` in each module is a statement that fails or a context that ends (60 s
timeout in `cmd/api.go`, a client that goes away); in `Auth` what was written
stays, in the transactional modules it is rolled back.

## The runs

| run | bounds | states | shows |
|---|---|---|---|
| `presence` | lists of at most 2 Stores, 2 IPs, 1 MAC, 3 places | 39,010 | the result is the least match in the order (tier, Store id) |
| `auth` | 1 Employee, 1 Store, 3 tokens, threshold 2; 2 requests over Sessions, clock to 3, or 3 over passwords, clock to 2 | 531,280 | Session safety, `ImplementsLifecycle`, lockout columns agree, a lock holds |
| `password_reset` | 1 Employee, 3 requests, 2 tokens, clock to 2 | 42,412 | link safety, `ImplementsLinks`, and that every request ends |
| `rate_limit` | 2 emails, 2 IPs, 2 requests, 3 attempts, limits 1 and 2, clock to 2 | 325,675 | the two ceilings, over all rows ever recorded, and that every attempt ends |
| `store_edits` | 2 Stores in Odoo, 3 ids, 2 names, 1 entry, 2 requests, 2 transactions | 283,948 | no lost edit, `ImplementsVersions`, that every request ends, and that the guard comes back |
| `directory` | 1 Employee and up to 2 Positions at first, 2 of each at most, 2 Odoo ids, 2 calls | 188,816 | ids are confirmed, an Admin has a password, an Employee's Positions are replaced as a whole |
| `syncs` | 2 Employees, 3 Odoo ids, 2 Stores in Odoo, 3 ids, batches of 1, 2 goroutines, 2 runs, 3 tokens, 1 edit | 1,093,027 | memberships of one piece, guards, no vain wait, the token is renewed once |

Five runs look for a counterexample to what the repository says, and find one:

* `lockout_atomic`: `queries.sql` says failed attempts are counted atomically.
  Two concurrent ones may be counted once.
* `auth_storeless`: a Session without a Store is said to be an Admin Session. A
  Store sync can leave others without a Store, and Heartbeat then never ends them.
* `auth_reset`: a reset is said to sign out every device under the old password.
  A Login that compared the old password before the reset committed opens its
  Session after it.
* `position_replace`: `SetPositionEmployees` is said to replace a Position's whole
  set. Two that overlap leave the union, as nothing makes one wait for the other;
  `UpdateEmployee`, which locks the Employee's row first, has no such trouble
  (`EmployeeSetReplaced`).
* `rate_exact`: ADR-0016 and ADR-0017 call the limits exact ceilings per key. An
  attempt reckons its window before it waits for its locks; the clean-up of an attempt
  for another key may delete rows that this window still holds, the attempt counts
  too few, and two mails for one email are recorded (`created_at`) less than a window
  apart. What holds, and is proved, is `EmailCeiling` and `IPCeiling`: in the window
  that ends when a mail is sent, fewer than the limit were recorded before, deleted
  rows counted. The window of the run is 3, its clock goes to 4 and an attempt takes
  less than a window (60 s against 15 min in the code).

One more divergence needs no counterexample, as the passing run `presence` shows it:
`MostTrustedMatchWins` says tier by tier over all Stores, where `CONTEXT.md` (Login)
and ADR-0013 say Store by Store, "the first Store where any tier matches". Of two
Stores, the first of which matches by its geofence and the second by IP, the code
returns the second.

The bounds. The Employees' rows do not interact, except that tokens are unique
among them, so that one Employee with several requests shows every interleaving;
that several Employees do not disturb each other is what the proofs add. Three
tokens allow a Session that is superseded twice, so that a Heartbeat is late by
more than one Login. The caps (1 for an Admin, 2 for others), the silence (1)
and the clock (3) let a Session expire, fall silent, be refreshed past its
silence and expire nevertheless. `auth` explores two regimes (`SessionsOrPasswords`
in `MCAuth`): two requests over Sessions, with accounts in order, the Employee in every
Store there is (a Login may match none in any case), no wrong password,
and up to one completed reset of a password that was set, at time 0 or 1, which ends
an open Session while Heartbeats with its token are under way; and three requests
that try passwords of an Employee who is no Admin when there is no Store, so that
nobody gets in, with the lockout's threshold 2, so that one attempt is read before a
lock, one sets it and one is late. Wrong passwords beside Sessions are left to the
proofs: what bars Logins writes no row of `sessions`.
Two tokens and three requests in `password_reset` allow two issuances with a
redemption or a deletion between them; a third token repeats the second's role.
The rate limiter's limits are 1 and 2 so that three attempts pass each of them,
and the window is 1 so that rows leave it while attempts wait.
Two transactions in `store_edits` let an edit commit between a client's read and
its own edit and let a commit carry an earlier version than the one it replaces
(a transaction that began first may commit last); with a third id a Store is
deleted and reported again. Two Stores are what a bulk toggle and a sync need to
lock rows in opposite orders. The geofence is left out of the instance: it is one
more field that an edit sets. A third transaction and a geofence (1,224,124
states) pass as well, but take much longer.
Two calls in `directory` are enough for every pair of operations, deletions of two
rows among them, to interleave statement by statement; two Employees and two
Positions let diffs overlap in part. Three calls, one after another or at once
(3,387,642 states), pass as well.
In `syncs` two runs are one of each kind, or two of a kind one after the other or across a
crash; batches of one make two batches of two Employees; a third Odoo id is what
an admin changes an Employee's id to. It takes three tokens for two 401s to invalidate
each other's: the one that both had, and one that each is granted; after the third
the run goes on only until that is over (`ThirdTokenAfter401`; without it it passes
on 2,002,556 states). One Employee is
edited; with both it passes with two tokens on 1,647,822 states.
`AccountsInOrder` keeps states with a deactivated or failing Employee out of
`auth_storeless` and `auth_reset`. Requests are
symmetric in the runs of `MCAuth`, whose properties are all safety properties.
Four passing runs switch deadlock checking off (`password_reset`, `rate_limit`,
`directory`, `syncs`): with the attempts, calls or tokens of the bound used up, or
the Employee deleted, and the clock at its bound, nothing is left to do.

Fairness. `Presence` and `Auth` assume none and claim no liveness. `PasswordReset`
assumes strong fairness of each request's next step: Go's mutex hands over to a
waiter that has waited for a millisecond, Postgres grants row locks in order of
arrival, and a goroutine that need not wait runs; and weak fairness of
`DeadlockVictim`, as the deadlock detector runs after `deadlock_timeout`.
Neither the clock, nor a failure, nor a new request is assumed to happen.
`RateLimit` assumes strong fairness of each attempt's next step, as advisory locks
are granted in order of arrival. `StoreEdits` assumes, for each request, strong
fairness of its next statement or of the failure that breaks its deadlock, for the
reasons given for `PasswordReset`; a sync's fetch has a timeout, so that it ends,
if only by failing.

## The proofs

TLAPS proves every safety property that a passing run checks, and the three
refinements, for all values of the constants: any number of Employees, Stores,
Positions, requests, goroutines and tokens, and any thresholds, durations and
bounds. Each module's invariant holds at first, is kept by every action and
implies the properties. TLC has checked each of them as an
invariant on the module's instance before it was proved.

The assumptions are those that the modules name: thresholds, durations and limits
positive; the null values outside the sets they complete; distances natural
numbers; at least one Position to begin with; Odoo's set of Stores finite. TLC evaluates them in every run.

* `PresenceProofs`: type correctness and `MostTrustedMatchWins`. The inductive
  invariant `ScanInv` adds that nothing behind the scan matches
  (`NothingOverlooked`): without it, that a hit is the least match would not follow
  from the step that finds it.
* `AuthProofs`, in four parts.
  Types. Sessions: `OneSessionPerEmployee`, `NoDanglingSession`, `CapIsAbsolute`,
  `EndedMeansEnded`; the strengthening adds that rows and handlers hold only tokens
  that were handed out (so that a new token is new), and that a request that has
  answered "ended" holds a token of no row (so that no later Login brings it back).
  Lockout: `LockoutConsistent` and the action property `LockHoldsOnceDrained`; a
  recorded attempt carries a lock time that is not NULL.
  Refinement: `SessionEndsForAReason`, and that `Auth` implements
  `SessionLifecycle`: its initial states map to initial ones, and each action to
  `Open`, `End` or a stutter, `CHOOSE` being harmless by `OneSessionPerEmployee`.
  `AuthInv` in `Auth` collects the invariant of the first two parts.
* `SessionLifecycleProofs`: what the abstract specification is good for: tokens are
  unique and a closed token stays closed.
* `PasswordResetProofs`: type correctness, `AtMostOneOutstanding`,
  `NewestTokenSetsPassword`, `NeverLeftWithoutToken`, and that `PasswordReset`
  implements `ResetLinks`. An issuance inserts what it believes to be the only
  outstanding link, on the strength of locks: `ResetInv` says that the mutex has one
  holder (`MutexHeld`), that an issuance about to insert has locked exactly the rows that are
  outstanding (`LocksCover`), that no row is held twice (`LocksExclusive`), and that
  of an Employee's tokens all but the newest are used (`TokensInOrder`), so that the
  one outstanding is the newest. `DeadlocksDetected`: requests that wait in a ring
  include two transactions that wait for each other's row, as `DeadlockVictim`
  requires; it needs that a mutex is held only by an issuance in its transaction
  (`MutexOwned`), so that every ring goes through a deletion.
* `RateLimitProofs`: type correctness and both ceilings. Under READ COMMITTED a count
  is as old as its statement, and as wide as what clean-ups have left of the table. `RateInv` says that two
  attempts that hold an advisory lock have different keys (`KeysLocked`), so that
  nobody else adds rows for theirs; that no clean-up has deleted a row of the window
  that ends now (`Swept`), because whoever cleans up reckons its window from before it waited;
  and that the counts an attempt has taken are no less than what was ever recorded in
  the window that ends now (`AttemptsSound`). It is that window, and not the attempt's
  own, of which the ceilings speak: of the attempt's own they would be false. `AttemptsNeverDeadlock`: of any attempts one
  waits for no lock of the others, by the order of the locks alone.
* `DirectoryProofs`: type correctness with the foreign keys and the unique columns,
  `OdooIdsConfirmed`, `AdminHasPassword` and the action property
  `EmployeeSetReplaced`. `DirInv` says what a call relies on between two of its
  statements: rows it has locked are there (`Covers`), the Odoo id it is about to
  write is confirmed (`Knows`), and of each pair it has either locked it or the pair is as
  it should be already (`Diffs`), except for pairs that a Position-first write or a
  deletion has touched since.
* `StoreEditsProofs`: type correctness, `NoLostEdit`, and that `StoreEdits`
  implements `VersionedStores`. `StoreInv` says that a Store that still has the version a
  client or a transaction has seen is still what it has seen (`Sees`): that is what
  the check of `updated_at` is worth. It needs that no two transactions commit one
  version (`Numbered`, `RowsVersioned`), that an edit about to replace a row holds it
  at the version it saw, and a toggle or a sync holds, or has yet to wait for, all its
  rows (`Locks`), and that there is one sync (`OneSync`), whose new Stores still have
  ids (`Room`, of the bound).
* `SyncProofs`, in two parts. `SyncInv`: `GuardTracksRuns`, `NobodyWaitsInVain`
  and `OneRenewal`. It has a conjunct for the client (who is between
  the queue and the end of a grant, not after a 401, holds `refreshMu`, and until its grant is
  cached nobody has renewed the token) and one for the runs (a goroutine has a call under way exactly when its run
  waits for Odoo, it holds and wants locks only in a transaction, two runs are of two
  kinds). Without the first, that a second caller finds the token renewed would not
  follow; without the second, a guard could be given back for somebody else's run.
  `TablesInv`: type correctness, with the foreign keys, the unique columns and the
  locks, and `MembersAsTold`. A transaction for an Employee may find any of its
  memberships deleted by a Store sync, and a Store sync any that it would delete gone;
  `Covers` says that the rows a run has locked are there and that a Store sync has locked all
  it will delete, `Diffs` how far a transaction has come with each Store that there
  is (before the DELETE, after it, after the INSERT), `Asks` that it touches only
  its own Employee's memberships, of Stores that had an id by then. So a Store
  that a sync creates meanwhile is in nobody's way, and one it deletes
  takes its memberships with it.
  Last, deadlocks: `DeadlocksEnd`. The holder of `refreshMu` waits for no row and no mutex,
  so that goroutines that wait for each other are in transactions, one of which is on
  a cycle of row locks (the lemma `DeadlocksFound`), and Postgres may fail it.

Only model-checked: liveness (`EveryRequestEnds`, `EveryAttemptEnds`,
`GuardReleased`), as fairness and ENABLED are beyond the prover; of the deadlocks that
would break it the three theorems above are proved. `MatchStore`'s
result is proved of the scan, a state machine, and not of a recursive definition.
The five properties that the code violates are, of course, not theorems.

## What is left

1. Liveness of `Directory` and `Sync`: their instances are too large for TLC's
   search for cycles. `NobodyWaitsInVain` says for `Sync` that nobody is waited for
   who does not go on.
2. Liveness by proof. The theorems on deadlocks are its safety part: whoever waits does so,
   in the end, for somebody who can go on or be failed. That everybody does go on
   rests on fairness.

Left out for good: decoding, validation tags, status codes and logging; the
trigonometry of the geofence; listings, which change nothing; random tokens and
their digests, assumed unique; what the generated code does around its statements; the mail provider and Odoo beyond
answering or failing. Timing side channels are no subject of these models. Two API
processes are excluded by ADR-0014; the mutex and the guards would not hold among
them.
