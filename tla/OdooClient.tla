----------------------------- MODULE OdooClient -----------------------------
(***************************************************************************)
(* The Odoo client: its cached access token, and what a call does to get   *)
(* its answer past a token that has expired or was rejected.  The syncs    *)
(* share one client (Sync); so does the validation of an Odoo id, one more *)
(* caller like them.                                                       *)
(*                                                                         *)
(* Tokens are numbers in the order in which Odoo grants them.  Odoo takes  *)
(* its newest token until it expires; of an older one the client cannot    *)
(* know: authenticate expects it to stop working.                          *)
(***************************************************************************)
EXTENDS Integers

CONSTANTS
  Callers,     \* goroutines that call Odoo
  Nobody,      \* no goroutine
  MaxGrants    \* bound of the tokens that Odoo grants

ASSUME ClientAssumption == MaxGrants \in Nat /\ Nobody \notin Callers

VARIABLES
  accessToken,  \* the cached token; 0: none
  fresh,        \* whether it is not within tokenExpiryLeeway of expiresAt
  refreshMu,    \* who holds it
  granted,      \* Odoo: the tokens granted so far
  live,         \* Odoo: the newest token has not expired
  http,         \* the call of each goroutine
  renewed       \* history: a cache miss has renewed the token since it went stale

clientVars == <<accessToken, fresh, refreshMu, granted, live, http, renewed>>

Tokens == 0 .. MaxGrants

HTTPCall ==
  [pc    : {"none", "cache", "queue", "recheck", "grant", "cached", "query", "answered", "failed"},
   token : Tokens,
   again : BOOLEAN,   \* after a 401
   own   : Tokens]    \* the token that the call itself was granted, before it is cached

NoCall == [pc |-> "none", token |-> 0, again |-> FALSE, own |-> 0]

ClientTypeOK ==
  /\ accessToken \in Tokens /\ fresh \in BOOLEAN /\ (fresh => accessToken # 0)
  /\ refreshMu \in Callers \cup {Nobody}
  /\ \A c \in Callers : refreshMu = c =>
       http[c].pc \in {"recheck", "grant", "cached"} /\ ~http[c].again
  /\ granted \in Tokens /\ live \in BOOLEAN
  /\ http \in [Callers -> HTTPCall]
  /\ \A c \in Callers : http[c].token <= granted
  /\ renewed \in BOOLEAN

ClientInit ==
  /\ accessToken = 0 /\ fresh = FALSE /\ refreshMu = Nobody
  /\ granted = 0 /\ live = FALSE
  /\ http = [c \in Callers |-> NoCall]
  /\ renewed = FALSE

Over(how) == [NoCall EXCEPT !.pc = how]

CallAt(c, step) == http[c].pc = step
CallGoes(c, r) == http' = [http EXCEPT ![c] = r]

(* token(): the cached token, if it is still good ... *)
LookUp(c) ==
  /\ CallAt(c, "cache")
  /\ CallGoes(c, IF fresh THEN [http[c] EXCEPT !.pc = "query", !.token = accessToken]
                 ELSE [http[c] EXCEPT !.pc = "queue"])
  /\ UNCHANGED <<accessToken, fresh, refreshMu, granted, live, renewed>>

(* ... or else one caller at a time ... *)
LockRefresh(c) ==
  /\ CallAt(c, "queue") /\ refreshMu = Nobody
  /\ refreshMu' = c
  /\ CallGoes(c, [http[c] EXCEPT !.pc = "recheck"])
  /\ UNCHANGED <<accessToken, fresh, granted, live, renewed>>

(* The deferred refreshMu.Unlock. *)
Unlock(c) == refreshMu' = IF refreshMu = c THEN Nobody ELSE refreshMu

(* Mutated: nobody looks again once it has the lock. *)
RecheckSkipped(c) ==
  /\ CallAt(c, "recheck")
  /\ CallGoes(c, [http[c] EXCEPT !.pc = "grant"])
  /\ UNCHANGED <<accessToken, fresh, refreshMu, granted, live, renewed>>

(* ... looks again, and asks for a token unless another caller has. *)
Recheck(c) ==
  /\ CallAt(c, "recheck")
  /\ \/ /\ fresh
        /\ CallGoes(c, [http[c] EXCEPT !.pc = "query", !.token = accessToken])
        /\ Unlock(c)
     \/ /\ ~fresh
        /\ CallGoes(c, [http[c] EXCEPT !.pc = "grant"])
        /\ UNCHANGED refreshMu
  /\ UNCHANGED <<accessToken, fresh, granted, live, renewed>>

(* authenticate(): Odoo grants a token; the answer is on its way. *)
Grant(c) ==
  /\ CallAt(c, "grant") /\ granted < MaxGrants
  /\ granted' = granted + 1 /\ live' = TRUE
  /\ CallGoes(c, [http[c] EXCEPT !.pc = "cached", !.own = granted'])
  /\ UNCHANGED <<accessToken, fresh, refreshMu, renewed>>

(* Mutated: a failed grant returns without the unlock. *)
GrantFailsLocked(c) ==
  /\ http[c].pc \in {"grant", "cached"}
  /\ CallGoes(c, Over("failed"))
  /\ UNCHANGED <<accessToken, fresh, refreshMu, granted, live, renewed>>

(* Odoo refuses, or the answer does not come in time. *)
GrantFails(c) ==
  /\ http[c].pc \in {"grant", "cached"}
  /\ CallGoes(c, Over("failed"))
  /\ Unlock(c)
  /\ UNCHANGED <<accessToken, fresh, granted, live, renewed>>

(* The token is cached, whatever was cached before; it may be so short-    *)
(* lived that it is never used from there.                                 *)
Cached(c) ==
  /\ CallAt(c, "cached")
  /\ accessToken' = http[c].own /\ fresh' \in BOOLEAN
  /\ renewed' = (fresh' /\ (renewed \/ ~http[c].again))
  /\ CallGoes(c, [http[c] EXCEPT !.pc = "query", !.token = http[c].own])
  /\ Unlock(c)
  /\ UNCHANGED <<granted, live>>

QueryEnds(c, step) ==
  /\ CallGoes(c, Over(step))
  /\ UNCHANGED <<accessToken, fresh, refreshMu, granted, live, renewed>>

(* searchRead: Odoo takes the token ... *)
Query(c) ==
  /\ CallAt(c, "query") /\ (http[c].token = granted => live)
  /\ QueryEnds(c, "answered")

(* ... or answers 401, the first time of which asks for another token, not *)
(* under refreshMu ...                                                     *)
Unauthorized(c) ==
  /\ CallAt(c, "query") /\ (http[c].token = granted => ~live)
  /\ ~http[c].again
  /\ CallGoes(c, [http[c] EXCEPT !.pc = "grant", !.again = TRUE, !.own = 0])
  /\ UNCHANGED <<accessToken, fresh, refreshMu, granted, live, renewed>>

UnauthorizedAgain(c) ==
  /\ CallAt(c, "query") /\ (http[c].token = granted => ~live)
  /\ http[c].again
  /\ QueryEnds(c, "failed")

(* ... or fails otherwise. *)
QueryFails(c) == CallAt(c, "query") /\ QueryEnds(c, "failed")

(* Odoo expires its newest token, restarts, or revokes it. *)
Expire ==
  /\ live /\ live' = FALSE
  /\ UNCHANGED <<accessToken, fresh, refreshMu, granted, http, renewed>>

(* The cached token comes near the expiry it was granted with. *)
GoStale ==
  /\ fresh /\ fresh' = FALSE /\ renewed' = FALSE
  /\ UNCHANGED <<accessToken, refreshMu, granted, live, http>>

CallNext(c) ==
  \/ LookUp(c) \/ LockRefresh(c) \/ Recheck(c)
  \/ Grant(c) \/ GrantFails(c) \/ Cached(c)
  \/ Query(c) \/ Unauthorized(c) \/ UnauthorizedAgain(c) \/ QueryFails(c)

(* A token is asked for once: of the callers who find none to use, or one   *)
(* that comes near its expiry, the first asks Odoo and the others, who     *)
(* waited for it meanwhile, use what it was granted.                       *)
OneRenewal ==
  [][\A c \in Callers : Cached(c) /\ ~http[c].again => ~renewed]_clientVars

=============================================================================
