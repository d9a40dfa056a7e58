----------------------------- MODULE SyncProofs -----------------------------
(* What holds of the two syncs and their Odoo client for any number of     *)
(* goroutines, Employees, Stores, runs, batches and tokens.                *)
EXTENDS Sync, FiniteSetTheorems, WellFoundedInduction, TLAPS

-----------------------------------------------------------------------------
(* The Odoo client *)

(* Who is between the queue and the end of a grant, not after a 401, holds *)
(* refreshMu, and then nobody has renewed the token since it went stale.   *)
CallOK(q, c, mu, gr, rn) ==
  /\ q \in HTTPCall /\ q.token <= gr /\ q.own <= gr
  /\ mu = c => q.pc \in {"recheck", "grant", "cached"} /\ ~q.again
  /\ q.again => q.pc \in {"grant", "cached", "query"}
  /\ q.pc \in {"recheck", "grant", "cached"} /\ ~q.again => mu = c
  /\ q.pc \in {"grant", "cached"} /\ ~q.again => ~rn
  /\ q.pc = "cached" => q.own # 0

Shared(token, fr, mu, gr, rn) ==
  /\ token \in Tokens /\ token <= gr /\ fr \in BOOLEAN /\ (fr => token # 0)
  /\ mu \in Callers \cup {Nobody}
  /\ gr \in Tokens
  /\ rn \in BOOLEAN /\ (rn => fr)

ClientInv ==
  /\ Shared(accessToken, fresh, refreshMu, granted, renewed) /\ live \in BOOLEAN
  /\ DOMAIN http = Callers /\ http = [c \in Callers |-> http[c]]
  /\ \A c \in Callers : CallOK(http[c], c, refreshMu, granted, renewed)

LEMMA OverOK ==
  ASSUME NEW how \in {"none", "cache", "answered", "failed"}, NEW c, NEW mu, NEW gr \in Nat, NEW rn,
         mu # c
  PROVE  CallOK(Over(how), c, mu, gr, rn)
<1>0. 0 \in Tokens
  BY ClientAssumption DEF Tokens
<1>1. /\ Over(how).pc = how /\ Over(how).token = 0 /\ Over(how).own = 0
      /\ ~Over(how).again
  BY DEF Over, NoCall
<1>2. Over(how) \in HTTPCall
  <2>1. NoCall \in HTTPCall
    BY <1>0 DEF NoCall, HTTPCall
  <2>2. QED
    BY <2>1 DEF Over, HTTPCall
<1>3. QED
  BY <1>1, <1>2 DEF CallOK

LEMMA NoCallOver == NoCall = Over("none")
BY DEF NoCall, Over

(* One goroutine's call moves on to q. *)
LEMMA CallMoves ==
  ASSUME ClientInv, NEW c \in Callers, NEW q, CallGoes(c, q),
         Shared(accessToken, fresh, refreshMu, granted, renewed)', live' \in BOOLEAN,
         CallOK(q, c, refreshMu', granted', renewed'),
         granted' >= granted,
         \A d \in Callers \ {c} : refreshMu' = d <=> refreshMu = d,
         renewed' /\ ~renewed => refreshMu = c
  PROVE  ClientInv'
<1>1. http' = [d \in Callers |-> IF d = c THEN q ELSE http[d]]
  BY DEF CallGoes, ClientInv
<1>2. DOMAIN http' = Callers /\ http' = [d \in Callers |-> http'[d]] /\ http'[c] = q
  BY <1>1
<1>3. granted \in Nat /\ granted' \in Nat
  BY ClientAssumption DEF Shared, ClientInv, Tokens
<1>4. ASSUME NEW d \in Callers, d # c
      PROVE  CallOK(http[d], d, refreshMu', granted', renewed')
  <2>1. CallOK(http[d], d, refreshMu, granted, renewed)
    BY DEF ClientInv
  <2>2. http[d].token \in Nat /\ http[d].own \in Nat
    BY <2>1, ClientAssumption DEF CallOK, HTTPCall, Tokens
  <2>3. http[d].token <= granted' /\ http[d].own <= granted'
    BY <1>3, <2>1, <2>2 DEF CallOK
  <2>4. refreshMu' = d <=> refreshMu = d
    BY <1>4
  <2>5. http[d].pc \in {"grant", "cached"} /\ ~http[d].again => ~renewed'
    <3>1. SUFFICES ASSUME http[d].pc \in {"grant", "cached"}, ~http[d].again
                   PROVE  ~renewed'
      OBVIOUS
    <3>2. refreshMu = d /\ ~renewed
      BY <2>1, <3>1 DEF CallOK
    <3>3. QED
      BY <1>4, <3>2
  <2>6. QED
    BY <2>1, <2>3, <2>4, <2>5 DEF CallOK
<1>5. ASSUME NEW d \in Callers
      PROVE  CallOK(http'[d], d, refreshMu', granted', renewed')
  BY <1>1, <1>2, <1>4
<1>6. QED
  BY <1>2, <1>5 DEF ClientInv

LEMMA CallNextInv ==
  ASSUME ClientInv, NEW c \in Callers, CallNext(c)
  PROVE  ClientInv' /\ http[c].pc # "none" /\ http'[c].pc # "none"
           /\ \A d \in Callers \ {c} : http'[d] = http[d]
<1> DEFINE p == http[c]
<1>0. /\ CallOK(p, c, refreshMu, granted, renewed) /\ p \in HTTPCall
      /\ Shared(accessToken, fresh, refreshMu, granted, renewed) /\ live \in BOOLEAN
      /\ granted \in Nat /\ p.own \in Nat /\ p.token \in Nat
  BY ClientAssumption DEF ClientInv, CallOK, HTTPCall, Shared, Tokens
<1>1. ASSUME NEW q, CallGoes(c, q), q.pc # "none", p.pc # "none",
             CallOK(q, c, refreshMu', granted', renewed'),
             Shared(accessToken, fresh, refreshMu, granted, renewed)', live' \in BOOLEAN,
             granted' >= granted,
             \A d \in Callers \ {c} : refreshMu' = d <=> refreshMu = d,
             renewed' /\ ~renewed => refreshMu = c
      PROVE  ClientInv' /\ http[c].pc # "none" /\ http'[c].pc # "none"
               /\ \A d \in Callers \ {c} : http'[d] = http[d]
  <2>1. http'[c] = q /\ \A d \in Callers \ {c} : http'[d] = http[d]
    BY <1>1 DEF CallGoes, ClientInv
  <2>2. QED
    BY <1>1, <2>1, CallMoves
<1>2. CASE LookUp(c)
  <2> DEFINE q == IF fresh THEN [p EXCEPT !.pc = "query", !.token = accessToken]
                  ELSE [p EXCEPT !.pc = "queue"]
  <2>1. /\ q \in HTTPCall /\ q.pc \in {"query", "queue"} /\ q.again = p.again /\ q.own = p.own
        /\ q.token \in {p.token, accessToken}
    BY <1>0 DEF HTTPCall, Shared
  <2>2. CallGoes(c, q) /\ UNCHANGED <<accessToken, fresh, refreshMu, granted, live, renewed>> /\ p.pc = "cache"
    BY <1>2 DEF LookUp, CallAt
  <2> HIDE DEF q
  <2>3. CallOK(q, c, refreshMu, granted, renewed)
    BY <1>0, <2>1, <2>2 DEF CallOK, Shared
  <2>4. QED
    BY <1>0, <1>1, <2>1, <2>2, <2>3
<1>3. CASE LockRefresh(c)
  <2> DEFINE q == [p EXCEPT !.pc = "recheck"]
  <2>1. q \in HTTPCall /\ q.pc = "recheck" /\ q.again = p.again /\ q.own = p.own /\ q.token = p.token
    BY <1>0 DEF HTTPCall
  <2>2. CallGoes(c, q) /\ UNCHANGED <<accessToken, fresh, granted, live, renewed>> /\ p.pc = "queue"
          /\ refreshMu = Nobody /\ refreshMu' = c
    BY <1>3 DEF LockRefresh, CallAt
  <2> HIDE DEF q
  <2>3. CallOK(q, c, refreshMu', granted, renewed)
    BY <1>0, <2>1, <2>2 DEF CallOK
  <2>4. Shared(accessToken, fresh, refreshMu, granted, renewed)'
    BY <1>0, <2>2 DEF Shared
  <2>5. \A d \in Callers \ {c} : refreshMu' = d <=> refreshMu = d
    BY <2>2, ClientAssumption
  <2>6. QED
    BY <1>0, <1>1, <2>1, <2>2, <2>3, <2>4, <2>5
<1>4. CASE Recheck(c)
  <2>0. p.pc = "recheck" /\ p.again = FALSE /\ refreshMu = c
    BY <1>0, <1>4 DEF Recheck, CallAt, CallOK, HTTPCall
  <2>1. CASE fresh
    <3> DEFINE q == [p EXCEPT !.pc = "query", !.token = accessToken]
    <3>1. q \in HTTPCall /\ q.pc = "query" /\ q.again = FALSE /\ q.own = p.own /\ q.token = accessToken
      BY <1>0, <2>0 DEF HTTPCall, Shared
    <3>2. CallGoes(c, q) /\ UNCHANGED <<accessToken, fresh, granted, live, renewed>> /\ refreshMu' = Nobody
      BY <1>4, <2>0, <2>1 DEF Recheck, Unlock
    <3> HIDE DEF q
    <3>3. CallOK(q, c, refreshMu', granted, renewed)
      BY <1>0, <3>1, <3>2, ClientAssumption DEF CallOK, Shared
    <3>4. Shared(accessToken, fresh, refreshMu, granted, renewed)'
      BY <1>0, <3>2 DEF Shared
    <3>5. QED
      BY <1>0, <1>1, <2>0, <3>1, <3>2, <3>3, <3>4, ClientAssumption
  <2>2. CASE ~fresh
    <3> DEFINE q == [p EXCEPT !.pc = "grant"]
    <3>1. q \in HTTPCall /\ q.pc = "grant" /\ q.again = FALSE /\ q.own = p.own /\ q.token = p.token
      BY <1>0, <2>0 DEF HTTPCall
    <3>2. CallGoes(c, q) /\ UNCHANGED <<accessToken, fresh, refreshMu, granted, live, renewed>>
      BY <1>4, <2>0, <2>2 DEF Recheck
    <3> HIDE DEF q
    <3>3. CallOK(q, c, refreshMu, granted, renewed)
      BY <1>0, <2>0, <2>2, <3>1 DEF CallOK, Shared
    <3>4. QED
      BY <1>0, <1>1, <2>0, <3>1, <3>2, <3>3
  <2>3. QED
    BY <2>1, <2>2
<1>5. CASE Grant(c)
  <2> DEFINE q == [p EXCEPT !.pc = "cached", !.own = granted']
  <2>0. /\ p.pc = "grant" /\ granted' = granted + 1 /\ granted' \in Tokens /\ CallGoes(c, q)
        /\ UNCHANGED <<accessToken, fresh, refreshMu, renewed>> /\ live' \in BOOLEAN
    BY <1>0, <1>5, ClientAssumption DEF Grant, CallAt, Tokens
  <2>1. q \in HTTPCall /\ q.pc = "cached" /\ q.again = p.again /\ q.own = granted' /\ q.token = p.token
    BY <1>0, <2>0 DEF HTTPCall
  <2> HIDE DEF q
  <2>2. q.token <= granted' /\ q.own <= granted' /\ granted' >= granted /\ granted' # 0
    BY <1>0, <2>0, <2>1 DEF CallOK
  <2>3. CallOK(q, c, refreshMu', granted', renewed')
    BY <1>0, <2>0, <2>1, <2>2 DEF CallOK
  <2>4. Shared(accessToken, fresh, refreshMu, granted, renewed)'
    BY <1>0, <2>0, ClientAssumption DEF Shared, Tokens
  <2>5. QED
    BY <1>0, <1>1, <2>0, <2>1, <2>2, <2>3, <2>4
<1>6. CASE GrantFails(c)
  <2>1. /\ p.pc \in {"grant", "cached"} /\ CallGoes(c, Over("failed"))
        /\ UNCHANGED <<accessToken, fresh, granted, live, renewed>>
        /\ refreshMu' = IF refreshMu = c THEN Nobody ELSE refreshMu
    BY <1>6 DEF GrantFails, Unlock
  <2>2. refreshMu' # c
    BY <2>1, ClientAssumption
  <2>3. CallOK(Over("failed"), c, refreshMu', granted, renewed)
    BY <1>0, <2>2, OverOK
  <2>4. Over("failed").pc = "failed"
    BY DEF Over, NoCall
  <2>5. Shared(accessToken, fresh, refreshMu, granted, renewed)'
    BY <1>0, <2>1 DEF Shared
  <2>6. QED
    BY <1>0, <1>1, <2>1, <2>3, <2>4, <2>5, ClientAssumption
<1>7. CASE Cached(c)
  <2> DEFINE q == [p EXCEPT !.pc = "query", !.token = p.own]
  <2>0. /\ p.pc = "cached" /\ CallGoes(c, q) /\ accessToken' = p.own /\ fresh' \in BOOLEAN
        /\ renewed' = (fresh' /\ (renewed \/ ~p.again))
        /\ refreshMu' = IF refreshMu = c THEN Nobody ELSE refreshMu
        /\ UNCHANGED <<granted, live>>
    BY <1>7 DEF Cached, CallAt, Unlock
  <2>1. q \in HTTPCall /\ q.pc = "query" /\ q.again = p.again /\ q.own = p.own /\ q.token = p.own
    BY <1>0 DEF HTTPCall
  <2> HIDE DEF q
  <2>2. CallOK(q, c, refreshMu', granted, renewed')
    BY <1>0, <2>0, <2>1, ClientAssumption DEF CallOK
  <2>3. Shared(accessToken, fresh, refreshMu, granted, renewed)'
    BY <1>0, <2>0 DEF Shared, CallOK, HTTPCall
  <2>4. renewed' /\ ~renewed => refreshMu = c
    BY <1>0, <2>0 DEF CallOK
  <2>5. QED
    BY <1>0, <1>1, <2>0, <2>1, <2>2, <2>3, <2>4, ClientAssumption
<1>8. CASE Query(c) \/ UnauthorizedAgain(c) \/ QueryFails(c)
  <2>1. PICK how \in {"answered", "failed"} :
          /\ p.pc = "query" /\ CallGoes(c, Over(how))
          /\ UNCHANGED <<accessToken, fresh, refreshMu, granted, live, renewed>>
    BY <1>8 DEF Query, UnauthorizedAgain, QueryFails, QueryEnds, CallAt
  <2>2. CallOK(Over(how), c, refreshMu, granted, renewed)
    BY <1>0, <2>1, OverOK DEF CallOK
  <2>3. Over(how).pc = how
    BY DEF Over, NoCall
  <2>4. QED
    BY <1>0, <1>1, <2>1, <2>2, <2>3
<1>9. CASE Unauthorized(c)
  <2> DEFINE q == [p EXCEPT !.pc = "grant", !.again = TRUE, !.own = 0]
  <2>0. p.pc = "query" /\ CallGoes(c, q) /\ UNCHANGED <<accessToken, fresh, refreshMu, granted, live, renewed>>
    BY <1>9 DEF Unauthorized, CallAt
  <2>1. q \in HTTPCall /\ q.pc = "grant" /\ q.again /\ q.own = 0 /\ q.token = p.token
    <3>1. 0 \in Tokens
      BY ClientAssumption DEF Tokens
    <3>2. QED
      BY <1>0, <3>1 DEF HTTPCall
  <2> HIDE DEF q
  <2>2. CallOK(q, c, refreshMu, granted, renewed)
    BY <1>0, <2>0, <2>1 DEF CallOK
  <2>3. QED
    BY <1>0, <1>1, <2>0, <2>1, <2>2
<1>10. QED
  BY <1>2, <1>3, <1>4, <1>5, <1>6, <1>7, <1>8, <1>9 DEF CallNext

(* A goroutine without a call begins one, or one with a call takes leave of *)
(* it when it is over.                                                     *)
LEMMA CallTurns ==
  ASSUME ClientInv, NEW c \in Callers, NEW how \in {"none", "cache"},
         HTTPBecomes(c, Over(how)), UNCHANGED live,
         http[c].pc \in {"none", "answered", "failed"}
  PROVE  ClientInv' /\ http'[c].pc = how /\ \A d \in Callers \ {c} : http'[d] = http[d]
<1>0. /\ CallOK(http[c], c, refreshMu, granted, renewed) /\ live \in BOOLEAN
      /\ Shared(accessToken, fresh, refreshMu, granted, renewed) /\ granted \in Nat
  BY ClientAssumption DEF ClientInv, Shared, Tokens
<1>1. CallGoes(c, Over(how)) /\ UNCHANGED <<accessToken, fresh, refreshMu, granted, live, renewed>>
  BY DEF HTTPBecomes
<1>2. refreshMu # c
  BY <1>0 DEF CallOK
<1>3. CallOK(Over(how), c, refreshMu, granted, renewed)
  BY <1>0, <1>2, OverOK
<1>4. ClientInv'
  BY <1>0, <1>1, <1>3, CallMoves
<1>5. Over(how).pc = how
  BY DEF Over, NoCall
<1>6. QED
  BY <1>1, <1>4, <1>5 DEF CallGoes, ClientInv

(* Nobody's call moves: the cached token, or Odoo's newest, grows old. *)
LEMMA TokensExpire ==
  ASSUME ClientInv, Expire \/ GoStale
  PROVE  ClientInv' /\ http' = http
<1>1. Shared(accessToken, fresh, refreshMu, granted, renewed)' /\ live' \in BOOLEAN
  <2>1. Shared(accessToken, fresh, refreshMu, granted, renewed) /\ live \in BOOLEAN
    BY DEF ClientInv
  <2>2. CASE Expire
    BY <2>1, <2>2 DEF Shared, Expire
  <2>3. CASE GoStale
    <3>1. ~fresh' /\ ~renewed' /\ fresh' \in BOOLEAN /\ renewed' \in BOOLEAN
      BY <2>3 DEF GoStale
    <3>2. UNCHANGED <<accessToken, refreshMu, granted, live>>
      BY <2>3 DEF GoStale
    <3>3. QED
      BY <2>1, <3>1, <3>2 DEF Shared
  <2>4. QED
    BY <2>2, <2>3
<1>2. refreshMu' = refreshMu /\ granted' = granted /\ http' = http /\ (renewed' => renewed)
  BY DEF Expire, GoStale
<1>3. \A c \in Callers : CallOK(http[c], c, refreshMu, granted, renewed')
  BY <1>2 DEF ClientInv, CallOK
<1>4. QED
  BY <1>1, <1>2, <1>3 DEF ClientInv

NoCalls ==
  /\ http = [c \in Callers |-> NoCall] /\ accessToken = 0 /\ fresh = FALSE
  /\ refreshMu = Nobody /\ renewed = FALSE /\ granted \in Tokens /\ live \in BOOLEAN

LEMMA ClientStarts == NoCalls => ClientInv /\ \A c \in Callers : http[c].pc = "none"
<1> SUFFICES ASSUME NoCalls PROVE ClientInv /\ \A c \in Callers : http[c].pc = "none"
  OBVIOUS
<1> USE DEF NoCalls
<1>1. granted \in Nat /\ 0 \in Tokens
  BY ClientAssumption DEF Tokens
<1>2. ASSUME NEW c \in Callers
      PROVE  CallOK(Over("none"), c, Nobody, granted, FALSE) /\ Over("none").pc = "none"
  <2>1. Nobody # c
    BY ClientAssumption
  <2>2. QED
    BY <1>1, <2>1, OverOK DEF Over, NoCall
<1>3. Shared(accessToken, fresh, refreshMu, granted, renewed)
  <2>1. ~fresh /\ ~renewed /\ fresh \in BOOLEAN /\ renewed \in BOOLEAN
    OBVIOUS
  <2>2. accessToken <= granted
    BY ClientAssumption DEF Tokens
  <2>3. QED
    BY <1>1, <2>1, <2>2 DEF Shared
<1>4. QED
  BY <1>2, <1>3, NoCallOver DEF ClientInv

-----------------------------------------------------------------------------
(* The runs *)

InTransaction == {"delete", "insert", "keys", "rows", "cascade"}

(* A run is a record of all it knows; it has a kind as long as it goes on,  *)
(* and locks only in a transaction.                                        *)
Whole(r) ==
  r \in [pc : {r.pc}, kind : {r.kind}, asked : {r.asked}, ids : {r.ids}, batch : {r.batch},
         found : {r.found}, todo : {r.todo}, e : {r.e}, report : {r.report},
         locks : {r.locks}, want : {r.want}]

RunOK(r) ==
  /\ Whole(r)
  /\ r.kind \in Kinds \cup {"none"}
  /\ r.pc = "idle" <=> r.kind = "none"
  /\ r.pc \notin InTransaction => r.locks = {} /\ r.want = {}
  /\ r.e # 0 => r.pc \in {"delete", "insert", "keys"}

(* A guard is taken for the one run of its kind; a goroutine has a call     *)
(* under way when, and only when, its run is waiting for Odoo.             *)
RunsInv ==
  /\ DOMAIN run = Callers /\ run = [g \in Callers |-> run[g]]
  /\ \A g \in Callers : RunOK(run[g])
  /\ \A g \in Callers : http[g].pc # "none" <=> run[g].pc = "fetch"
  /\ \A g, h \in Callers : run[g].kind = run[h].kind /\ run[g].kind # "none" => g = h
  /\ guard \in [Kinds -> BOOLEAN]
  /\ \A k \in Kinds : guard[k] <=> \E g \in Callers : run[g].kind = k

SyncInv == ClientInv /\ RunsInv

LEMMA IdleOK ==
  RunOK(Idle) /\ Idle.kind = "none" /\ Idle.pc = "idle"
BY DEF RunOK, Whole, Idle, InTransaction, Kinds

(* A run goes on. *)
LEMMA RunGoesOn ==
  ASSUME RunsInv, NEW g \in Callers, NEW r, Becomes(g, r), RunOK(r), r.kind = run[g].kind,
         guard' = guard,
         http'[g].pc # "none" <=> r.pc = "fetch",
         \A d \in Callers \ {g} : http'[d] = http[d]
  PROVE  RunsInv'
<1>1. run' = [h \in Callers |-> IF h = g THEN r ELSE run[h]]
  BY DEF Becomes, RunsInv
<1>2. \A h \in Callers : run'[h].kind = run[h].kind /\ RunOK(run'[h])
  BY <1>1 DEF RunsInv
<1>3. QED
  BY <1>1, <1>2 DEF RunsInv

(* A run ends, and with it its guard. *)
LEMMA RunEnds ==
  ASSUME RunsInv, NEW g \in Callers, run[g].pc # "idle", Finish(g),
         http'[g].pc = "none",
         \A d \in Callers \ {g} : http'[d] = http[d]
  PROVE  RunsInv'
<1>1. run' = [h \in Callers |-> IF h = g THEN Idle ELSE run[h]]
  BY DEF Finish, Becomes, RunsInv
<1>2. run[g].kind \in Kinds
  BY DEF RunsInv, RunOK
<1>3. guard' = [k \in Kinds |-> IF k = run[g].kind THEN FALSE ELSE guard[k]]
  BY DEF Finish, RunsInv
<1>4. \A h \in Callers : RunOK(run'[h]) /\ (http'[h].pc # "none" <=> run'[h].pc = "fetch")
  BY <1>1, IdleOK DEF RunsInv
<1>5. \A k \in Kinds : k # "none"
  BY DEF Kinds
<1>6. \A k \in Kinds : guard'[k] <=> \E h \in Callers : run'[h].kind = k
  <2>1. TAKE k \in Kinds
  <2>2. CASE k = run[g].kind
    BY <1>1, <1>2, <1>3, <1>5, <2>2, IdleOK DEF RunsInv
  <2>3. CASE k # run[g].kind
    BY <1>1, <1>2, <1>3, <1>5, <2>3, IdleOK DEF RunsInv
  <2>4. QED
    BY <2>2, <2>3
<1>7. \A h, d \in Callers : run'[h].kind = run'[d].kind /\ run'[h].kind # "none" => h = d
  BY <1>1, IdleOK DEF RunsInv
<1>8. DOMAIN run' = Callers /\ run' = [h \in Callers |-> run'[h]]
  BY <1>1
<1>9. guard' \in [Kinds -> BOOLEAN]
  BY <1>3 DEF RunsInv
<1>10. QED
  BY <1>4, <1>6, <1>7, <1>8, <1>9 DEF RunsInv

(* A run starts, if no other of its kind is under way. *)
LEMMA RunStarts ==
  ASSUME RunsInv, NEW g \in Callers, NEW r, Start(g, r), RunOK(r), r.kind \in Kinds,
         http'[g].pc # "none" <=> r.pc = "fetch",
         \A d \in Callers \ {g} : http'[d] = http[d]
  PROVE  RunsInv'
<1>1. run' = [h \in Callers |-> IF h = g THEN r ELSE run[h]]
  BY DEF Start, Becomes, RunsInv
<1>2. ~guard[r.kind] /\ guard' = [k \in Kinds |-> IF k = r.kind THEN TRUE ELSE guard[k]]
  BY DEF Start, TryStart, RunsInv
<1>3. run[g].kind = "none" /\ r.kind # "none"
  BY DEF Start, RunsInv, RunOK, Kinds
<1>4. \A h \in Callers : run[h].kind # r.kind
  BY <1>2 DEF RunsInv
<1>5. \A h \in Callers : RunOK(run'[h]) /\ (http'[h].pc # "none" <=> run'[h].pc = "fetch")
  BY <1>1 DEF RunsInv
<1>6. \A k \in Kinds : guard'[k] <=> \E h \in Callers : run'[h].kind = k
  <2>1. TAKE k \in Kinds
  <2>2. k # "none"
    BY DEF Kinds
  <2>3. QED
    BY <1>1, <1>2, <1>3, <2>2 DEF RunsInv
<1>7. \A h, d \in Callers : run'[h].kind = run'[d].kind /\ run'[h].kind # "none" => h = d
  BY <1>1, <1>4 DEF RunsInv
<1>8. DOMAIN run' = Callers /\ run' = [h \in Callers |-> run'[h]]
  BY <1>1
<1>9. guard' \in [Kinds -> BOOLEAN]
  BY <1>2 DEF RunsInv
<1>10. QED
  BY <1>5, <1>6, <1>7, <1>8, <1>9 DEF RunsInv

(* The next step of a run that calls Odoo neither before it nor after it. *)
LEMMA RunMoves ==
  ASSUME SyncInv, NEW g \in Callers, NEW r, Moves(g, r), RunOK(r), r.kind = run[g].kind,
         run[g].pc # "fetch", r.pc # "fetch"
  PROVE  SyncInv'
<1>1. Becomes(g, r) /\ guard' = guard /\ UNCHANGED clientVars
  BY DEF Moves
<1>2. http' = http /\ http[g].pc = "none"
  BY <1>1 DEF clientVars, SyncInv, RunsInv
<1>3. RunsInv'
  BY <1>1, <1>2, RunGoesOn DEF SyncInv
<1>4. ClientInv'
  BY <1>1 DEF SyncInv, ClientInv, clientVars
<1>5. QED
  BY <1>3, <1>4 DEF SyncInv

LEMMA RunFails ==
  ASSUME SyncInv, NEW g \in Callers, Fail(g), run[g].pc \notin {"idle", "fetch"}
  PROVE  SyncInv'
<1>1. Finish(g) /\ UNCHANGED clientVars
  BY DEF Fail
<1>2. http' = http /\ http[g].pc = "none"
  BY <1>1 DEF clientVars, SyncInv, RunsInv
<1>3. RunsInv'
  BY <1>1, <1>2, RunEnds DEF SyncInv
<1>4. ClientInv'
  BY <1>1 DEF SyncInv, ClientInv, clientVars
<1>5. QED
  BY <1>3, <1>4 DEF SyncInv

(* A transaction turns to its next statement. *)
LEMMA StatementStarts ==
  ASSUME SyncInv, NEW g \in Callers, NEW step, NEW locks, Goes(g, step, locks),
         run[g].pc \in InTransaction, step \in InTransaction,
         run[g].e # 0 => step \in {"delete", "insert", "keys"}
  PROVE  SyncInv'
<1>1. RunOK(run[g]) /\ run[g].pc \notin {"idle", "fetch"} /\ step \notin {"idle", "fetch"}
  BY DEF SyncInv, RunsInv, InTransaction
<1> DEFINE q == [run[g] EXCEPT !.pc = step, !.want = locks]
<1>2. Whole(q) /\ q.pc = step /\ q.kind = run[g].kind /\ q.e = run[g].e
  BY <1>1 DEF RunOK, Whole
<1>3. Moves(g, q)
  BY DEF Goes
<1> HIDE DEF q
<1>4. RunOK(q)
  BY <1>1, <1>2 DEF RunOK, InTransaction
<1>5. QED
  BY <1>1, <1>2, <1>3, <1>4, RunMoves

LEMMA ListIdsInv ==
  ASSUME SyncInv, NEW g \in Callers, ListIds(g)
  PROVE  SyncInv'
<1>1. RunOK(run[g]) /\ run[g].pc = "ids" /\ run[g].pc \notin InTransaction /\ run[g].kind = "employees"
  BY DEF SyncInv, RunsInv, ListIds, At, InTransaction
<1>2. run[g].e = 0 /\ run[g].locks = {} /\ run[g].want = {}
  BY <1>1 DEF RunOK, InTransaction
<1>3. ASSUME NEW asked, NEW ids, Moves(g, [run[g] EXCEPT !.pc = "next", !.asked = asked, !.ids = ids])
      PROVE  SyncInv'
  <2> DEFINE q == [run[g] EXCEPT !.pc = "next", !.asked = asked, !.ids = ids]
  <2>1. Whole(q) /\ q.pc = "next" /\ q.kind = run[g].kind /\ q.locks = {} /\ q.e = 0 /\ q.want = {}
    BY <1>1, <1>2 DEF RunOK, Whole
  <2>2. Moves(g, q)
    BY <1>3
  <2> HIDE DEF q
  <2>3. RunOK(q)
    BY <1>1, <2>1 DEF RunOK, InTransaction
  <2>4. QED
    BY <1>1, <2>1, <2>2, <2>3, RunMoves
<1>4. ASSUME Fail(g)
      PROVE  SyncInv'
  BY <1>1, <1>4, RunFails
<1>5. QED
  BY <1>1, <1>3, <1>4 DEF ListIds

LEMMA UpsertInv ==
  ASSUME SyncInv, NEW g \in Callers, Upsert(g)
  PROVE  SyncInv'
<1>1. RunOK(run[g]) /\ run[g].pc = "upsert" /\ run[g].pc \notin InTransaction /\ run[g].kind = "employees"
  BY DEF SyncInv, RunsInv, Upsert, At, InTransaction
<1>2. run[g].e = 0 /\ run[g].locks = {} /\ run[g].want = {}
  BY <1>1 DEF RunOK, InTransaction
<1>3. ASSUME NEW found, NEW todo, Moves(g, [run[g] EXCEPT !.pc = "resolve", !.found = found, !.todo = todo])
      PROVE  SyncInv'
  <2> DEFINE q == [run[g] EXCEPT !.pc = "resolve", !.found = found, !.todo = todo]
  <2>1. Whole(q) /\ q.pc = "resolve" /\ q.kind = run[g].kind /\ q.locks = {} /\ q.e = 0 /\ q.want = {}
    BY <1>1, <1>2 DEF RunOK, Whole
  <2>2. Moves(g, q)
    BY <1>3
  <2> HIDE DEF q
  <2>3. RunOK(q)
    BY <1>1, <2>1 DEF RunOK, InTransaction
  <2>4. QED
    BY <1>1, <2>1, <2>2, <2>3, RunMoves
<1>4. ASSUME Fail(g)
      PROVE  SyncInv'
  BY <1>1, <1>4, RunFails
<1>5. QED
  BY <1>1, <1>3, <1>4 DEF Upsert

LEMMA ResolveInv ==
  ASSUME SyncInv, NEW g \in Callers, Resolve(g)
  PROVE  SyncInv'
<1>1. RunOK(run[g]) /\ run[g].pc = "resolve" /\ run[g].pc \notin InTransaction /\ run[g].kind = "employees"
  BY DEF SyncInv, RunsInv, Resolve, At, InTransaction
<1>2. run[g].e = 0 /\ run[g].locks = {} /\ run[g].want = {}
  BY <1>1 DEF RunOK, InTransaction
<1>3. ASSUME NEW todo, Moves(g, [run[g] EXCEPT !.pc = "each", !.todo = todo])
      PROVE  SyncInv'
  <2> DEFINE q == [run[g] EXCEPT !.pc = "each", !.todo = todo]
  <2>1. Whole(q) /\ q.pc = "each" /\ q.kind = run[g].kind /\ q.locks = {} /\ q.e = 0 /\ q.want = {}
    BY <1>1, <1>2 DEF RunOK, Whole
  <2>2. Moves(g, q)
    BY <1>3
  <2> HIDE DEF q
  <2>3. RunOK(q)
    BY <1>1, <2>1 DEF RunOK, InTransaction
  <2>4. QED
    BY <1>1, <2>1, <2>2, <2>3, RunMoves
<1>4. ASSUME Moves(g, [run[g] EXCEPT !.pc = "next", !.todo = Nothing])
      PROVE  SyncInv'
  <2> DEFINE q == [run[g] EXCEPT !.pc = "next", !.todo = Nothing]
  <2>1. Whole(q) /\ q.pc = "next" /\ q.kind = run[g].kind /\ q.locks = {} /\ q.e = 0 /\ q.want = {}
    BY <1>1, <1>2 DEF RunOK, Whole
  <2>2. Moves(g, q)
    BY <1>4
  <2> HIDE DEF q
  <2>3. RunOK(q)
    BY <1>1, <2>1 DEF RunOK, InTransaction
  <2>4. QED
    BY <1>1, <2>1, <2>2, <2>3, RunMoves
<1>5. ASSUME Fail(g)
      PROVE  SyncInv'
  BY <1>1, <1>5, RunFails
<1>6. QED
  BY <1>1, <1>3, <1>4, <1>5 DEF Resolve

LEMMA NextEmployeeInv ==
  ASSUME SyncInv, NEW g \in Callers, NextEmployee(g)
  PROVE  SyncInv'
<1>1. RunOK(run[g]) /\ run[g].pc = "each" /\ run[g].pc \notin InTransaction /\ run[g].kind = "employees"
  BY DEF SyncInv, RunsInv, NextEmployee, At, InTransaction
<1>2. run[g].e = 0 /\ run[g].locks = {} /\ run[g].want = {}
  BY <1>1 DEF RunOK, InTransaction
<1>3. ASSUME Moves(g, [run[g] EXCEPT !.pc = "next"])
      PROVE  SyncInv'
  <2> DEFINE q == [run[g] EXCEPT !.pc = "next"]
  <2>1. Whole(q) /\ q.pc = "next" /\ q.kind = run[g].kind /\ q.locks = {} /\ q.e = 0 /\ q.want = {}
    BY <1>1, <1>2 DEF RunOK, Whole
  <2>2. Moves(g, q)
    BY <1>3
  <2> HIDE DEF q
  <2>3. RunOK(q)
    BY <1>1, <2>1 DEF RunOK, InTransaction
  <2>4. QED
    BY <1>1, <2>1, <2>2, <2>3, RunMoves
<1>4. ASSUME NEW e, NEW want, Moves(g, [run[g] EXCEPT !.pc = "delete", !.e = e, !.want = want])
      PROVE  SyncInv'
  <2> DEFINE q == [run[g] EXCEPT !.pc = "delete", !.e = e, !.want = want]
  <2>1. Whole(q) /\ q.pc = "delete" /\ q.kind = run[g].kind /\ q.locks = {} 
    BY <1>1, <1>2 DEF RunOK, Whole
  <2>2. Moves(g, q)
    BY <1>4
  <2> HIDE DEF q
  <2>3. RunOK(q)
    BY <1>1, <2>1 DEF RunOK, InTransaction
  <2>4. QED
    BY <1>1, <2>1, <2>2, <2>3, RunMoves
<1>5. ASSUME Fail(g)
      PROVE  SyncInv'
  BY <1>1, <1>5, RunFails
<1>6. QED
  BY <1>1, <1>3, <1>4, <1>5 DEF NextEmployee

LEMMA StatementsInv ==
  ASSUME SyncInv, NEW g \in Callers, InsertMembers(g) \/ CheckKeys(g) \/ CascadeStores(g)
  PROVE  SyncInv'
<1>1. run[g].e # 0 => run[g].pc \in {"delete", "insert", "keys"}
  BY DEF SyncInv, RunsInv, RunOK
<1>2. CASE InsertMembers(g)
  <2>1. PICK locks : Goes(g, "insert", locks)
    BY <1>2 DEF InsertMembers
  <2>2. run[g].pc = "delete"
    BY <1>2 DEF InsertMembers, Ready, At
  <2>3. QED
    BY <2>1, <2>2, StatementStarts DEF InTransaction
<1>3. CASE CheckKeys(g)
  <2>1. PICK locks : Goes(g, "keys", locks)
    BY <1>3 DEF CheckKeys
  <2>2. run[g].pc = "insert"
    BY <1>3 DEF CheckKeys, Ready, At
  <2>3. QED
    BY <2>1, <2>2, StatementStarts DEF InTransaction
<1>4. CASE CascadeStores(g)
  <2>1. PICK locks : Goes(g, "cascade", locks)
    BY <1>4 DEF CascadeStores
  <2>2. run[g].pc = "rows"
    BY <1>4 DEF CascadeStores, Ready, At
  <2>3. QED
    BY <1>1, <2>1, <2>2, StatementStarts DEF InTransaction
<1>5. QED
  BY <1>2, <1>3, <1>4

LEMMA TakeInv ==
  ASSUME SyncInv, NEW g \in Callers, Take(g)
  PROVE  SyncInv'
<1>1. PICK l \in run[g].want :
        Moves(g, [run[g] EXCEPT !.want = @ \ {l}, !.locks = @ \cup Taken(g, l)])
  BY DEF Take
<1>2. RunOK(run[g]) /\ run[g].pc \in InTransaction
  BY <1>1 DEF SyncInv, RunsInv, RunOK
<1> DEFINE q == [run[g] EXCEPT !.want = @ \ {l}, !.locks = @ \cup Taken(g, l)]
<1>3. Whole(q) /\ q.pc = run[g].pc /\ q.kind = run[g].kind /\ q.e = run[g].e
  BY <1>2 DEF RunOK, Whole
<1>4. Moves(g, q)
  BY <1>1
<1> HIDE DEF q
<1>5. RunOK(q)
  BY <1>2, <1>3 DEF RunOK
<1>6. QED
  BY <1>2, <1>3, <1>4, <1>5, RunMoves DEF InTransaction

(* The transaction for an Employee is over. *)
LEMMA AfterEmployeeInv ==
  ASSUME SyncInv, NEW g \in Callers, run[g].e # 0 \/ run[g].pc = "keys",
         Becomes(g, AfterEmployee(g)), UNCHANGED <<clientVars, guard>>
  PROVE  SyncInv'
<1> DEFINE q == AfterEmployee(g)
<1>1. RunOK(run[g]) /\ run[g].pc \in {"delete", "insert", "keys"}
  BY DEF SyncInv, RunsInv, RunOK
<1>2. Whole(q) /\ q.pc = "each" /\ q.kind = run[g].kind /\ q.e = 0 /\ q.locks = {} /\ q.want = {}
  BY <1>1 DEF AfterEmployee, RunOK, Whole
<1> HIDE DEF q
<1>3. RunOK(q)
  BY <1>1, <1>2 DEF RunOK, InTransaction
<1>4. http' = http /\ http[g].pc = "none"
  BY <1>1 DEF clientVars, SyncInv, RunsInv
<1>5. RunsInv'
  BY <1>2, <1>3, <1>4, RunGoesOn DEF SyncInv, q
<1>6. ClientInv'
  BY DEF SyncInv, ClientInv, clientVars
<1>7. QED
  BY <1>5, <1>6 DEF SyncInv

-----------------------------------------------------------------------------
(* The runs and the Odoo client *)

LEMMA AnswerInv ==
  ASSUME SyncInv, NEW g \in Callers, NEW r, Answer(g, r), RunOK(r), r.kind = run[g].kind,
         r.pc # "fetch"
  PROVE  SyncInv'
<1>1. http[g].pc = "answered" /\ HTTPBecomes(g, Over("none")) /\ UNCHANGED live
  BY NoCallOver DEF Answer, CallAt, HTTPBecomes
<1>2. ClientInv' /\ http'[g].pc = "none" /\ \A d \in Callers \ {g} : http'[d] = http[d]
  BY <1>1, CallTurns DEF SyncInv
<1>3. RunsInv'
  BY <1>2, RunGoesOn DEF SyncInv, Answer
<1>4. QED
  BY <1>2, <1>3 DEF SyncInv

LEMMA FetchedInv ==
  ASSUME SyncInv, NEW g \in Callers, Fetched(g) \/ StoresFetched(g)
  PROVE  SyncInv'
<1>1. RunOK(run[g]) /\ run[g].pc = "fetch"
  BY DEF SyncInv, RunsInv, Fetched, StoresFetched, At
<1>2. /\ run[g].e = 0 /\ run[g].locks = {} /\ run[g].want = {}
      /\ run[g].kind \in Kinds \cup {"none"} /\ run[g].kind # "none"
  BY <1>1 DEF RunOK, InTransaction
<1>3. CASE Fetched(g)
  <2>1. PICK found \in Somes(run[g].batch, SUBSET OdooStores) :
          Answer(g, [run[g] EXCEPT !.pc = IF DOMAIN found = {} THEN "next" ELSE "upsert",
                                   !.batch = {}, !.found = found])
    BY <1>3 DEF Fetched
  <2> DEFINE q == [run[g] EXCEPT !.pc = IF DOMAIN found = {} THEN "next" ELSE "upsert",
                                 !.batch = {}, !.found = found]
  <2>2. /\ Whole(q) /\ q.pc \in {"next", "upsert"} /\ q.kind = run[g].kind
        /\ q.e = 0 /\ q.locks = {} /\ q.want = {}
    BY <1>1, <1>2 DEF RunOK, Whole
  <2>3. Answer(g, q)
    BY <2>1
  <2> HIDE DEF q
  <2>4. RunOK(q)
    BY <1>2, <2>2 DEF RunOK, InTransaction
  <2>5. QED
    BY <2>2, <2>3, <2>4, AnswerInv
<1>4. CASE StoresFetched(g)
  <2>1. PICK report, want : Answer(g, [run[g] EXCEPT !.pc = "rows", !.report = report, !.want = want])
    BY <1>4 DEF StoresFetched
  <2> DEFINE q == [run[g] EXCEPT !.pc = "rows", !.report = report, !.want = want]
  <2>2. Whole(q) /\ q.pc = "rows" /\ q.kind = run[g].kind /\ q.e = 0 /\ q.locks = {}
    BY <1>1, <1>2 DEF RunOK, Whole
  <2>3. Answer(g, q)
    BY <2>1
  <2> HIDE DEF q
  <2>4. RunOK(q)
    BY <1>2, <2>2 DEF RunOK, InTransaction
  <2>5. QED
    BY <2>2, <2>3, <2>4, AnswerInv
<1>5. QED
  BY <1>3, <1>4

LEMMA FetchFailsInv ==
  ASSUME SyncInv, NEW g \in Callers, FetchFails(g)
  PROVE  SyncInv'
<1>1. http[g].pc = "failed" /\ HTTPBecomes(g, Over("none")) /\ UNCHANGED live /\ Finish(g)
  BY NoCallOver DEF FetchFails, CallAt, HTTPBecomes
<1>2. ClientInv' /\ http'[g].pc = "none" /\ \A d \in Callers \ {g} : http'[d] = http[d]
  BY <1>1, CallTurns DEF SyncInv
<1>3. run[g].pc # "idle"
  BY <1>1 DEF SyncInv, RunsInv
<1>4. RunsInv'
  BY <1>1, <1>2, <1>3, RunEnds DEF SyncInv
<1>5. QED
  BY <1>2, <1>4 DEF SyncInv

LEMMA CallBeginsInv ==
  ASSUME SyncInv, NEW g \in Callers, CallBegins(g), run[g].pc # "fetch"
  PROVE  ClientInv' /\ http'[g].pc = "cache" /\ \A d \in Callers \ {g} : http'[d] = http[d]
<1>1. http[g].pc = "none"
  BY DEF SyncInv, RunsInv
<1>2. HTTPBecomes(g, Over("cache")) /\ UNCHANGED live
  BY DEF CallBegins, HTTPBecomes, Over
<1>3. QED
  BY <1>1, <1>2, CallTurns DEF SyncInv

LEMMA NextBatchInv ==
  ASSUME SyncInv, NEW g \in Callers, NextBatch(g)
  PROVE  SyncInv'
<1>1. RunOK(run[g]) /\ run[g].pc = "next" /\ run[g].kind = "employees"
  BY DEF SyncInv, RunsInv, NextBatch, At
<1>2. run[g].e = 0 /\ run[g].locks = {} /\ run[g].want = {}
  BY <1>1 DEF RunOK, InTransaction
<1>3. ASSUME NEW ids, NEW batch, CallBegins(g), UNCHANGED guard,
             Becomes(g, [run[g] EXCEPT !.pc = "fetch", !.ids = ids, !.batch = batch])
      PROVE  SyncInv'
  <2> DEFINE q == [run[g] EXCEPT !.pc = "fetch", !.ids = ids, !.batch = batch]
  <2>1. /\ Whole(q) /\ q.pc = "fetch" /\ q.kind = run[g].kind
        /\ q.e = 0 /\ q.locks = {} /\ q.want = {}
    BY <1>1, <1>2 DEF RunOK, Whole
  <2>2. Becomes(g, q)
    BY <1>3
  <2> HIDE DEF q
  <2>3. RunOK(q)
    BY <1>1, <2>1 DEF RunOK, InTransaction
  <2>4. ClientInv' /\ http'[g].pc = "cache" /\ \A d \in Callers \ {g} : http'[d] = http[d]
    BY <1>1, <1>3, CallBeginsInv
  <2>5. RunsInv'
    BY <1>3, <2>1, <2>2, <2>3, <2>4, RunGoesOn DEF SyncInv
  <2>6. QED
    BY <2>4, <2>5 DEF SyncInv
<1>4. ASSUME Fail(g)
      PROVE  SyncInv'
  BY <1>1, <1>4, RunFails
<1>5. QED
  BY <1>3, <1>4 DEF NextBatch

LEMMA StartInv ==
  ASSUME SyncInv, NEW g \in Callers, SyncEmployees(g) \/ SyncStores(g)
  PROVE  SyncInv'
<1>1. CASE SyncEmployees(g)
  <2>1. PICK ids : Start(g, [Idle EXCEPT !.pc = "ids", !.kind = "employees", !.asked = ids])
    BY <1>1 DEF SyncEmployees
  <2> DEFINE q == [Idle EXCEPT !.pc = "ids", !.kind = "employees", !.asked = ids]
  <2>2. /\ Whole(q) /\ q.pc = "ids" /\ q.kind = "employees" /\ q.e = 0
        /\ q.locks = {} /\ q.want = {}
    BY DEF Idle, Whole
  <2>3. Start(g, q)
    BY <2>1
  <2> HIDE DEF q
  <2>4. RunOK(q) /\ q.kind \in Kinds
    BY <2>2 DEF RunOK, InTransaction, Kinds
  <2>5. UNCHANGED clientVars /\ run[g].pc = "idle"
    BY <1>1, <2>1 DEF SyncEmployees, Start
  <2>6. http' = http /\ http[g].pc = "none"
    BY <2>5 DEF clientVars, SyncInv, RunsInv
  <2>7. RunsInv'
    BY <2>2, <2>3, <2>4, <2>6, RunStarts DEF SyncInv
  <2>8. ClientInv'
    BY <2>5 DEF SyncInv, ClientInv, clientVars
  <2>9. QED
    BY <2>7, <2>8 DEF SyncInv
<1>2. CASE SyncStores(g)
  <2> DEFINE q == [Idle EXCEPT !.pc = "fetch", !.kind = "stores"]
  <2>1. Start(g, q) /\ CallBegins(g) /\ run[g].pc = "idle"
    BY <1>2 DEF SyncStores, Start
  <2>2. /\ Whole(q) /\ q.pc = "fetch" /\ q.kind = "stores" /\ q.e = 0
        /\ q.locks = {} /\ q.want = {}
    BY DEF Idle, Whole
  <2> HIDE DEF q
  <2>3. RunOK(q) /\ q.kind \in Kinds
    BY <2>2 DEF RunOK, InTransaction, Kinds
  <2>4. ClientInv' /\ http'[g].pc = "cache" /\ \A d \in Callers \ {g} : http'[d] = http[d]
    BY <2>1, CallBeginsInv
  <2>5. RunsInv'
    BY <2>1, <2>2, <2>3, <2>4, RunStarts DEF SyncInv
  <2>6. QED
    BY <2>4, <2>5 DEF SyncInv
<1>3. QED
  BY <1>1, <1>2

LEMMA CallGoesOnInv ==
  ASSUME SyncInv, NEW g \in Callers, CallGoesOn(g)
  PROVE  SyncInv'
<1>1. CallNext(g) /\ run' = run /\ guard' = guard
  BY DEF CallGoesOn
<1>2. /\ ClientInv' /\ http[g].pc # "none" /\ http'[g].pc # "none"
      /\ \A d \in Callers \ {g} : http'[d] = http[d]
  BY <1>1, CallNextInv DEF SyncInv
<1>3. RunsInv'
  BY <1>1, <1>2 DEF SyncInv, RunsInv
<1>4. QED
  BY <1>2, <1>3 DEF SyncInv

LEMMA StoresCommitInv ==
  ASSUME SyncInv, NEW g \in Callers, StoresCommit(g)
  PROVE  SyncInv'
<1>1. Finish(g) /\ UNCHANGED clientVars /\ run[g].pc = "cascade"
  BY DEF StoresCommit, Ready, At
<1>2. http' = http /\ http[g].pc = "none"
  BY <1>1 DEF clientVars, SyncInv, RunsInv
<1>3. RunsInv'
  BY <1>1, <1>2, RunEnds DEF SyncInv
<1>4. ClientInv'
  BY <1>1 DEF SyncInv, ClientInv, clientVars
<1>5. QED
  BY <1>3, <1>4 DEF SyncInv

LEMMA AbortInv ==
  ASSUME SyncInv, NEW g \in Callers, Abort(g)
  PROVE  SyncInv'
<1>1. CASE SkipEmployee(g)
  BY <1>1, AfterEmployeeInv DEF SkipEmployee, Moves
<1>2. CASE run[g].pc \in {"rows", "cascade"} /\ Fail(g)
  BY <1>2, RunFails
<1>3. QED
  BY <1>1, <1>2 DEF Abort

LEMMA ProgressInv ==
  ASSUME SyncInv, NEW g \in Callers, Progress(g)
  PROVE  SyncInv'
<1>1. CASE MembersCommit(g)
  BY <1>1, AfterEmployeeInv DEF MembersCommit, Ready, At
<1>2. CASE KeysFail(g)
  BY <1>2, AfterEmployeeInv DEF KeysFail, SkipEmployee, Moves
<1>3. QED
  BY <1>1, <1>2, CallGoesOnInv, FetchFailsInv, TakeInv, ListIdsInv, NextBatchInv, FetchedInv,
     UpsertInv, ResolveInv, NextEmployeeInv, StatementsInv, StoresCommitInv
     DEF Progress

(* The process starts, or starts again: no run, no call, free guards. *)
NoRuns ==
  /\ NoCalls
  /\ run = [g \in Callers |-> Idle] /\ guard = [k \in Kinds |-> FALSE]

LEMMA StartsAfresh == NoRuns => SyncInv
<1> SUFFICES ASSUME NoRuns PROVE SyncInv
  OBVIOUS
<1>0. ClientInv /\ \A g \in Callers : http[g].pc = "none"
  BY ClientStarts DEF NoRuns
<1>1. \A k \in Kinds : k # "none" /\ ~guard[k]
  BY DEF Kinds, NoRuns
<1>2. QED
  BY <1>0, <1>1, IdleOK DEF SyncInv, RunsInv, NoRuns

LEMMA SyncInitInv == Init => SyncInv
<1>1. SUFFICES ASSUME Init PROVE SyncInv
  OBVIOUS
<1>2. granted \in Tokens /\ live \in BOOLEAN
  <2>1. granted = 0 /\ ~live /\ live \in BOOLEAN
    BY <1>1 DEF Init, ClientInit
  <2>2. QED
    BY <2>1, ClientAssumption DEF Tokens
<1>3. NoRuns
  BY <1>1, <1>2 DEF Init, ClientInit, NoRuns, NoCalls
<1>4. QED
  BY <1>3, StartsAfresh

LEMMA CrashInv ==
  ASSUME SyncInv, Crash
  PROVE  SyncInv'
<1>1. granted' \in Tokens /\ live' \in BOOLEAN
  BY DEF SyncInv, ClientInv, Shared, Crash
<1>2. NoRuns'
  BY <1>1 DEF Crash, NoRuns, NoCalls
<1>3. (NoRuns => SyncInv)'
  BY StartsAfresh, PTL
<1>4. QED
  BY <1>2, <1>3

LEMMA SyncNextInv == SyncInv /\ [Next]_vars => SyncInv'
<1>1. SUFFICES ASSUME SyncInv, [Next]_vars PROVE SyncInv'
  OBVIOUS
<1>2. ASSUME UNCHANGED <<clientVars, run, guard>>
      PROVE  SyncInv'
  BY <1>1, <1>2 DEF SyncInv, ClientInv, RunsInv, clientVars
<1>3. ASSUME NEW e, DeleteEmployee(e) \/ \E odoo \in OdooEmployees : UpdateOdooId(e, odoo)
      PROVE  SyncInv'
  BY <1>2, <1>3 DEF DeleteEmployee, UpdateOdooId
<1>4. CASE Outside
  <2>1. ClientInv' /\ http' = http /\ UNCHANGED <<run, guard>>
    BY <1>1, <1>4, TokensExpire DEF Outside, SyncInv
  <2>2. QED
    BY <1>1, <2>1 DEF SyncInv, RunsInv
<1>5. CASE UNCHANGED vars
  BY <1>2, <1>5 DEF vars
<1>6. QED
  BY <1>1, <1>3, <1>4, <1>5, StartInv, ProgressInv, AbortInv, CrashInv DEF Next, DeadlockVictim

(* Whatever syncs, fails or dies: the invariant of the runs and of the      *)
(* client's calls.                                                         *)
THEOREM SyncInvariant == Spec => []SyncInv
BY SyncInitInv, SyncNextInv, PTL DEF Spec

-----------------------------------------------------------------------------
(* What follows *)

(* A guard is taken exactly as long as the one run it was taken for goes    *)
(* on: it is given back on every path of SyncEmployees, SyncStores and     *)
(* their goroutines.                                                       *)
THEOREM GuardsTrackRuns == Spec => []GuardTracksRuns
<1>1. SyncInv => GuardTracksRuns
  <2>1. SUFFICES ASSUME SyncInv, NEW k \in Kinds
                 PROVE  LET runs == {g \in Callers : run[g].kind = k} IN
                        Cardinality(runs) <= 1 /\ (guard[k] <=> runs # {})
    BY DEF GuardTracksRuns
  <2> DEFINE runs == {g \in Callers : run[g].kind = k}
  <2>2. guard[k] <=> runs # {}
    BY <2>1 DEF SyncInv, RunsInv
  <2>3. \A g, h \in runs : g = h
    BY <2>1 DEF SyncInv, RunsInv, Kinds
  <2>4. runs = {} \/ \E g : runs = {g}
    BY <2>3
  <2>5. Cardinality(runs) <= 1
    <3>1. CASE runs = {}
      BY <3>1, FS_EmptySet
    <3>2. CASE \E g : runs = {g}
      <4>1. PICK g : runs = {g}
        BY <3>2
      <4> HIDE DEF runs
      <4>2. Cardinality(runs) = 1
        BY <4>1, FS_Singleton
      <4>3. QED
        BY <4>2
    <3>3. QED
      BY <2>4, <3>1, <3>2
  <2>6. QED
    BY <2>2, <2>5
<1>2. QED
  BY <1>1, SyncInvariant, PTL

LEMMA RefreshHolderGoesOn == SyncInv => NobodyWaitsInVain
<1>1. SUFFICES ASSUME SyncInv, NEW g \in Callers, NEW h \in WaitsOn(g)
               PROVE  run[h].pc # "idle" /\ (refreshMu = h => WaitsOn(h) = {})
  BY DEF NobodyWaitsInVain
<1>2. ASSUME NEW c \in Callers, refreshMu = c
      PROVE  run[c].pc = "fetch" /\ WaitsOn(c) = {}
  <2>1. http[c].pc \in {"recheck", "grant", "cached"}
    BY <1>1, <1>2 DEF SyncInv, ClientInv, CallOK
  <2>2. run[c].pc = "fetch"
    BY <1>1, <2>1 DEF SyncInv, RunsInv
  <2>3. run[c].want = {}
    BY <1>1, <2>2 DEF SyncInv, RunsInv, RunOK, InTransaction
  <2>4. WaitsFor(Held, Wanted, c) = {}
    BY <2>3 DEF WaitsFor, Wanted
  <2>5. QED
    BY <2>1, <2>2, <2>4 DEF WaitsOn, CallAt
<1>3. CASE CallAt(g, "queue")
  <2>1. h = refreshMu /\ h \in Callers
    BY <1>1, <1>3 DEF WaitsOn, SyncInv, ClientInv, Shared
  <2>2. QED
    BY <1>2, <2>1
<1>4. CASE ~CallAt(g, "queue")
  <2>1. h \in WaitsFor(Held, Wanted, g)
    BY <1>1, <1>4 DEF WaitsOn
  <2>2. PICK l : h \in Holders(Held, g, l)
    BY <2>1 DEF WaitsFor
  <2>3. h \in Callers /\ run[h].locks # {}
    BY <2>2 DEF Holders, Held
  <2>4. run[h].pc \in InTransaction
    BY <1>1, <2>3 DEF SyncInv, RunsInv, RunOK
  <2>5. QED
    BY <1>2, <2>3, <2>4 DEF InTransaction
<1>5. QED
  BY <1>3, <1>4

(* Whoever holds refreshMu is in a call to Odoo and waits for nobody; who   *)
(* has locks is in a transaction, of a run that goes on.                   *)
THEOREM WaitsEnd == Spec => []NobodyWaitsInVain
BY RefreshHolderGoesOn, SyncInvariant, PTL

(* However many callers find no token to use at once, one of them asks.     *)
THEOREM TokenRenewedOnce == Spec => OneRenewal
<1>1. SyncInv => (\A c \in Callers : Cached(c) /\ ~http[c].again => ~renewed)
  BY DEF SyncInv, ClientInv, CallOK, Cached, CallAt
<1>2. Spec => [][\A c \in Callers : Cached(c) /\ ~http[c].again => ~renewed]_clientVars
  BY <1>1, SyncInvariant, PTL
<1>3. QED
  BY <1>2 DEF OneRenewal

-----------------------------------------------------------------------------
(* The tables, and the runs that write them *)

On(locks, row) == \E l \in locks : l.row = row

InTurn == {"delete", "insert", "keys"}

(* The steps of an Employee sync and of a Store sync. *)
OnPath(r) ==
  /\ r.pc \in {"ids", "next", "upsert", "resolve", "each"} \cup InTurn => r.kind = "employees"
  /\ r.pc \in {"rows", "cascade"} => r.kind = "stores"

(* Who is to be a member of which Stores: ids that were given to Stores. *)
Resolved(r) ==
  /\ r.pc \in {"each"} \cup InTurn =>
       \A e \in DOMAIN r.todo : \A s \in r.todo[e] : s \in StoreIds /\ s <= lastStore
  /\ r.pc \in InTurn => r.e \in DOMAIN r.todo

(* What a run has locked, or is about to lock ... *)
Asks(r) ==
  \A l \in r.locks \cup r.want :
    /\ r.kind = "stores" => l.mode = "key"
    /\ \A e \in EmployeeIds, s \in StoreIds : l.row = M(<<e, s>>) =>
         l.mode = "key" /\ (r.kind = "employees" => e = r.e /\ s <= lastStore)

(* ... is there, and a Store sync has locked all that it deletes. *)
Covers(r) ==
  /\ \A l \in r.locks : /\ \A e \in EmployeeIds : l.row = E(e) => e \in Employees
                        /\ \A s \in StoreIds : l.row = S(s) => s \in Stores
  /\ r.pc = "rows" => \A s \in StaleFor(r.report) : On(r.locks \cup r.want, S(s))
  /\ r.pc = "cascade" => \A s \in StaleFor(r.report) : On(r.locks, S(s))
  /\ r.pc = "insert" => \A l \in r.want : \E pair \in Pairs : l.row = M(pair)

Room(r) ==
  r.pc \in {"rows", "cascade"} => lastStore + Cardinality(r.report \ Known) <= MaxStores

(* How far the transaction of an Employee has come with one of the Stores. *)
PairAt(r, pair, wanted) ==
  LET has == On(r.locks, M(pair))
      asks == On(r.want, M(pair))
      there == pair \in member IN
  /\ r.pc = "delete" /\ ~wanted => (has => there) /\ (there => has \/ asks)
  /\ r.pc = "delete" /\ wanted => ~has /\ ~asks
  /\ r.pc = "insert" /\ ~wanted => (has <=> there) /\ ~asks
  /\ r.pc = "insert" /\ wanted => (has => ~there) /\ (~there => has \/ asks)
  /\ r.pc = "keys" => (has <=> (there <=> ~wanted)) /\ ~asks

Diffs(r) ==
  r.pc \in InTurn /\ r.e \in Employees =>
    \A s \in Stores : PairAt(r, <<r.e, s>>, s \in r.todo[r.e])

RunIs(r) == Run(r) /\ OnPath(r) /\ Resolved(r) /\ Asks(r) /\ Covers(r) /\ Room(r) /\ Diffs(r)

TablesOK ==
  /\ employee \in [EmployeeIds -> OdooEmployees \cup {NoRow}]
  /\ store \in [StoreIds -> OdooStores \cup {NoRow}]
  /\ lastStore \in 0 .. MaxStores /\ \A s \in Stores : s <= lastStore
  /\ member \subseteq Employees \X Stores
  /\ \A e, f \in Employees : employee[e] = employee[f] => e = f
  /\ \A s, t \in Stores : store[s] = store[t] => s = t
  /\ told \in [EmployeeIds -> SUBSET StoreIds]
  /\ \A e \in EmployeeIds : \A s \in told[e] : s <= lastStore

TablesInv ==
  /\ TablesOK
  /\ started \in 0 .. MaxRuns /\ edits \in 0 .. MaxEdits
  /\ Exclusive(Held)
  /\ \A g \in Callers : RunIs(run[g])
  /\ MembersAsTold

LEMMA SyncBounds ==
  /\ MaxEmployees \in Nat /\ MaxStores \in Nat /\ MaxRuns \in Nat /\ MaxEdits \in Nat
  /\ IsFiniteSet(OdooStores) /\ OdooStores = 1 .. Cardinality(OdooStores)
  /\ Cardinality(OdooStores) <= MaxStores /\ Cardinality(OdooStores) \in Nat
  /\ EmployeeIds \subseteq OdooEmployees
BY SyncAssumption, FS_CardinalityType DEF EmployeeIds

LEMMA RowsDiffer ==
  /\ \A x, y : E(x) = E(y) <=> x = y
  /\ \A x, y : S(x) = S(y) <=> x = y
  /\ \A x, y : M(x) = M(y) <=> x = y
  /\ \A x, y : E(x) # S(y) /\ E(x) # M(y) /\ S(x) # M(y)
BY DEF E, S, M

LEMMA PairsDiffer ==
  \A a, b, c, d : M(<<a, b>>) = M(<<c, d>>) <=> a = c /\ b = d
BY DEF M

LEMMA RowsAre ==
  /\ \A e \in EmployeeIds : E(e) \in Rows
  /\ \A s \in StoreIds : S(s) \in Rows
  /\ \A pair \in Pairs : M(pair) \in Rows
BY DEF Rows

(* A set of locks in one mode. *)
LEMMA LocksAre ==
  ASSUME NEW mode \in Modes, NEW R
  PROVE  /\ \A l \in LocksOf(mode, R) : l.mode = mode /\ l.row \in R
         /\ \A row : On(LocksOf(mode, R), row) <=> row \in R
<1>1. \A row : Lock(mode, row).mode = mode /\ Lock(mode, row).row = row
  BY DEF Lock
<1>2. \A l \in LocksOf(mode, R) : l.mode = mode /\ l.row \in R
  BY <1>1 DEF LocksOf
<1>3. \A row \in R : On(LocksOf(mode, R), row)
  BY <1>1 DEF LocksOf, On
<1>4. QED
  BY <1>2, <1>3 DEF On

LEMMA HeldBy ==
  \A g : \A row : HasRow(g, row) <=> On(run[g].locks, row)
BY DEF HasRow, On

LEMMA ExclusiveMeans ==
  Exclusive(Held) <=>
    \A b \in Callers : \A d \in Callers \ {b} : \A k \in run[b].locks : \A m \in run[d].locks :
      m.row = k.row => ~Conflict(m.mode, k.mode)
BY DEF Exclusive, Held, Holders

LEMMA ExclusiveMeansNext ==
  (Exclusive(Held) <=>
     \A b \in Callers : \A d \in Callers \ {b} : \A k \in run[b].locks : \A m \in run[d].locks :
       m.row = k.row => ~Conflict(m.mode, k.mode))'
BY ExclusiveMeans, PTL

LEMMA RunNext ==
  ASSUME SyncInv, NEW g \in Callers, NEW r, Becomes(g, r)
  PROVE  run'[g] = r /\ \A d \in Callers \ {g} : run'[d] = run[d]
BY DEF SyncInv, RunsInv, Becomes

(* What a run relies on is about these tables alone. *)
LEMMA IsUnchanged ==
  ASSUME NEW d, NEW r, run'[d] = r, RunIs(r), Employees' = Employees,
         UNCHANGED <<store, lastStore, member>>
  PROVE  RunIs(run[d])'
<1>1. Stores' = Stores /\ Known' = Known
  BY DEF Stores, Known
<1>2. StaleFor(run[d].report)' = StaleFor(r.report)
  BY <1>1 DEF StaleFor
<1>3. Run(run[d])' /\ OnPath(run[d])'
  BY DEF RunIs, Run, OnPath
<1>4. Resolved(run[d])' /\ Asks(run[d])'
  BY DEF RunIs, Resolved, Asks
<1>5. Covers(run[d])'
  BY <1>1, <1>2 DEF RunIs, Covers, On
<1>6. Room(run[d])'
  BY <1>1 DEF RunIs, Room
<1>7. Diffs(run[d])'
  BY <1>1 DEF RunIs, Diffs, PairAt, On
<1>8. QED
  BY <1>3, <1>4, <1>5, <1>6, <1>7 DEF RunIs

(* Nobody else has a lock that r's exclude. *)
Alone(g, r) ==
  \A d \in Callers \ {g} : \A k \in r.locks : \A m \in run[d].locks :
    m.row = k.row => ~Conflict(m.mode, k.mode)

LEMMA AloneKept ==
  ASSUME TablesInv, NEW g \in Callers, NEW r, r.locks \subseteq run[g].locks
  PROVE  Alone(g, r)
BY ExclusiveMeans DEF TablesInv, Alone

LEMMA ExclusiveNext ==
  ASSUME SyncInv, TablesInv, NEW g \in Callers, NEW r, Becomes(g, r), Alone(g, r)
  PROVE  Exclusive(Held)'
<1>1. run'[g] = r /\ \A d \in Callers \ {g} : run'[d] = run[d]
  BY RunNext
<1>2. \A m, n : Conflict(m, n) <=> Conflict(n, m)
  BY DEF Conflict
<1>3. \A b \in Callers : \A d \in Callers \ {b} : \A k \in run'[b].locks : \A m \in run'[d].locks :
        m.row = k.row => ~Conflict(m.mode, k.mode)
  BY <1>1, <1>2, ExclusiveMeans DEF TablesInv, Alone
<1>4. QED
  BY <1>3, ExclusiveMeansNext

LEMMA TablesSame ==
  ASSUME TablesOK, MembersAsTold, UNCHANGED <<employee, store, lastStore, member, told>>
  PROVE  TablesOK' /\ MembersAsTold'
<1>1. Employees' = Employees /\ Stores' = Stores
  BY DEF Employees, Stores
<1>2. QED
  BY <1>1 DEF TablesOK, MembersAsTold

(* A step of a run that changes no table. *)
LEMMA RunSteps ==
  ASSUME SyncInv, TablesInv, NEW g \in Callers, NEW r, Becomes(g, r), RunIs(r), Alone(g, r),
         UNCHANGED <<employee, store, lastStore, member, told, edits>>,
         started' \in 0 .. MaxRuns
  PROVE  TablesInv'
<1>1. run'[g] = r /\ \A d \in Callers \ {g} : run'[d] = run[d]
  BY RunNext
<1>2. Employees' = Employees
  BY DEF Employees
<1>3. \A d \in Callers : RunIs(run[d])'
  BY <1>1, <1>2, IsUnchanged DEF TablesInv
<1>4. QED
  BY <1>3, ExclusiveNext, TablesSame DEF TablesInv

LEMMA RunMovesOn ==
  ASSUME SyncInv, TablesInv, NEW g \in Callers, NEW r, Moves(g, r), RunIs(r), Alone(g, r)
  PROVE  TablesInv'
BY RunSteps DEF Moves, tables, TablesInv

(* Outside of a transaction a run relies on little. *)
LEMMA LocklessIs ==
  ASSUME NEW r, Run(r), OnPath(r), r.pc \notin InTransaction, r.locks = {}, r.want = {},
         r.pc = "each" =>
           \A e \in DOMAIN r.todo : \A s \in r.todo[e] : s \in StoreIds /\ s <= lastStore
  PROVE  RunIs(r) /\ \A g : Alone(g, r)
BY DEF RunIs, Resolved, Asks, Covers, Room, Diffs, InTurn, InTransaction, Alone

LEMMA IdleIs == RunIs(Idle) /\ \A g : Alone(g, Idle)
<1>1. DOMAIN Nothing = {}
  BY DEF Nothing
<1>2. Run(Idle) /\ OnPath(Idle)
  BY <1>1 DEF Idle, Run, OnPath, InTurn
<1>3. QED
  BY <1>2, LocklessIs DEF Idle, InTransaction

LEMMA FinishIs ==
  ASSUME SyncInv, TablesInv, NEW g \in Callers, Finish(g),
         UNCHANGED tables
  PROVE  TablesInv'
BY IdleIs, RunSteps DEF Finish, tables, TablesInv

LEMMA LocklessStep ==
  ASSUME SyncInv, TablesInv, NEW g \in Callers, NEW r, Becomes(g, r), UNCHANGED tables,
         started' \in 0 .. MaxRuns,
         Run(r), OnPath(r), r.pc \notin InTransaction, r.locks = {}, r.want = {},
         r.pc = "each" =>
           \A e \in DOMAIN r.todo : \A s \in r.todo[e] : s \in StoreIds /\ s <= lastStore
  PROVE  TablesInv'
BY LocklessIs, RunSteps DEF tables

(* Nothing happens to the runs and the tables. *)
LEMMA NothingHappens ==
  ASSUME TablesInv, UNCHANGED <<tables, run, started>>
  PROVE  TablesInv'
<1>0. Employees' = Employees
  BY DEF Employees, tables
<1>1. \A g \in Callers : RunIs(run[g])'
  BY <1>0, IsUnchanged DEF TablesInv, tables
<1>2. Exclusive(Held)'
  BY ExclusiveMeans, ExclusiveMeansNext DEF TablesInv
<1>3. QED
  BY <1>1, <1>2, TablesSame DEF TablesInv, tables

LEMMA StartTables ==
  ASSUME SyncInv, TablesInv, NEW g \in Callers, SyncEmployees(g) \/ SyncStores(g)
  PROVE  TablesInv'
<1>0. Run(Idle) /\ OnPath(Idle)
  BY IdleIs DEF RunIs
<1>1. ASSUME NEW r, Start(g, r)
      PROVE  Becomes(g, r) /\ UNCHANGED tables /\ started' \in 0 .. MaxRuns
  <2>1. started \in 0 .. MaxRuns /\ started < MaxRuns /\ started' = started + 1
    BY <1>1 DEF TablesInv, Start
  <2>2. QED
    BY <1>1, <2>1, SyncBounds DEF Start
<1>2. CASE SyncEmployees(g)
  <2>1. PICK ids \in SUBSET EmployeeIds :
          Start(g, [Idle EXCEPT !.pc = "ids", !.kind = "employees", !.asked = ids])
    BY <1>2 DEF SyncEmployees
  <2> DEFINE q == [Idle EXCEPT !.pc = "ids", !.kind = "employees", !.asked = ids]
  <2>2. q.pc = "ids" /\ q.kind = "employees" /\ q.locks = {} /\ q.want = {}
    BY DEF Idle
  <2>3. /\ q.asked = ids /\ q.ids = Idle.ids /\ q.batch = Idle.batch /\ q.found = Idle.found
        /\ q.todo = Idle.todo /\ q.e = Idle.e /\ q.report = Idle.report
    BY DEF Idle
  <2>4. Start(g, q)
    BY <2>1
  <2> HIDE DEF q
  <2>5. Run(q)
    BY <1>0, <2>1, <2>2, <2>3 DEF Run, Kinds
  <2>6. OnPath(q) /\ q.pc \notin InTransaction
    BY <2>2 DEF OnPath, InTurn, InTransaction
  <2>7. QED
    BY <1>1, <2>2, <2>4, <2>5, <2>6, LocklessStep
<1>3. CASE SyncStores(g)
  <2> DEFINE q == [Idle EXCEPT !.pc = "fetch", !.kind = "stores"]
  <2>1. Start(g, q)
    BY <1>3 DEF SyncStores
  <2>2. q.pc = "fetch" /\ q.kind = "stores" /\ q.locks = {} /\ q.want = {}
    BY DEF Idle
  <2>3. /\ q.asked = Idle.asked /\ q.ids = Idle.ids /\ q.batch = Idle.batch
        /\ q.found = Idle.found /\ q.todo = Idle.todo /\ q.e = Idle.e /\ q.report = Idle.report
    BY DEF Idle
  <2> HIDE DEF q
  <2>5. Run(q)
    BY <1>0, <2>2, <2>3 DEF Run, Kinds
  <2>6. OnPath(q) /\ q.pc \notin InTransaction
    BY <2>2 DEF OnPath, InTurn, InTransaction
  <2>7. QED
    BY <1>1, <2>1, <2>2, <2>5, <2>6, LocklessStep
<1>4. QED
  BY <1>2, <1>3

(* A run that is not in a transaction. *)
LEMMA OutsideTransaction ==
  ASSUME SyncInv, TablesInv, NEW g \in Callers, run[g].pc \notin InTransaction
  PROVE  /\ Whole(run[g]) /\ Run(run[g]) /\ OnPath(run[g]) /\ Resolved(run[g])
         /\ run[g].locks = {} /\ run[g].want = {} /\ run[g].e = 0
BY DEF SyncInv, RunsInv, RunOK, TablesInv, RunIs, InTransaction

LEMMA ListIdsTables ==
  ASSUME SyncInv, TablesInv, NEW g \in Callers, ListIds(g)
  PROVE  TablesInv'
<1> DEFINE r == run[g]
           ids == {employee[e] : e \in r.asked \cap Employees}
           q == [r EXCEPT !.pc = "next", !.asked = {}, !.ids = ids]
<1>1. CASE Moves(g, q)
  <2>1. r.pc = "ids" /\ r.kind = "employees" /\ r.pc \notin InTransaction
    BY DEF ListIds, At, InTransaction
  <2>2. Whole(r) /\ Run(r) /\ r.locks = {} /\ r.want = {}
    BY <2>1, OutsideTransaction
  <2>3. ids \subseteq OdooEmployees
    BY DEF TablesInv, TablesOK, Employees
  <2>4. /\ q.pc = "next" /\ q.kind = r.kind /\ q.asked = {} /\ q.ids = ids /\ q.batch = r.batch
        /\ q.found = r.found /\ q.todo = r.todo /\ q.e = r.e /\ q.report = r.report
        /\ q.locks = r.locks /\ q.want = r.want
    BY <2>2 DEF Whole
  <2> HIDE DEF q, ids
  <2>5. Run(q)
    BY <2>2, <2>3, <2>4 DEF Run
  <2>6. OnPath(q) /\ q.pc \notin InTransaction
    BY <2>1, <2>4 DEF OnPath, InTurn, InTransaction
  <2>7. Becomes(g, q) /\ UNCHANGED tables /\ started' \in 0 .. MaxRuns
    BY <1>1 DEF Moves, TablesInv
  <2>8. QED
    BY <2>2, <2>4, <2>5, <2>6, <2>7, LocklessStep
<1>2. CASE Fail(g)
  BY <1>2, FinishIs DEF Fail
<1>3. QED
  BY <1>1, <1>2 DEF ListIds

LEMMA NextBatchTables ==
  ASSUME SyncInv, TablesInv, NEW g \in Callers, NextBatch(g)
  PROVE  TablesInv'
<1> DEFINE r == run[g]
<1>1. ASSUME NEW batch \in SUBSET r.ids, UNCHANGED <<tables, started>>,
             Becomes(g, [r EXCEPT !.pc = "fetch", !.ids = @ \ batch, !.batch = batch])
      PROVE  TablesInv'
  <2> DEFINE q == [r EXCEPT !.pc = "fetch", !.ids = @ \ batch, !.batch = batch]
  <2>1. r.pc = "next" /\ r.kind = "employees" /\ r.pc \notin InTransaction
    BY DEF NextBatch, At, InTransaction
  <2>2. Whole(r) /\ Run(r) /\ r.locks = {} /\ r.want = {}
    BY <2>1, OutsideTransaction
  <2>3. /\ q.pc = "fetch" /\ q.kind = r.kind /\ q.asked = r.asked /\ q.ids = r.ids \ batch
        /\ q.batch = batch
        /\ q.found = r.found /\ q.todo = r.todo /\ q.e = r.e /\ q.report = r.report
        /\ q.locks = r.locks /\ q.want = r.want
    BY <2>2 DEF Whole
  <2>4. Becomes(g, q)
    BY <1>1
  <2> HIDE DEF q
  <2>5. Run(q)
    BY <2>2, <2>3 DEF Run
  <2>6. OnPath(q) /\ q.pc \notin InTransaction
    BY <2>1, <2>3 DEF OnPath, InTurn, InTransaction
  <2>7. started' \in 0 .. MaxRuns
    BY <1>1 DEF TablesInv
  <2>8. QED
    BY <1>1, <2>2, <2>3, <2>4, <2>5, <2>6, <2>7, LocklessStep
<1>2. CASE Fail(g)
  BY <1>2, FinishIs DEF Fail
<1>3. QED
  BY <1>1, <1>2 DEF NextBatch

LEMMA FetchedTables ==
  ASSUME SyncInv, TablesInv, NEW g \in Callers, Fetched(g)
  PROVE  TablesInv'
<1> DEFINE r == run[g]
<1>1. PICK found \in Somes(r.batch, SUBSET OdooStores) :
        Answer(g, [r EXCEPT !.pc = IF DOMAIN found = {} THEN "next" ELSE "upsert",
                            !.batch = {}, !.found = found])
  BY DEF Fetched
<1> DEFINE q == [r EXCEPT !.pc = IF DOMAIN found = {} THEN "next" ELSE "upsert",
                          !.batch = {}, !.found = found]
<1>2. r.pc = "fetch" /\ r.kind = "employees" /\ r.pc \notin InTransaction
  BY DEF Fetched, At, InTransaction
<1>3. Whole(r) /\ Run(r) /\ r.locks = {} /\ r.want = {}
  BY <1>2, OutsideTransaction
<1>4. /\ q.pc \in {"next", "upsert"} /\ q.kind = r.kind /\ q.asked = r.asked /\ q.ids = r.ids
      /\ q.batch = {} /\ q.found = found /\ q.todo = r.todo /\ q.e = r.e /\ q.report = r.report
      /\ q.locks = r.locks /\ q.want = r.want
  BY <1>3 DEF Whole
<1>5. Becomes(g, q) /\ UNCHANGED tables /\ started' \in 0 .. MaxRuns
  BY <1>1 DEF Answer, TablesInv
<1> HIDE DEF q
<1>6. DOMAIN found \subseteq r.batch /\ \A o \in DOMAIN found : found[o] \subseteq OdooStores
  <2>1. PICK some \in SUBSET r.batch : found \in [some -> SUBSET OdooStores]
    BY DEF Somes
  <2>2. QED
    BY <2>1
<1>7. Run(q)
  <2>1. DOMAIN q.found \subseteq OdooEmployees /\ \A o \in DOMAIN q.found : q.found[o] \subseteq OdooStores
    BY <1>3, <1>4, <1>6 DEF Run
  <2>2. QED
    BY <1>3, <1>4, <2>1 DEF Run
<1>8. OnPath(q) /\ q.pc \notin InTransaction
  BY <1>2, <1>4 DEF OnPath, InTurn, InTransaction
<1>9. QED
  BY <1>3, <1>4, <1>5, <1>7, <1>8, LocklessStep

LEMMA FetchFailsTables ==
  ASSUME SyncInv, TablesInv, NEW g \in Callers, FetchFails(g)
  PROVE  TablesInv'
BY FinishIs DEF FetchFails

LEMMA UpsertTables ==
  ASSUME SyncInv, TablesInv, NEW g \in Callers, Upsert(g)
  PROVE  TablesInv'
<1> DEFINE r == run[g]
           rows == {e \in Employees : employee[e] \in DOMAIN r.found}
           todo == [e \in rows |-> r.found[employee[e]]]
           q == [r EXCEPT !.pc = "resolve", !.found = Nothing, !.todo = todo]
<1>1. CASE Moves(g, q)
  <2>1. r.pc = "upsert" /\ r.kind = "employees" /\ r.pc \notin InTransaction
    BY DEF Upsert, At, InTransaction
  <2>2. Whole(r) /\ Run(r) /\ r.locks = {} /\ r.want = {}
    BY <2>1, OutsideTransaction
  <2>3. /\ q.pc = "resolve" /\ q.kind = r.kind /\ q.asked = r.asked /\ q.ids = r.ids /\ q.batch = r.batch
        /\ q.found = Nothing /\ q.todo = todo /\ q.e = r.e /\ q.report = r.report
        /\ q.locks = r.locks /\ q.want = r.want
    BY <2>2 DEF Whole
  <2>4. DOMAIN todo \subseteq EmployeeIds
    BY DEF Employees
  <2>5. \A e \in DOMAIN todo : todo[e] \subseteq OdooStores
    BY <2>2 DEF Run
  <2> HIDE DEF q, todo
  <2>6. DOMAIN Nothing = {}
    BY DEF Nothing
  <2>7. Run(q)
    BY <2>2, <2>3, <2>4, <2>5, <2>6 DEF Run
  <2>8. OnPath(q) /\ q.pc \notin InTransaction
    BY <2>1, <2>3 DEF OnPath, InTurn, InTransaction
  <2>9. Becomes(g, q) /\ UNCHANGED tables /\ started' \in 0 .. MaxRuns
    BY <1>1 DEF Moves, TablesInv
  <2>10. QED
    BY <2>2, <2>3, <2>7, <2>8, <2>9, LocklessStep
<1>2. CASE Fail(g)
  BY <1>2, FinishIs DEF Fail
<1>3. QED
  BY <1>1, <1>2 DEF Upsert

LEMMA ResolveTables ==
  ASSUME SyncInv, TablesInv, NEW g \in Callers, Resolve(g)
  PROVE  TablesInv'
<1> DEFINE r == run[g]
<1>1. r.pc = "resolve" /\ r.kind = "employees" /\ r.pc \notin InTransaction
  BY DEF Resolve, At, InTransaction
<1>2. Whole(r) /\ Run(r) /\ r.locks = {} /\ r.want = {}
  BY <1>1, OutsideTransaction
<1>3. ASSUME NEW pc \in {"each", "next"}, NEW todo, Moves(g, [r EXCEPT !.pc = pc, !.todo = todo]),
             DOMAIN todo \subseteq EmployeeIds, \A e \in DOMAIN todo : todo[e] \subseteq Stores
      PROVE  TablesInv'
  <2> DEFINE q == [r EXCEPT !.pc = pc, !.todo = todo]
  <2>1. /\ q.pc = pc /\ q.kind = r.kind /\ q.asked = r.asked /\ q.ids = r.ids /\ q.batch = r.batch
        /\ q.found = r.found /\ q.todo = todo /\ q.e = r.e /\ q.report = r.report
        /\ q.locks = r.locks /\ q.want = r.want
    BY <1>2 DEF Whole
  <2>2. Becomes(g, q) /\ UNCHANGED tables /\ started' \in 0 .. MaxRuns
    BY <1>3 DEF Moves, TablesInv
  <2> HIDE DEF q
  <2>3. \A e \in DOMAIN todo : \A s \in todo[e] : s \in StoreIds /\ s <= lastStore
    BY <1>3 DEF TablesInv, TablesOK, Stores
  <2>4. Run(q)
    <3>1. \A e \in DOMAIN q.todo : q.todo[e] \subseteq OdooStores \cup StoreIds
      BY <2>1, <2>3
    <3>2. QED
      BY <1>2, <1>3, <2>1, <3>1 DEF Run
  <2>5. OnPath(q) /\ q.pc \notin InTransaction
    BY <1>1, <2>1 DEF OnPath, InTurn, InTransaction
  <2>6. QED
    BY <1>2, <2>1, <2>2, <2>3, <2>4, <2>5, LocklessStep
<1>4. ASSUME Moves(g, [r EXCEPT !.pc = "each",
               !.todo = [e \in DOMAIN @ |-> {s \in Stores : store[s] \in @[e]}]])
      PROVE  TablesInv'
  <2> DEFINE todo == [e \in DOMAIN r.todo |-> {s \in Stores : store[s] \in r.todo[e]}]
  <2>1. DOMAIN todo \subseteq EmployeeIds /\ \A e \in DOMAIN todo : todo[e] \subseteq Stores
    BY <1>2 DEF Run
  <2>2. Moves(g, [r EXCEPT !.pc = "each", !.todo = todo])
    BY <1>2, <1>4 DEF Whole
  <2> HIDE DEF todo
  <2>3. QED
    BY <1>3, <2>1, <2>2
<1>5. ASSUME Moves(g, [r EXCEPT !.pc = "next", !.todo = Nothing])
      PROVE  TablesInv'
  <2>1. DOMAIN Nothing = {}
    BY DEF Nothing
  <2>2. QED
    BY <1>3, <1>5, <2>1
<1>6. QED
  BY <1>4, <1>5 DEF Resolve

(* The next statement of a transaction: only what it wants is new. *)
LEMMA GoesIs ==
  ASSUME SyncInv, NEW g \in Callers, NEW step, NEW locks, Goes(g, step, locks)
  PROVE  \E q :
           /\ Moves(g, q)
           /\ q.pc = step /\ q.want = locks /\ q.kind = run[g].kind /\ q.asked = run[g].asked
           /\ q.ids = run[g].ids /\ q.batch = run[g].batch /\ q.found = run[g].found
           /\ q.todo = run[g].todo /\ q.e = run[g].e /\ q.report = run[g].report
           /\ q.locks = run[g].locks
<1> DEFINE r == run[g]
           q == [r EXCEPT !.pc = step, !.want = locks]
<1>1. Whole(r)
  BY DEF SyncInv, RunsInv, RunOK
<1>2. /\ q.pc = step /\ q.want = locks /\ q.kind = r.kind /\ q.asked = r.asked
      /\ q.ids = r.ids /\ q.batch = r.batch /\ q.found = r.found
      /\ q.todo = r.todo /\ q.e = r.e /\ q.report = r.report /\ q.locks = r.locks
  BY <1>1 DEF Whole
<1>3. Moves(g, q)
  BY DEF Goes
<1> HIDE DEF q
<1>4. QED
  BY <1>2, <1>3

LEMMA NextEmployeeTables ==
  ASSUME SyncInv, TablesInv, NEW g \in Callers, NextEmployee(g)
  PROVE  TablesInv'
<1> DEFINE r == run[g]
<1>1. r.pc = "each" /\ r.kind = "employees" /\ r.pc \notin InTransaction
  BY DEF NextEmployee, At, InTransaction
<1>2. Whole(r) /\ Run(r) /\ Resolved(r) /\ r.locks = {} /\ r.want = {}
  BY <1>1, OutsideTransaction
<1>3. CASE Moves(g, [r EXCEPT !.pc = "next"])
  <2> DEFINE q == [r EXCEPT !.pc = "next"]
  <2>1. /\ q.pc = "next" /\ q.kind = r.kind /\ q.asked = r.asked /\ q.ids = r.ids /\ q.batch = r.batch
        /\ q.found = r.found /\ q.todo = r.todo /\ q.e = r.e /\ q.report = r.report
        /\ q.locks = r.locks /\ q.want = r.want
    BY <1>2 DEF Whole
  <2>2. Becomes(g, q) /\ UNCHANGED tables /\ started' \in 0 .. MaxRuns
    BY <1>3 DEF Moves, TablesInv
  <2> HIDE DEF q
  <2>3. Run(q)
    BY <1>2, <2>1 DEF Run
  <2>4. OnPath(q) /\ q.pc \notin InTransaction
    BY <1>1, <2>1 DEF OnPath, InTurn, InTransaction
  <2>5. QED
    BY <1>2, <2>1, <2>2, <2>3, <2>4, LocklessStep
<1>4. ASSUME NEW e \in DOMAIN r.todo,
             Moves(g, [r EXCEPT !.pc = "delete", !.e = e,
               !.want = LocksOf("key", {M(pair) : pair \in
                          {p \in member : p[1] = e /\ p[2] \notin r.todo[e]}})])
      PROVE  TablesInv'
  <2> DEFINE gone == {p \in member : p[1] = e /\ p[2] \notin r.todo[e]}
             R == {M(pair) : pair \in gone}
             want == LocksOf("key", R)
             q == [r EXCEPT !.pc = "delete", !.e = e, !.want = want]
  <2>1. /\ q.pc = "delete" /\ q.kind = r.kind /\ q.asked = r.asked /\ q.ids = r.ids /\ q.batch = r.batch
        /\ q.found = r.found /\ q.todo = r.todo /\ q.e = e /\ q.report = r.report
        /\ q.locks = r.locks /\ q.want = want
    BY <1>2 DEF Whole
  <2>2. Moves(g, q)
    BY <1>4
  <2>3. gone \subseteq Employees \X Stores
    BY DEF TablesInv, TablesOK
  <2>4. \A a \in EmployeeIds, s \in StoreIds : M(<<a, s>>) \in R <=>
          <<a, s>> \in member /\ a = e /\ s \notin r.todo[e]
    BY RowsDiffer
  <2>5. R \subseteq Rows
    BY <2>3, RowsAre DEF Pairs, Employees, Stores
  <2>6. \A row : On({}, row) <=> FALSE
    BY DEF On
  <2> HIDE DEF q, want, R, gone
  <2>7. /\ \A l \in want : l.mode = "key" /\ l.row \in R
        /\ \A row : On(want, row) <=> row \in R
    BY LocksAre DEF want, Modes
  <2>8. Run(q)
    <3>1. \A l \in q.locks \cup q.want : l.mode \in Modes /\ l.row \in Rows
      BY <1>2, <2>1, <2>5, <2>7 DEF Modes
    <3>2. e \in EmployeeIds
      BY <1>2 DEF Run
    <3>3. QED
      BY <1>2, <2>1, <3>1, <3>2 DEF Run
  <2>9. OnPath(q)
    BY <1>1, <2>1 DEF OnPath, InTurn
  <2>10. Resolved(q)
    BY <1>1, <1>2, <1>4, <2>1 DEF Resolved
  <2>11. Asks(q)
    <3>1. SUFFICES ASSUME NEW l \in want
                   PROVE  /\ l.mode = "key"
                          /\ \A a \in EmployeeIds, s \in StoreIds : l.row = M(<<a, s>>) =>
                               a = e /\ s <= lastStore
      BY <1>2, <2>1 DEF Asks
    <3>2. ASSUME NEW a \in EmployeeIds, NEW s \in StoreIds, l.row = M(<<a, s>>)
          PROVE  a = e /\ s <= lastStore
      <4>1. <<a, s>> \in member /\ a = e
        BY <2>4, <2>7, <3>2
      <4>2. s \in Stores
        BY <4>1 DEF TablesInv, TablesOK
      <4>3. QED
        BY <4>1, <4>2 DEF TablesInv, TablesOK
    <3>3. QED
      BY <2>7, <3>2
  <2>12. Covers(q) /\ Room(q)
    BY <1>2, <2>1 DEF Covers, Room
  <2>13. Diffs(q)
    <3>1. SUFFICES ASSUME e \in Employees, NEW s \in Stores
                   PROVE  PairAt(q, <<e, s>>, s \in r.todo[e])
      BY <2>1 DEF Diffs
    <3>2. ~On(q.locks, M(<<e, s>>))
      BY <1>2, <2>1, <2>6
    <3>3. On(q.want, M(<<e, s>>)) <=> <<e, s>> \in member /\ s \notin r.todo[e]
      <4>1. e \in EmployeeIds /\ s \in StoreIds
        BY <3>1 DEF Employees, Stores
      <4>2. On(q.want, M(<<e, s>>)) <=> M(<<e, s>>) \in R
        BY <2>1, <2>7
      <4>3. QED
        BY <2>4, <4>1, <4>2
    <3>4. QED
      BY <2>1, <3>2, <3>3 DEF PairAt
  <2>14. Alone(g, q)
    BY <1>2, <2>1 DEF Alone
  <2>15. QED
    BY <2>2, <2>8, <2>9, <2>10, <2>11, <2>12, <2>13, <2>14, RunMovesOn DEF RunIs
<1>5. QED
  BY <1>3, <1>4 DEF NextEmployee

LEMMA InsertMembersTables ==
  ASSUME SyncInv, TablesInv, NEW g \in Callers, InsertMembers(g)
  PROVE  TablesInv'
<1> DEFINE r == run[g]
           R == {M(pair) : pair \in Members(g)}
           want == LocksOf("key", R)
<1>1. r.pc = "delete" /\ r.kind = "employees" /\ r.want = {} /\ Goes(g, "insert", want)
  BY DEF InsertMembers, Ready, At
<1>2. Run(r) /\ Resolved(r) /\ Asks(r) /\ Covers(r) /\ Diffs(r)
  BY DEF TablesInv, RunIs
<1>3. /\ r.e \in DOMAIN r.todo /\ r.e \in EmployeeIds
      /\ \A s \in r.todo[r.e] : s \in StoreIds /\ s <= lastStore
  BY <1>1, <1>2 DEF Resolved, Run, InTurn
<1>4. \A a \in EmployeeIds, s \in StoreIds : M(<<a, s>>) \in R <=> a = r.e /\ s \in r.todo[r.e]
  BY RowsDiffer DEF Members
<1>5. R \subseteq Rows
  BY <1>3, RowsAre DEF Members, Pairs
<1> HIDE DEF want, R
<1>6. /\ \A l \in want : l.mode = "key" /\ l.row \in R
      /\ \A row : On(want, row) <=> row \in R
  BY LocksAre DEF want, Modes
<1>7. PICK q :
        /\ Moves(g, q)
        /\ q.pc = "insert" /\ q.want = want /\ q.kind = r.kind /\ q.asked = r.asked
        /\ q.ids = r.ids /\ q.batch = r.batch /\ q.found = r.found
        /\ q.todo = r.todo /\ q.e = r.e /\ q.report = r.report /\ q.locks = r.locks
  BY <1>1, GoesIs
<1>8. Run(q)
  <2>1. \A l \in q.locks \cup q.want : l.mode \in Modes /\ l.row \in Rows
    BY <1>2, <1>5, <1>6, <1>7 DEF Run, Modes
  <2>2. QED
    BY <1>2, <1>7, <2>1 DEF Run
<1>9. OnPath(q) /\ Resolved(q)
  BY <1>1, <1>2, <1>7 DEF OnPath, Resolved, InTurn
<1>10. Asks(q)
  <2>1. \A l \in want : \A a \in EmployeeIds, s \in StoreIds : l.row = M(<<a, s>>) =>
          a = r.e /\ s <= lastStore
    BY <1>3, <1>4, <1>6
  <2>2. \A l \in r.locks : /\ r.kind = "stores" => l.mode = "key"
          /\ \A e \in EmployeeIds, s \in StoreIds : l.row = M(<<e, s>>) =>
               l.mode = "key" /\ (r.kind = "employees" => e = r.e /\ s <= lastStore)
    BY <1>2 DEF Asks
  <2>3. QED
    BY <1>6, <1>7, <2>1, <2>2 DEF Asks
<1>11. Covers(q) /\ Room(q)
  <2>1. \A l \in q.want : \E pair \in Pairs : l.row = M(pair)
    BY <1>3, <1>6, <1>7 DEF R, Members, Pairs
  <2>2. QED
    BY <1>2, <1>7, <2>1 DEF Covers, Room
<1>12. Diffs(q)
  <2>1. SUFFICES ASSUME r.e \in Employees, NEW s \in Stores
                 PROVE  PairAt(q, <<r.e, s>>, s \in r.todo[r.e])
    BY <1>7 DEF Diffs
  <2>2. PairAt(r, <<r.e, s>>, s \in r.todo[r.e])
    BY <1>1, <1>2, <2>1 DEF Diffs, InTurn
  <2>3. ~On(r.want, M(<<r.e, s>>))
    BY <1>1 DEF On
  <2>4. s \in StoreIds
    BY DEF Stores
  <2>5. On(q.want, M(<<r.e, s>>)) <=> s \in r.todo[r.e]
    BY <1>3, <1>4, <1>6, <1>7, <2>4
  <2>6. QED
    BY <1>1, <1>7, <2>2, <2>3, <2>5 DEF PairAt
<1>13. Alone(g, q)
  BY <1>7, AloneKept
<1>14. QED
  BY <1>7, <1>8, <1>9, <1>10, <1>11, <1>12, <1>13, RunMovesOn DEF RunIs

LEMMA CheckKeysTables ==
  ASSUME SyncInv, TablesInv, NEW g \in Callers, CheckKeys(g)
  PROVE  TablesInv'
<1> DEFINE r == run[g]
           R == UNION {{E(pair[1]), S(pair[2])} : pair \in Comers(g)}
           want == LocksOf("share", R)
<1>1. r.pc = "insert" /\ r.kind = "employees" /\ r.want = {} /\ Goes(g, "keys", want)
  BY DEF CheckKeys, Ready, At
<1>2. Run(r) /\ Resolved(r) /\ Asks(r) /\ Covers(r) /\ Diffs(r)
  BY DEF TablesInv, RunIs
<1>3. r.e \in DOMAIN r.todo /\ r.e \in EmployeeIds
  BY <1>1, <1>2 DEF Resolved, Run, InTurn
<1>4. \A row \in R : \A pair : row # M(pair)
  BY RowsDiffer
<1>5. R \subseteq Rows
  BY RowsAre DEF Comers, Pairs
<1> HIDE DEF want, R
<1>6. /\ \A l \in want : l.mode = "share" /\ l.row \in R
      /\ \A row : On(want, row) <=> row \in R
  BY LocksAre DEF want, Modes
<1>7. PICK q :
        /\ Moves(g, q)
        /\ q.pc = "keys" /\ q.want = want /\ q.kind = r.kind /\ q.asked = r.asked
        /\ q.ids = r.ids /\ q.batch = r.batch /\ q.found = r.found
        /\ q.todo = r.todo /\ q.e = r.e /\ q.report = r.report /\ q.locks = r.locks
  BY <1>1, GoesIs
<1>8. Run(q)
  <2>1. \A l \in q.locks \cup q.want : l.mode \in Modes /\ l.row \in Rows
    BY <1>2, <1>5, <1>6, <1>7 DEF Run, Modes
  <2>2. QED
    BY <1>2, <1>7, <2>1 DEF Run
<1>9. OnPath(q) /\ Resolved(q)
  BY <1>1, <1>2, <1>7 DEF OnPath, Resolved, InTurn
<1>10. Asks(q)
  <2>1. \A l \in r.locks : /\ r.kind = "stores" => l.mode = "key"
          /\ \A e \in EmployeeIds, s \in StoreIds : l.row = M(<<e, s>>) =>
               l.mode = "key" /\ (r.kind = "employees" => e = r.e /\ s <= lastStore)
    BY <1>2 DEF Asks
  <2>2. QED
    BY <1>1, <1>4, <1>6, <1>7, <2>1 DEF Asks
<1>11. Covers(q) /\ Room(q)
  BY <1>2, <1>7 DEF Covers, Room
<1>12. Diffs(q)
  <2>1. SUFFICES ASSUME r.e \in Employees, NEW s \in Stores
                 PROVE  PairAt(q, <<r.e, s>>, s \in r.todo[r.e])
    BY <1>7 DEF Diffs
  <2>2. PairAt(r, <<r.e, s>>, s \in r.todo[r.e])
    BY <1>1, <1>2, <2>1 DEF Diffs, InTurn
  <2>3. ~On(r.want, M(<<r.e, s>>))
    BY <1>1 DEF On
  <2>4. ~On(q.want, M(<<r.e, s>>))
    BY <1>4, <1>6, <1>7
  <2>5. QED
    BY <1>1, <1>7, <2>2, <2>3, <2>4 DEF PairAt
<1>13. Alone(g, q)
  BY <1>7, AloneKept
<1>14. QED
  BY <1>7, <1>8, <1>9, <1>10, <1>11, <1>12, <1>13, RunMovesOn DEF RunIs

LEMMA CascadeStoresTables ==
  ASSUME SyncInv, TablesInv, NEW g \in Callers, CascadeStores(g)
  PROVE  TablesInv'
<1> DEFINE r == run[g]
           gone == {p \in member : p[2] \in Stale(g)}
           R == {M(pair) : pair \in gone}
           want == LocksOf("key", R)
<1>1. r.pc = "rows" /\ r.kind = "stores" /\ r.want = {} /\ Goes(g, "cascade", want)
  BY DEF CascadeStores, Ready, At
<1>2. Run(r) /\ Asks(r) /\ Covers(r) /\ Room(r)
  BY DEF TablesInv, RunIs
<1>3. gone \subseteq Employees \X Stores
  BY DEF TablesInv, TablesOK
<1>4. R \subseteq Rows
  BY <1>3, RowsAre DEF Pairs, Employees, Stores
<1> HIDE DEF want, R, gone
<1>5. \A l \in want : l.mode = "key" /\ l.row \in R
  BY LocksAre DEF want, Modes
<1>6. PICK q :
        /\ Moves(g, q)
        /\ q.pc = "cascade" /\ q.want = want /\ q.kind = r.kind /\ q.asked = r.asked
        /\ q.ids = r.ids /\ q.batch = r.batch /\ q.found = r.found
        /\ q.todo = r.todo /\ q.e = r.e /\ q.report = r.report /\ q.locks = r.locks
  BY <1>1, GoesIs
<1>7. Run(q)
  <2>1. \A l \in q.locks \cup q.want : l.mode \in Modes /\ l.row \in Rows
    BY <1>2, <1>4, <1>5, <1>6 DEF Run, Modes
  <2>2. QED
    BY <1>2, <1>6, <2>1 DEF Run
<1>8. OnPath(q) /\ Resolved(q) /\ Diffs(q)
  BY <1>1, <1>6 DEF OnPath, Resolved, Diffs, InTurn
<1>9. Asks(q)
  BY <1>1, <1>2, <1>5, <1>6 DEF Asks
<1>10. Covers(q) /\ Room(q)
  <2>1. r.locks \cup r.want = r.locks
    BY <1>1
  <2>2. \A s \in StaleFor(q.report) : On(q.locks, S(s))
    BY <1>1, <1>2, <1>6, <2>1 DEF Covers
  <2>3. \A l \in q.locks : /\ \A e \in EmployeeIds : l.row = E(e) => e \in Employees
                           /\ \A s \in StoreIds : l.row = S(s) => s \in Stores
    BY <1>2, <1>6 DEF Covers
  <2>4. Room(q)
    BY <1>1, <1>2, <1>6 DEF Room
  <2>5. QED
    BY <1>6, <2>2, <2>3, <2>4 DEF Covers
<1>11. Alone(g, q)
  BY <1>6, AloneKept
<1>12. QED
  BY <1>6, <1>7, <1>8, <1>9, <1>10, <1>11, RunMovesOn DEF RunIs

(* What is taken: a lock on a row that is there, or for an INSERT on one    *)
(* that is not.                                                            *)
LEMMA TakenIs ==
  ASSUME NEW g, NEW l
  PROVE  /\ Taken(g, l) \in {{}, {l}}
         /\ \A e : l.row = E(e) => (Taken(g, l) = {l} <=> (e \in Employees) # (run[g].pc = "insert"))
         /\ \A s : l.row = S(s) => (Taken(g, l) = {l} <=> (s \in Stores) # (run[g].pc = "insert"))
         /\ \A p : l.row = M(p) => (Taken(g, l) = {l} <=> (p \in member) # (run[g].pc = "insert"))
<1>1. {} # {l}
  OBVIOUS
<1>2. ASSUME NEW e, l.row = E(e)
      PROVE  Taken(g, l) = {l} <=> (e \in Employees) # (run[g].pc = "insert")
  <2>1. l.row[1] = "employee" /\ l.row[2] = e
    BY <1>2 DEF E
  <2>2. QED
    BY <1>1, <2>1 DEF Taken
<1>3. ASSUME NEW s, l.row = S(s)
      PROVE  Taken(g, l) = {l} <=> (s \in Stores) # (run[g].pc = "insert")
  <2>1. l.row[1] = "store" /\ l.row[2] = s
    BY <1>3 DEF S
  <2>2. QED
    BY <1>1, <2>1 DEF Taken
<1>4. ASSUME NEW p, l.row = M(p)
      PROVE  Taken(g, l) = {l} <=> (p \in member) # (run[g].pc = "insert")
  <2>1. l.row[1] = "member" /\ l.row[2] = p
    BY <1>4 DEF M
  <2>2. QED
    BY <1>1, <2>1 DEF Taken
<1>5. Taken(g, l) \in {{}, {l}}
  BY DEF Taken
<1>6. QED
  BY <1>2, <1>3, <1>4, <1>5

LEMMA TakeTables ==
  ASSUME SyncInv, TablesInv, NEW g \in Callers, Take(g)
  PROVE  TablesInv'
<1> DEFINE r == run[g]
<1>1. PICK l \in r.want :
        /\ Holders(Held, g, l) = {}
        /\ Moves(g, [r EXCEPT !.want = @ \ {l}, !.locks = @ \cup Taken(g, l)])
  BY DEF Take
<1> DEFINE q == [r EXCEPT !.want = @ \ {l}, !.locks = @ \cup Taken(g, l)]
<1>2. Whole(r) /\ Run(r) /\ OnPath(r) /\ Resolved(r) /\ Asks(r) /\ Covers(r) /\ Room(r) /\ Diffs(r)
  BY DEF SyncInv, RunsInv, RunOK, TablesInv, RunIs
<1>3. /\ q.pc = r.pc /\ q.kind = r.kind /\ q.asked = r.asked /\ q.ids = r.ids /\ q.batch = r.batch
      /\ q.found = r.found /\ q.todo = r.todo /\ q.e = r.e /\ q.report = r.report
      /\ q.want = r.want \ {l} /\ q.locks = r.locks \cup Taken(g, l)
  BY <1>2 DEF Whole
<1>4. Moves(g, q)
  BY <1>1
<1> HIDE DEF q
<1>5. Taken(g, l) \in {{}, {l}}
  BY TakenIs
<1>6. q.locks \subseteq r.locks \cup {l} /\ q.locks \cup q.want \subseteq r.locks \cup r.want
  BY <1>3, <1>5
<1>7. Run(q) /\ OnPath(q) /\ Resolved(q) /\ Asks(q) /\ Room(q)
  <2>1. Run(q)
    BY <1>2, <1>3, <1>6 DEF Run
  <2>2. OnPath(q) /\ Resolved(q) /\ Room(q)
    BY <1>2, <1>3 DEF OnPath, Resolved, Room
  <2>3. Asks(q)
    BY <1>2, <1>3, <1>6 DEF Asks
  <2>4. QED
    BY <2>1, <2>2, <2>3
<1>8. Covers(q)
  <2>1. ASSUME NEW k \in q.locks
        PROVE  /\ \A e \in EmployeeIds : k.row = E(e) => e \in Employees
               /\ \A s \in StoreIds : k.row = S(s) => s \in Stores
    <3>1. CASE k \in r.locks
      BY <1>2, <3>1 DEF Covers
    <3>2. CASE k \notin r.locks
      <4>1. k = l /\ Taken(g, l) = {l}
        BY <1>3, <1>5, <2>1, <3>2
      <4>2. CASE r.pc = "insert"
        <5>1. PICK pair \in Pairs : l.row = M(pair)
          BY <1>2, <4>2 DEF Covers
        <5>2. QED
          BY <4>1, <5>1, RowsDiffer
      <4>3. CASE r.pc # "insert"
        BY <4>1, <4>3, TakenIs
      <4>4. QED
        BY <4>2, <4>3
    <3>3. QED
      BY <3>1, <3>2
  <2>2. ASSUME q.pc = "rows", NEW s \in StaleFor(q.report)
        PROVE  On(q.locks \cup q.want, S(s))
    <3>1. PICK k \in r.locks \cup r.want : k.row = S(s)
      BY <1>2, <1>3, <2>2 DEF Covers, On
    <3>2. s \in Stores
      BY DEF StaleFor
    <3>3. k = l => k \in q.locks
      <4>1. r.pc # "insert"
        BY <1>3, <2>2
      <4>2. l.row = S(s) => Taken(g, l) = {l}
        BY <3>2, <4>1, TakenIs
      <4>3. QED
        BY <1>3, <3>1, <4>2
    <3>4. k \in q.locks \cup q.want
      BY <1>3, <3>1, <3>3
    <3>5. QED
      BY <3>1, <3>4 DEF On
  <2>3. ASSUME q.pc = "cascade", NEW s \in StaleFor(q.report)
        PROVE  On(q.locks, S(s))
    BY <1>2, <1>3, <2>3 DEF Covers, On
  <2>4. q.pc = "insert" => \A k \in q.want : \E pair \in Pairs : k.row = M(pair)
    BY <1>2, <1>3 DEF Covers
  <2>5. QED
    BY <2>1, <2>2, <2>3, <2>4 DEF Covers
<1>9. Diffs(q)
  <2>1. SUFFICES ASSUME r.pc \in InTurn, r.e \in Employees, NEW s \in Stores
                 PROVE  PairAt(q, <<r.e, s>>, s \in r.todo[r.e])
    BY <1>3 DEF Diffs
  <2> DEFINE pair == <<r.e, s>>
             there == pair \in member
  <2>2. PairAt(r, pair, s \in r.todo[r.e])
    BY <1>2, <2>1 DEF Diffs
  <2>3. CASE l.row # M(pair)
    <3>1. On(q.locks, M(pair)) <=> On(r.locks, M(pair))
      BY <1>3, <1>5, <2>3 DEF On
    <3>2. On(q.want, M(pair)) <=> On(r.want, M(pair))
      BY <1>3, <2>3 DEF On
    <3>3. QED
      BY <1>3, <2>2, <3>1, <3>2 DEF PairAt
  <2>4. CASE l.row = M(pair)
    <3>1. On(r.want, M(pair))
      BY <2>4 DEF On
    <3>2. On(q.locks, M(pair)) <=> On(r.locks, M(pair)) \/ Taken(g, l) = {l}
      BY <1>3, <1>5, <2>4 DEF On
    <3>3. Taken(g, l) = {l} <=> there # (r.pc = "insert")
      BY <2>4, TakenIs
    <3>4. ~On(q.want, M(pair)) \/ On(q.want, M(pair))
      OBVIOUS
    <3>5. r.pc \in {"delete", "insert"} /\ (r.pc = "delete" <=> s \notin r.todo[r.e])
      BY <2>1, <2>2, <3>1 DEF PairAt, InTurn
    <3> HIDE DEF pair
    <3>6. ASSUME r.pc = "delete"
          PROVE  PairAt(q, pair, s \in r.todo[r.e])
      BY <1>3, <2>2, <3>2, <3>3, <3>5, <3>6 DEF PairAt
    <3>7. ASSUME r.pc = "insert"
          PROVE  PairAt(q, pair, s \in r.todo[r.e])
      BY <1>3, <2>2, <3>2, <3>3, <3>5, <3>7 DEF PairAt
    <3>8. QED
      BY <3>5, <3>6, <3>7 DEF pair
  <2>5. QED
    BY <2>3, <2>4
<1>10. Alone(g, q)
  <2>1. SUFFICES ASSUME NEW d \in Callers \ {g}, NEW k \in q.locks, NEW m \in run[d].locks, m.row = k.row
                 PROVE  ~Conflict(m.mode, k.mode)
    BY DEF Alone
  <2>2. CASE k \in r.locks
    BY <2>1, <2>2, AloneKept DEF Alone
  <2>3. CASE k = l
    BY <1>1, <2>1, <2>3 DEF Holders, Held
  <2>4. QED
    BY <1>6, <2>2, <2>3
<1>11. QED
  BY <1>4, <1>7, <1>8, <1>9, <1>10, RunMovesOn DEF RunIs

(* The transaction for an Employee is over, and its locks with it. *)
LEMMA AfterEmployeeIs ==
  ASSUME SyncInv, TablesInv, NEW g \in Callers, run[g].e # 0 \/ run[g].pc = "keys"
  PROVE  LET q == AfterEmployee(g) IN
         /\ Run(q) /\ OnPath(q) /\ q.pc = "each" /\ q.locks = {} /\ q.want = {}
         /\ \A e \in DOMAIN q.todo : \A s \in q.todo[e] : s \in StoreIds /\ s <= lastStore
<1> DEFINE r == run[g]
           q == AfterEmployee(g)
           todo == [e \in DOMAIN r.todo \ {r.e} |-> r.todo[e]]
<1>1. Whole(r) /\ Run(r) /\ OnPath(r) /\ Resolved(r) /\ r.pc \in InTurn
  BY DEF SyncInv, RunsInv, RunOK, TablesInv, RunIs, InTurn
<1>2. /\ q.pc = "each" /\ q.kind = r.kind /\ q.asked = r.asked /\ q.ids = r.ids /\ q.batch = r.batch
      /\ q.found = r.found /\ q.todo = todo /\ q.e = 0 /\ q.report = r.report
      /\ q.locks = {} /\ q.want = {}
  BY <1>1 DEF Whole, AfterEmployee
<1>3. \A e \in DOMAIN todo : e \in DOMAIN r.todo /\ todo[e] = r.todo[e]
  OBVIOUS
<1> HIDE DEF q, todo
<1>4. Run(q)
  <2>1. DOMAIN q.todo \subseteq EmployeeIds /\ \A e \in DOMAIN q.todo : q.todo[e] \subseteq OdooStores \cup StoreIds
    BY <1>1, <1>2, <1>3 DEF Run
  <2>2. QED
    BY <1>1, <1>2, <2>1 DEF Run
<1>5. OnPath(q)
  BY <1>1, <1>2 DEF OnPath, InTurn
<1>6. \A e \in DOMAIN q.todo : \A s \in q.todo[e] : s \in StoreIds /\ s <= lastStore
  BY <1>1, <1>2, <1>3 DEF Resolved
<1>7. QED
  BY <1>2, <1>4, <1>5, <1>6 DEF q

LEMMA SkipTables ==
  ASSUME SyncInv, TablesInv, NEW g \in Callers, SkipEmployee(g)
  PROVE  TablesInv'
<1> DEFINE q == AfterEmployee(g)
<1>1. Becomes(g, q) /\ UNCHANGED tables /\ started' \in 0 .. MaxRuns
  BY DEF SkipEmployee, Moves, TablesInv
<1>2. /\ Run(q) /\ OnPath(q) /\ q.pc = "each" /\ q.locks = {} /\ q.want = {}
      /\ \A e \in DOMAIN q.todo : \A s \in q.todo[e] : s \in StoreIds /\ s <= lastStore
  BY AfterEmployeeIs DEF SkipEmployee
<1> HIDE DEF q
<1>3. q.pc \notin InTransaction
  BY <1>2 DEF InTransaction
<1>4. QED
  BY <1>1, <1>2, <1>3, LocklessStep

LEMMA AbortTables ==
  ASSUME SyncInv, TablesInv, NEW g \in Callers, Abort(g)
  PROVE  TablesInv'
BY SkipTables, FinishIs DEF Abort, Fail

LEMMA StoresFetchedTables ==
  ASSUME SyncInv, TablesInv, NEW g \in Callers, StoresFetched(g)
  PROVE  TablesInv'
<1> DEFINE r == run[g]
<1>1. PICK report \in SUBSET OdooStores :
        /\ lastStore + Cardinality(report \ Known) <= MaxStores
        /\ Answer(g, [r EXCEPT !.pc = "rows", !.report = report,
                        !.want = LocksOf("key", {S(s) : s \in StaleFor(report)})])
  BY DEF StoresFetched
<1> DEFINE R == {S(s) : s \in StaleFor(report)}
           want == LocksOf("key", R)
           q == [r EXCEPT !.pc = "rows", !.report = report, !.want = want]
<1>2. r.pc = "fetch" /\ r.kind = "stores" /\ r.pc \notin InTransaction
  BY DEF StoresFetched, At, InTransaction
<1>3. Whole(r) /\ Run(r) /\ r.locks = {} /\ r.want = {}
  BY <1>2, OutsideTransaction
<1>4. /\ q.pc = "rows" /\ q.kind = r.kind /\ q.asked = r.asked /\ q.ids = r.ids /\ q.batch = r.batch
      /\ q.found = r.found /\ q.todo = r.todo /\ q.e = r.e /\ q.report = report
      /\ q.locks = r.locks /\ q.want = want
  BY <1>3 DEF Whole
<1>5. Becomes(g, q) /\ UNCHANGED tables /\ started' \in 0 .. MaxRuns
  BY <1>1 DEF Answer, TablesInv
<1>6. \A s \in StaleFor(report) : S(s) \in R /\ s \in StoreIds
  BY DEF StaleFor, Stores
<1>7. R \subseteq Rows
  BY <1>6, RowsAre
<1> HIDE DEF q, want, R
<1>8. /\ \A l \in want : l.mode = "key" /\ l.row \in R
      /\ \A row : On(want, row) <=> row \in R
  BY LocksAre DEF want, Modes
<1>9. Run(q)
  <2>1. \A l \in q.locks \cup q.want : l.mode \in Modes /\ l.row \in Rows
    BY <1>3, <1>4, <1>7, <1>8 DEF Modes
  <2>2. QED
    BY <1>1, <1>3, <1>4, <2>1 DEF Run
<1>10. OnPath(q) /\ Resolved(q) /\ Diffs(q)
  BY <1>2, <1>4 DEF OnPath, Resolved, Diffs, InTurn
<1>11. Asks(q)
  BY <1>2, <1>3, <1>4, <1>8 DEF Asks
<1>12. Covers(q)
  <2>1. q.locks \cup q.want = want
    BY <1>3, <1>4
  <2>2. QED
    BY <1>3, <1>4, <1>6, <1>8, <2>1 DEF Covers
<1>13. Room(q)
  BY <1>1, <1>4 DEF Room
<1>14. Alone(g, q)
  BY <1>3, <1>4 DEF Alone
<1>15. QED
  BY <1>5, <1>9, <1>10, <1>11, <1>12, <1>13, <1>14, RunSteps DEF RunIs, tables

(* Who is not in the transaction of an Employee relies on no membership. *)
LEMMA IsKept ==
  ASSUME NEW d, NEW r, run'[d] = r, RunIs(r), r.pc \notin InTurn,
         UNCHANGED <<employee, store, lastStore>>
  PROVE  RunIs(run[d])'
<1>1. Employees' = Employees /\ Stores' = Stores /\ Known' = Known
  BY DEF Employees, Stores, Known
<1>2. StaleFor(run[d].report)' = StaleFor(r.report)
  BY <1>1 DEF StaleFor
<1>3. Run(run[d])' /\ OnPath(run[d])'
  BY DEF RunIs, Run, OnPath
<1>4. Resolved(run[d])' /\ Asks(run[d])'
  BY DEF RunIs, Resolved, Asks
<1>5. Covers(run[d])'
  BY <1>1, <1>2 DEF RunIs, Covers, On
<1>6. Room(run[d])'
  BY <1>1 DEF RunIs, Room
<1>7. Diffs(run[d])'
  BY DEF Diffs
<1>8. QED
  BY <1>3, <1>4, <1>5, <1>6, <1>7 DEF RunIs

(* What a transaction has changed about whose memberships when it commits. *)
LEMMA CommitIs ==
  ASSUME SyncInv, TablesInv, NEW g \in Callers, MembersCommit(g)
  PROVE  /\ run[g].e \in DOMAIN run[g].todo /\ run[g].e \in EmployeeIds
         /\ member' \subseteq Employees \X Stores
         /\ \A a \in EmployeeIds, s \in StoreIds :
              a # run[g].e => (<<a, s>> \in member' <=> <<a, s>> \in member)
         /\ \A s \in Stores : run[g].e \in Employees =>
              (<<run[g].e, s>> \in member' <=> s \in run[g].todo[run[g].e])
<1> DEFINE r == run[g]
           e == r.e
<1>1. /\ r.pc = "keys" /\ r.kind = "employees" /\ r.want = {} /\ KeysHold(g)
      /\ member' = (member \ Goners(g)) \cup Comers(g)
  BY DEF MembersCommit, Ready, At
<1>2. Run(r) /\ Resolved(r) /\ Asks(r) /\ Covers(r) /\ Diffs(r)
  BY DEF TablesInv, RunIs
<1>3. e \in DOMAIN r.todo /\ e \in EmployeeIds
  BY <1>1, <1>2 DEF Resolved, Run, InTurn
<1>4. \A pair : pair \in Goners(g) <=> pair \in member /\ On(r.locks, M(pair))
  BY HeldBy DEF Goners
<1>5. \A pair : pair \in Comers(g) <=> pair \in Pairs \ member /\ On(r.locks, M(pair))
  BY HeldBy DEF Comers
<1>6. \A a \in EmployeeIds, s \in StoreIds : On(r.locks, M(<<a, s>>)) => a = e
  <2>1. SUFFICES ASSUME NEW a \in EmployeeIds, NEW s \in StoreIds, On(r.locks, M(<<a, s>>))
                 PROVE  a = e
    OBVIOUS
  <2>2. PICK l \in r.locks : l.row = M(<<a, s>>)
    BY <2>1 DEF On
  <2>3. QED
    BY <1>1, <1>2, <2>2 DEF Asks
<1>7. member' \subseteq Employees \X Stores
  <2>1. member \subseteq Employees \X Stores
    BY DEF TablesInv, TablesOK
  <2>2. ASSUME NEW pair \in Comers(g)
        PROVE  pair \in Employees \X Stores
    <3>1. pair \in EmployeeIds \X StoreIds
      BY <1>5 DEF Pairs
    <3>2. HasRow(g, E(pair[1])) /\ HasRow(g, S(pair[2]))
      BY <1>1 DEF KeysHold
    <3>3. pair[1] \in Employees /\ pair[2] \in Stores
      BY <1>2, <3>1, <3>2 DEF Covers, HasRow
    <3>4. QED
      BY <3>1, <3>3
  <2>3. QED
    BY <1>1, <2>1, <2>2
<1>8. ASSUME NEW a \in EmployeeIds, NEW s \in StoreIds, a # e
      PROVE  <<a, s>> \in member' <=> <<a, s>> \in member
  BY <1>1, <1>4, <1>5, <1>6, <1>8
<1>9. ASSUME NEW s \in Stores, e \in Employees
      PROVE  <<e, s>> \in member' <=> s \in r.todo[e]
  <2> DEFINE pair == <<e, s>>
  <2>1. PairAt(r, pair, s \in r.todo[e])
    BY <1>1, <1>2, <1>9 DEF Diffs, InTurn
  <2>2. On(r.locks, M(pair)) <=> (pair \in member <=> s \notin r.todo[e])
    BY <1>1, <2>1 DEF PairAt
  <2>3. pair \in Pairs
    BY <1>3 DEF Pairs, Stores
  <2> HIDE DEF pair
  <2>4. pair \in member' <=> s \in r.todo[e]
    BY <1>1, <1>4, <1>5, <2>2, <2>3
  <2>5. QED
    BY <2>4 DEF pair
<1>10. QED
  BY <1>3, <1>7, <1>8, <1>9

LEMMA MembersCommitTables ==
  ASSUME SyncInv, TablesInv, NEW g \in Callers, MembersCommit(g)
  PROVE  TablesInv'
<1> DEFINE r == run[g]
           e == r.e
           q == AfterEmployee(g)
<1>1. /\ r.pc = "keys" /\ r.kind = "employees" /\ Becomes(g, q)
      /\ told' = [told EXCEPT ![e] = r.todo[e]]
      /\ UNCHANGED <<clientVars, employee, store, lastStore, edits, guard, started>>
  BY DEF MembersCommit, Ready, At
<1>2. /\ Run(q) /\ OnPath(q) /\ q.pc = "each" /\ q.locks = {} /\ q.want = {}
      /\ \A a \in DOMAIN q.todo : \A s \in q.todo[a] : s \in StoreIds /\ s <= lastStore
  BY <1>1, AfterEmployeeIs
<1> HIDE DEF q
<1>3. q.pc \notin InTransaction /\ q.pc \notin InTurn
  BY <1>2 DEF InTransaction, InTurn
<1>4. RunIs(q) /\ Alone(g, q)
  BY <1>2, <1>3, LocklessIs
<1>5. run'[g] = q /\ \A d \in Callers \ {g} : run'[d] = run[d]
  BY <1>1, RunNext
<1>6. ASSUME NEW d \in Callers
      PROVE  RunIs(run[d])'
  <2>1. CASE d = g
    BY <1>1, <1>3, <1>4, <1>5, <2>1, IsKept
  <2>2. CASE d # g
    <3>1. run[d].kind # "employees"
      BY <1>1, <2>2 DEF SyncInv, RunsInv
    <3>2. RunIs(run[d])
      BY DEF TablesInv
    <3>3. run[d].pc \notin InTurn
      BY <3>1, <3>2 DEF RunIs, OnPath
    <3>4. QED
      BY <1>1, <1>5, <2>2, <3>2, <3>3, IsKept
  <2>3. QED
    BY <2>1, <2>2
<1>7. Exclusive(Held)'
  BY <1>1, <1>4, ExclusiveNext
<1>8. Employees' = Employees /\ Stores' = Stores
  BY <1>1 DEF Employees, Stores
<1>9. /\ e \in DOMAIN r.todo /\ e \in EmployeeIds
      /\ member' \subseteq Employees \X Stores
      /\ \A a \in EmployeeIds, s \in StoreIds :
           a # e => (<<a, s>> \in member' <=> <<a, s>> \in member)
      /\ \A s \in Stores : e \in Employees => (<<e, s>> \in member' <=> s \in r.todo[e])
  BY CommitIs
<1>10. \A s \in r.todo[e] : s \in StoreIds /\ s <= lastStore
  BY <1>1, <1>9 DEF TablesInv, RunIs, Resolved, InTurn
<1>11. \A a \in EmployeeIds : told'[a] = IF a = e THEN r.todo[e] ELSE told[a]
  BY <1>1 DEF TablesInv, TablesOK
<1>12. TablesOK'
  <2>1. told' \in [EmployeeIds -> SUBSET StoreIds] /\ \A a \in EmployeeIds : \A s \in told'[a] : s <= lastStore
    BY <1>1, <1>9, <1>10, <1>11 DEF TablesInv, TablesOK
  <2>2. QED
    BY <1>1, <1>8, <1>9, <2>1 DEF TablesInv, TablesOK
<1>13. MembersAsTold'
  <2>1. SUFFICES ASSUME NEW a \in Employees
                 PROVE  {s \in StoreIds : <<a, s>> \in member'} = told'[a] \cap Stores
    BY <1>8 DEF MembersAsTold
  <2>2. a \in EmployeeIds /\ Stores \subseteq StoreIds
    BY DEF Employees, Stores
  <2>3. CASE a = e
    BY <1>9, <1>11, <2>2, <2>3
  <2>4. CASE a # e
    <3>1. {s \in StoreIds : <<a, s>> \in member} = told[a] \cap Stores
      BY DEF TablesInv, MembersAsTold
    <3>2. QED
      BY <1>9, <1>11, <2>2, <2>4, <3>1
  <2>5. QED
    BY <2>3, <2>4
<1>14. QED
  BY <1>1, <1>6, <1>7, <1>12, <1>13 DEF TablesInv

(* Admins edit Employees whom no transaction has locked. *)
LEMMA UpdateOdooIdTables ==
  ASSUME TablesInv, NEW e \in EmployeeIds, NEW odoo \in OdooEmployees, UpdateOdooId(e, odoo)
  PROVE  TablesInv'
<1>1. /\ e \in Employees /\ edits < MaxEdits /\ edits' = edits + 1
      /\ \A f \in Employees : employee[f] # odoo
      /\ employee' = [employee EXCEPT ![e] = odoo]
      /\ UNCHANGED <<store, lastStore, member, told, run, started>>
  BY DEF UpdateOdooId, Edit
<1>2. employee \in [EmployeeIds -> OdooEmployees \cup {NoRow}] /\ odoo # NoRow
  BY NoRowAssumption DEF TablesInv, TablesOK
<1>3. \A f \in EmployeeIds : employee'[f] = IF f = e THEN odoo ELSE employee[f]
  BY <1>1, <1>2
<1>4. Employees' = Employees /\ Stores' = Stores
  BY <1>1, <1>2, <1>3 DEF Employees, Stores
<1>5. edits' \in 0 .. MaxEdits
  BY <1>1, SyncBounds DEF TablesInv
<1>6. \A g \in Callers : RunIs(run[g])'
  BY <1>1, <1>4, IsUnchanged DEF TablesInv
<1>7. Exclusive(Held)'
  BY <1>1, ExclusiveMeans, ExclusiveMeansNext DEF TablesInv
<1>8. TablesOK'
  <2>1. employee' \in [EmployeeIds -> OdooEmployees \cup {NoRow}]
    BY <1>1, <1>2
  <2>2. ASSUME NEW f \in Employees, NEW h \in Employees, employee'[f] = employee'[h]
        PROVE  f = h
    <3>1. f \in EmployeeIds /\ h \in EmployeeIds
      BY DEF Employees
    <3>2. QED
      BY <1>1, <1>3, <2>2, <3>1 DEF TablesInv, TablesOK
  <2>3. QED
    BY <1>1, <1>4, <2>1, <2>2 DEF TablesInv, TablesOK
<1>9. MembersAsTold'
  BY <1>1, <1>4 DEF TablesInv, MembersAsTold
<1>10. QED
  BY <1>1, <1>5, <1>6, <1>7, <1>8, <1>9 DEF TablesInv

LEMMA DeleteEmployeeTables ==
  ASSUME TablesInv, NEW e \in EmployeeIds, DeleteEmployee(e)
  PROVE  TablesInv'
<1>1. /\ e \in Employees /\ edits < MaxEdits /\ edits' = edits + 1
      /\ \A g \in Callers : \A l \in run[g].locks : l.row # E(e)
      /\ employee' = [employee EXCEPT ![e] = NoRow]
      /\ member' = {pair \in member : pair[1] # e} /\ told' = [told EXCEPT ![e] = {}]
      /\ UNCHANGED <<store, lastStore, run, started>>
  BY DEF DeleteEmployee, Edit, Untouched
<1>2. employee \in [EmployeeIds -> OdooEmployees \cup {NoRow}]
  BY DEF TablesInv, TablesOK
<1>3. \A f \in EmployeeIds : employee'[f] = IF f = e THEN NoRow ELSE employee[f]
  BY <1>1, <1>2
<1>4. Employees' = Employees \ {e} /\ Stores' = Stores /\ Known' = Known
  BY <1>1, <1>2, <1>3 DEF Employees, Stores, Known
<1>5. edits' \in 0 .. MaxEdits
  BY <1>1, SyncBounds DEF TablesInv
<1>6. ASSUME NEW g \in Callers
      PROVE  RunIs(run[g])'
  <2> DEFINE r == run[g]
  <2>1. Run(r) /\ OnPath(r) /\ Resolved(r) /\ Asks(r) /\ Covers(r) /\ Room(r) /\ Diffs(r)
    BY DEF TablesInv, RunIs
  <2>2. run'[g] = r
    BY <1>1
  <2>3. StaleFor(run[g].report)' = StaleFor(r.report)
    BY <1>1, <1>4, <2>2 DEF StaleFor
  <2>4. Run(run[g])' /\ OnPath(run[g])'
    BY <2>1, <2>2 DEF Run, OnPath
  <2>5. Resolved(run[g])' /\ Asks(run[g])'
    BY <1>1, <2>1, <2>2 DEF Resolved, Asks
  <2>6. Covers(run[g])'
    BY <1>1, <1>4, <2>1, <2>2, <2>3 DEF Covers, On
  <2>7. Room(run[g])'
    BY <1>1, <1>4, <2>1, <2>2 DEF Room
  <2>8. Diffs(run[g])'
    <3>1. \A a \in Employees \ {e} : \A s \in Stores : <<a, s>> \in member' <=> <<a, s>> \in member
      BY <1>1
    <3>2. QED
      BY <1>4, <2>1, <2>2, <3>1 DEF Diffs, PairAt, On
  <2>9. QED
    BY <2>4, <2>5, <2>6, <2>7, <2>8 DEF RunIs
<1>7. Exclusive(Held)'
  BY <1>1, ExclusiveMeans, ExclusiveMeansNext DEF TablesInv
<1>8. \A a \in EmployeeIds : told'[a] = IF a = e THEN {} ELSE told[a]
  BY <1>1 DEF TablesInv, TablesOK
<1>9. TablesOK'
  <2>1. employee' \in [EmployeeIds -> OdooEmployees \cup {NoRow}]
    BY <1>1, <1>2
  <2>2. \A f, h \in Employees' : employee'[f] = employee'[h] => f = h
    BY <1>3, <1>4 DEF TablesInv, TablesOK, Employees
  <2>3. member' \subseteq Employees' \X Stores'
    BY <1>1, <1>4 DEF TablesInv, TablesOK
  <2>4. told' \in [EmployeeIds -> SUBSET StoreIds] /\ \A a \in EmployeeIds : \A s \in told'[a] : s <= lastStore
    BY <1>1, <1>8 DEF TablesInv, TablesOK
  <2>5. QED
    BY <1>1, <1>4, <2>1, <2>2, <2>3, <2>4 DEF TablesInv, TablesOK
<1>10. MembersAsTold'
  <2>1. SUFFICES ASSUME NEW a \in Employees, a # e
                 PROVE  {s \in StoreIds : <<a, s>> \in member'} = told'[a] \cap Stores
    BY <1>4 DEF MembersAsTold
  <2>2. {s \in StoreIds : <<a, s>> \in member} = told[a] \cap Stores
    BY DEF TablesInv, MembersAsTold
  <2>3. \A s : <<a, s>> \in member' <=> <<a, s>> \in member
    BY <1>1, <2>1
  <2>4. told'[a] = told[a]
    BY <1>8, <2>1 DEF Employees
  <2>5. QED
    BY <2>2, <2>3, <2>4
<1>11. QED
  BY <1>1, <1>5, <1>6, <1>7, <1>9, <1>10 DEF TablesInv

(* Which Stores there are after a Store sync: those that were not stale,    *)
(* under the ids they had, and the new ones under ids that are new, too.   *)
LEMMA StoresCommitIs ==
  ASSUME SyncInv, TablesInv, NEW g \in Callers, StoresCommit(g)
  PROVE  /\ lastStore' \in 0 .. MaxStores /\ lastStore <= lastStore'
         /\ store' \in [StoreIds -> OdooStores \cup {NoRow}]
         /\ \A s \in StoreIds : s <= lastStore =>
              /\ s \in Stores' <=> s \in Stores \ Stale(g)
              /\ s \in Stores' => store'[s] = store[s]
         /\ \A s \in Stores' : s <= lastStore'
         /\ \A s, t \in Stores' : store'[s] = store'[t] => s = t
<1> DEFINE r == run[g]
           new == r.report \ Known
<1>1. PICK nth \in [new -> 1 .. Cardinality(new)] :
        /\ \A o, p \in new : nth[o] = nth[p] => o = p
        /\ lastStore' = lastStore + Cardinality(new)
        /\ store' = [s \in StoreIds |->
             IF s \in Stale(g) THEN NoRow
             ELSE IF \E o \in new : s = lastStore + nth[o]
                  THEN CHOOSE o \in new : s = lastStore + nth[o]
                  ELSE store[s]]
  BY DEF StoresCommit
<1>2. r.pc = "cascade"
  BY DEF StoresCommit, Ready, At
<1>3. Run(r) /\ Room(r)
  BY DEF TablesInv, RunIs
<1>4. new \subseteq OdooStores /\ \A o \in new : o # NoRow /\ o \notin Known
  BY <1>3, NoRowAssumption DEF Run
<1>5. lastStore + Cardinality(new) <= MaxStores
  BY <1>2, <1>3 DEF Room
<1>6. /\ store \in [StoreIds -> OdooStores \cup {NoRow}] /\ lastStore \in 0 .. MaxStores
      /\ \A s \in Stores : s <= lastStore
      /\ \A s, t \in Stores : store[s] = store[t] => s = t
  BY DEF TablesInv, TablesOK
<1>7. Stale(g) \subseteq Stores
  BY DEF Stale, StaleFor
<1>8. Stores = {s \in StoreIds : store[s] # NoRow} /\ Stores' = {s \in StoreIds : store'[s] # NoRow}
  BY DEF Stores
<1>9. \A s \in Stores : store[s] \in Known
  BY DEF Known
<1> DEFINE count == Cardinality(new)
<1>10. count \in Nat
  <2>1. IsFiniteSet(new)
    BY <1>4, SyncBounds, FS_Subset
  <2>2. QED
    BY <2>1, FS_CardinalityType
<1>11. MaxStores \in Nat /\ lastStore \in Nat /\ StoreIds \subseteq Nat
  BY <1>6, SyncBounds DEF StoreIds
<1>12. \A o \in new : nth[o] \in 1 .. count
  BY <1>1
<1> HIDE DEF new, count
<1>13. ASSUME NEW s \in StoreIds, s <= lastStore
       PROVE  /\ s \in Stores' <=> s \in Stores \ Stale(g)
              /\ s \in Stores' => store'[s] = store[s]
  <2>1. ~ \E o \in new : s = lastStore + nth[o]
    BY <1>10, <1>11, <1>12, <1>13
  <2>2. store'[s] = IF s \in Stale(g) THEN NoRow ELSE store[s]
    BY <1>1, <2>1
  <2>3. QED
    BY <1>8, <2>2
<1>14. ASSUME NEW s \in Stores', ~(s <= lastStore)
       PROVE  \E o \in new : s = lastStore + nth[o] /\ store'[s] = o
  <2>1. s \in StoreIds /\ store'[s] # NoRow
    BY <1>8
  <2>2. s \notin Stores
    BY <1>6, <1>14
  <2>3. s \notin Stale(g) /\ store[s] = NoRow
    BY <1>7, <1>8, <2>1, <2>2
  <2>4. \E o \in new : s = lastStore + nth[o]
    BY <1>1, <2>1, <2>3
  <2>5. store'[s] = CHOOSE o \in new : s = lastStore + nth[o]
    BY <1>1, <2>1, <2>3, <2>4
  <2>6. QED
    BY <2>4, <2>5
<1>15. lastStore' = lastStore + count
  BY <1>1 DEF count
<1>16. lastStore' \in 0 .. MaxStores /\ lastStore <= lastStore'
  BY <1>5, <1>10, <1>11, <1>15 DEF count
<1>17. \A s \in Stores' : s <= lastStore'
  <2>1. TAKE s \in Stores'
  <2>2. s \in Nat
    BY <1>8, <1>11
  <2>3. CASE s <= lastStore
    BY <1>11, <1>16, <2>2, <2>3
  <2>4. CASE ~(s <= lastStore)
    BY <1>10, <1>11, <1>12, <1>14, <1>15, <2>4
  <2>5. QED
    BY <2>3, <2>4
<1>18. store' \in [StoreIds -> OdooStores \cup {NoRow}]
  <2>1. ASSUME NEW s \in StoreIds
        PROVE  store'[s] \in OdooStores \cup {NoRow}
    <3>1. CASE s \notin Stores'
      BY <1>8, <3>1
    <3>2. CASE s \in Stores' /\ s <= lastStore
      BY <1>6, <1>13, <3>2
    <3>3. CASE s \in Stores' /\ ~(s <= lastStore)
      BY <1>4, <1>14, <3>3
    <3>4. QED
      BY <3>1, <3>2, <3>3
  <2>2. store' = [s \in StoreIds |-> store'[s]]
    BY <1>1
  <2>3. QED
    BY <2>1, <2>2
<1>19. ASSUME NEW s \in Stores', NEW t \in Stores', store'[s] = store'[t]
       PROVE  s = t
  <2>1. s \in StoreIds /\ t \in StoreIds
    BY <1>8
  <2>2. \A u \in Stores' : u <= lastStore => u \in Stores /\ store'[u] = store[u] /\ store'[u] \in Known
    BY <1>8, <1>9, <1>13
  <2>3. CASE s <= lastStore /\ t <= lastStore
    BY <1>6, <1>19, <2>2, <2>3
  <2>4. CASE ~(s <= lastStore) /\ ~(t <= lastStore)
    BY <1>14, <1>19, <2>4
  <2>5. CASE s <= lastStore /\ ~(t <= lastStore)
    BY <1>4, <1>14, <1>19, <2>2, <2>5
  <2>6. CASE ~(s <= lastStore) /\ t <= lastStore
    BY <1>4, <1>14, <1>19, <2>2, <2>6
  <2>7. QED
    BY <2>3, <2>4, <2>5, <2>6
<1>20. QED
  BY <1>13, <1>16, <1>17, <1>18, <1>19

LEMMA IdleNow == \A g \in Callers : run[g] = Idle => RunIs(run[g])
BY IdleIs

LEMMA IdleNext == (\A g \in Callers : run[g] = Idle => RunIs(run[g]))'
BY IdleNow, PTL

(* The other runs when a Store sync commits: whoever refers to a Store has  *)
(* locked it, so that it is not deleted; a Store that is new is not yet     *)
(* anybody's.                                                              *)
LEMMA OthersOnCommit ==
  ASSUME SyncInv, TablesInv, NEW g \in Callers, StoresCommit(g), NEW d \in Callers, d # g
  PROVE  RunIs(run[d])'
<1> DEFINE r == run[d]
<1>1. Run(r) /\ OnPath(r) /\ Resolved(r) /\ Asks(r) /\ Covers(r) /\ Diffs(r)
  BY DEF TablesInv, RunIs
<1>2. /\ run[g].kind = "stores" /\ run[g].pc = "cascade" /\ Becomes(g, Idle)
      /\ member' = {pair \in member : pair[2] \notin Stale(g)} /\ employee' = employee
  BY DEF StoresCommit, Ready, At, Finish
<1>3. run'[d] = r
  BY <1>2, RunNext
<1>4. r.kind # "stores"
  BY <1>2 DEF SyncInv, RunsInv
<1>5. r.pc \notin {"rows", "cascade"}
  BY <1>1, <1>4 DEF OnPath
<1>6. Employees' = Employees
  BY <1>2 DEF Employees
<1>7. /\ lastStore' \in 0 .. MaxStores /\ lastStore <= lastStore' /\ lastStore \in 0 .. MaxStores
      /\ \A s \in StoreIds : s <= lastStore => (s \in Stores' <=> s \in Stores \ Stale(g))
  BY StoresCommitIs DEF TablesInv, TablesOK
<1>8. /\ \A s \in Stores : s \in StoreIds /\ s <= lastStore
      /\ \A s \in StoreIds : s \in Nat /\ (s <= lastStore => s <= lastStore')
      /\ \A s \in Stores' : s \in StoreIds
  <2>1. MaxStores \in Nat
    BY SyncBounds
  <2>2. \A s \in Stores : s \in StoreIds /\ s <= lastStore
    BY DEF TablesInv, TablesOK, Stores
  <2>3. \A s \in StoreIds : s \in Nat /\ (s <= lastStore => s <= lastStore')
    BY <1>7, <2>1 DEF StoreIds
  <2>4. \A s \in Stores' : s \in StoreIds
    BY DEF Stores
  <2>5. QED
    BY <2>2, <2>3, <2>4
<1>9. Run(run[d])' /\ OnPath(run[d])'
  BY <1>1, <1>3 DEF Run, OnPath
<1>10. Resolved(run[d])'
  BY <1>1, <1>3, <1>8 DEF Resolved
<1>11. Asks(run[d])'
  BY <1>1, <1>3, <1>8 DEF Asks
<1>12. ASSUME NEW l \in r.locks, NEW s \in StoreIds, l.row = S(s)
       PROVE  s \in Stores'
  <2>1. s \in Stores
    BY <1>1, <1>12 DEF Covers
  <2>2. s \notin Stale(g)
    <3>1. SUFFICES ASSUME s \in Stale(g) PROVE FALSE
      OBVIOUS
    <3>2. Covers(run[g]) /\ Asks(run[g])
      BY DEF TablesInv, RunIs
    <3>3. PICK k \in run[g].locks : k.row = S(s)
      BY <1>2, <3>1, <3>2 DEF Covers, On, Stale
    <3>4. k.mode = "key"
      BY <1>2, <3>2, <3>3 DEF Asks
    <3>5. ~Conflict(k.mode, l.mode)
      BY <1>12, <3>3, ExclusiveMeans DEF TablesInv
    <3>6. QED
      BY <3>4, <3>5 DEF Conflict
  <2>3. QED
    BY <1>7, <1>8, <2>1, <2>2
<1>13. Covers(run[d])'
  BY <1>1, <1>3, <1>5, <1>6, <1>12 DEF Covers
<1>14. Room(run[d])'
  BY <1>3, <1>5 DEF Room
<1>15. Diffs(run[d])'
  <2>1. SUFFICES ASSUME r.pc \in InTurn, r.e \in Employees, NEW s \in Stores'
                 PROVE  PairAt(run[d], <<r.e, s>>, s \in r.todo[r.e])'
    BY <1>3, <1>6 DEF Diffs
  <2> DEFINE pair == <<r.e, s>>
             wanted == s \in r.todo[r.e]
  <2>2. r.kind = "employees" /\ r.e \in DOMAIN r.todo /\ r.e \in EmployeeIds
    BY <1>1, <2>1 DEF OnPath, Resolved, Employees
  <2>3. CASE s <= lastStore
    <3>1. s \in Stores /\ s \notin Stale(g)
      BY <1>7, <1>8, <2>1, <2>3
    <3>2. PairAt(r, pair, wanted)
      BY <1>1, <2>1, <3>1 DEF Diffs
    <3>3. pair \in member' <=> pair \in member
      BY <1>2, <3>1
    <3>4. QED
      BY <1>3, <3>2, <3>3 DEF PairAt, On
  <2>4. CASE ~(s <= lastStore)
    <3>1. ~wanted
      BY <1>1, <2>1, <2>2, <2>4 DEF Resolved
    <3>2. pair \notin member'
      <4>1. s \notin Stores
        BY <1>8, <2>4
      <4>2. QED
        BY <1>2, <4>1 DEF TablesInv, TablesOK
    <3>3. \A l \in r.locks \cup r.want : l.row # M(pair)
      BY <1>1, <1>8, <2>2, <2>4 DEF Asks
    <3>4. ~On(r.locks, M(pair)) /\ ~On(r.want, M(pair))
      BY <3>3 DEF On
    <3>5. QED
      BY <1>3, <2>1, <3>1, <3>2, <3>4 DEF PairAt, On
  <2>5. QED
    BY <2>3, <2>4
<1>16. QED
  BY <1>9, <1>10, <1>11, <1>13, <1>14, <1>15 DEF RunIs

LEMMA StoresCommitTables ==
  ASSUME SyncInv, TablesInv, NEW g \in Callers, StoresCommit(g)
  PROVE  TablesInv'
<1>1. /\ Becomes(g, Idle) /\ UNCHANGED <<employee, told, edits, started>>
      /\ member' = {pair \in member : pair[2] \notin Stale(g)}
  BY DEF StoresCommit, Finish
<1>2. run'[g] = Idle /\ \A d \in Callers \ {g} : run'[d] = run[d]
  BY <1>1, RunNext
<1>3. \A d \in Callers : RunIs(run[d])'
  <2>1. RunIs(run[g])'
    BY <1>2, IdleNext
  <2>2. \A d \in Callers \ {g} : RunIs(run[d])'
    BY OthersOnCommit
  <2>3. QED
    BY <2>1, <2>2
<1>4. Exclusive(Held)'
  BY <1>1, IdleIs, ExclusiveNext
<1>5. Employees' = Employees
  BY <1>1 DEF Employees
<1>6. /\ lastStore' \in 0 .. MaxStores /\ lastStore <= lastStore'
      /\ store' \in [StoreIds -> OdooStores \cup {NoRow}]
      /\ \A s \in StoreIds : s <= lastStore => (s \in Stores' <=> s \in Stores \ Stale(g))
      /\ \A s \in Stores' : s <= lastStore'
      /\ \A s, t \in Stores' : store'[s] = store'[t] => s = t
  BY StoresCommitIs
<1>7. /\ employee \in [EmployeeIds -> OdooEmployees \cup {NoRow}]
      /\ lastStore \in 0 .. MaxStores
      /\ \A s \in Stores : s \in StoreIds /\ s <= lastStore
      /\ member \subseteq Employees \X Stores
      /\ \A e, f \in Employees : employee[e] = employee[f] => e = f
      /\ told \in [EmployeeIds -> SUBSET StoreIds]
      /\ \A e \in EmployeeIds : \A s \in told[e] : s <= lastStore
  BY DEF TablesInv, TablesOK, Stores
<1>8. Stores' \subseteq StoreIds
  BY DEF Stores
<1>9. member' \subseteq Employees \X Stores'
  BY <1>1, <1>6, <1>7
<1>10. \A e \in EmployeeIds : \A s \in told[e] : s <= lastStore'
  <2>1. StoreIds \subseteq Nat /\ MaxStores \in Nat
    BY SyncBounds DEF StoreIds
  <2>2. ASSUME NEW e \in EmployeeIds, NEW s \in told[e]
        PROVE  s <= lastStore'
    <3>1. s \in Nat /\ s <= lastStore
      BY <1>7, <2>1
    <3>2. QED
      BY <1>6, <1>7, <2>1, <3>1
  <2>3. QED
    BY <2>2
<1>11. TablesOK'
  BY <1>1, <1>5, <1>6, <1>7, <1>9, <1>10 DEF TablesOK
<1>12. MembersAsTold'
  <2>1. SUFFICES ASSUME NEW e \in Employees
                 PROVE  {s \in StoreIds : <<e, s>> \in member'} = told[e] \cap Stores'
    BY <1>1, <1>5 DEF MembersAsTold
  <2>2. {s \in StoreIds : <<e, s>> \in member} = told[e] \cap Stores
    BY DEF TablesInv, MembersAsTold
  <2>3. e \in EmployeeIds
    BY DEF Employees
  <2>4. ASSUME NEW s \in StoreIds
        PROVE  <<e, s>> \in member' <=> s \in told[e] /\ s \in Stores'
    <3>1. <<e, s>> \in member' <=> <<e, s>> \in member /\ s \notin Stale(g)
      BY <1>1
    <3>2. <<e, s>> \in member <=> s \in told[e] /\ s \in Stores
      BY <2>2
    <3>3. CASE s <= lastStore
      BY <1>6, <3>1, <3>2, <3>3
    <3>4. CASE ~(s <= lastStore)
      BY <1>7, <2>3, <3>1, <3>2, <3>4
    <3>5. QED
      BY <3>3, <3>4
  <2>5. QED
    BY <1>8, <2>4
<1>13. QED
  BY <1>1, <1>3, <1>4, <1>11, <1>12 DEF TablesInv

(* The process starts, or starts again. *)
LEMMA AllIdle ==
  run = [g \in Callers |-> Idle] => Exclusive(Held) /\ \A g \in Callers : RunIs(run[g])
<1> SUFFICES ASSUME run = [g \in Callers |-> Idle]
             PROVE  Exclusive(Held) /\ \A g \in Callers : RunIs(run[g])
  OBVIOUS
<1>1. \A g \in Callers : run[g] = Idle /\ run[g].locks = {}
  BY DEF Idle
<1>2. QED
  BY <1>1, IdleIs, ExclusiveMeans

LEMMA AllIdleNext ==
  (run = [g \in Callers |-> Idle] => Exclusive(Held) /\ \A g \in Callers : RunIs(run[g]))'
BY AllIdle, PTL

LEMMA InitTables == Init => TablesInv
<1> SUFFICES ASSUME Init PROVE TablesInv
  OBVIOUS
<1> USE DEF Init
<1>1. Exclusive(Held) /\ \A g \in Callers : RunIs(run[g])
  BY AllIdle
<1>2. MaxStores \in Nat /\ MaxRuns \in Nat /\ MaxEdits \in Nat /\ Cardinality(OdooStores) \in Nat
  BY SyncBounds
<1>3. /\ OdooStores = 1 .. Cardinality(OdooStores) /\ OdooStores \subseteq StoreIds
      /\ \A s \in OdooStores : s <= Cardinality(OdooStores)
  BY <1>2, SyncBounds DEF StoreIds
<1>4. EmployeeIds \subseteq OdooEmployees /\ \A e \in EmployeeIds : e # NoRow
  BY SyncBounds, NoRowAssumption
<1>5. \A s \in OdooStores : s # NoRow
  BY NoRowAssumption
<1>6. Employees = EmployeeIds /\ Stores = OdooStores
  BY <1>3, <1>4, <1>5 DEF Employees, Stores
<1>7. lastStore \in 0 .. MaxStores
  BY <1>2, SyncBounds
<1>8. store \in [StoreIds -> OdooStores \cup {NoRow}] /\ \A s \in Stores : store[s] = s /\ s <= lastStore
  BY <1>3, <1>6
<1>9. TablesOK
  BY <1>3, <1>4, <1>6, <1>7, <1>8 DEF TablesOK
<1>10. MembersAsTold
  BY <1>3, <1>6 DEF MembersAsTold
<1>11. started \in 0 .. MaxRuns /\ edits \in 0 .. MaxEdits
  BY <1>2
<1>12. QED
  BY <1>1, <1>9, <1>10, <1>11 DEF TablesInv

LEMMA CrashTables ==
  ASSUME TablesInv, Crash
  PROVE  TablesInv'
<1>1. run' = [g \in Callers |-> Idle] /\ UNCHANGED <<tables, started>>
  BY DEF Crash
<1>2. Exclusive(Held)' /\ \A g \in Callers : RunIs(run[g])'
  BY <1>1, AllIdleNext
<1>3. QED
  BY <1>1, <1>2, TablesSame DEF TablesInv, tables

LEMMA ProgressTables ==
  ASSUME SyncInv, TablesInv, NEW g \in Callers, Progress(g)
  PROVE  TablesInv'
<1>1. CASE CallGoesOn(g)
  BY <1>1, NothingHappens DEF CallGoesOn
<1>2. CASE KeysFail(g)
  BY <1>2, SkipTables DEF KeysFail
<1>3. CASE ListIds(g) \/ NextBatch(g) \/ Fetched(g) \/ FetchFails(g) \/ Upsert(g) \/ Resolve(g)
  BY <1>3, ListIdsTables, NextBatchTables, FetchedTables, FetchFailsTables, UpsertTables,
     ResolveTables
<1>4. CASE NextEmployee(g) \/ InsertMembers(g) \/ CheckKeys(g) \/ MembersCommit(g) \/ Take(g)
  BY <1>4, NextEmployeeTables, InsertMembersTables, CheckKeysTables, MembersCommitTables, TakeTables
<1>5. CASE StoresFetched(g) \/ CascadeStores(g) \/ StoresCommit(g)
  BY <1>5, StoresFetchedTables, CascadeStoresTables, StoresCommitTables
<1>6. QED
  BY <1>1, <1>2, <1>3, <1>4, <1>5 DEF Progress

LEMMA NextTables == SyncInv /\ TablesInv /\ [Next]_vars => TablesInv'
<1>1. SUFFICES ASSUME SyncInv, TablesInv, [Next]_vars PROVE TablesInv'
  OBVIOUS
<1>2. ASSUME NEW g \in Callers,
             SyncEmployees(g) \/ SyncStores(g) \/ Progress(g) \/ Abort(g) \/ DeadlockVictim(g)
      PROVE  TablesInv'
  BY <1>1, <1>2, StartTables, ProgressTables, AbortTables DEF DeadlockVictim
<1>3. ASSUME NEW e \in Edited,
             DeleteEmployee(e) \/ \E odoo \in OdooEmployees : UpdateOdooId(e, odoo)
      PROVE  TablesInv'
  <2>1. e \in EmployeeIds
    BY SyncAssumption DEF EmployeeIds
  <2>2. QED
    BY <1>1, <1>3, <2>1, DeleteEmployeeTables, UpdateOdooIdTables
<1>4. CASE Outside
  BY <1>1, <1>4, NothingHappens DEF Outside
<1>5. CASE UNCHANGED vars
  BY <1>1, <1>5, NothingHappens DEF vars
<1>6. CASE Crash
  BY <1>1, <1>6, CrashTables
<1>7. QED
  BY <1>1, <1>2, <1>3, <1>4, <1>5, <1>6 DEF Next

(* Whatever syncs, commits, fails or dies: the invariant of the tables and  *)
(* of what the transactions have locked and found.                         *)
THEOREM TablesInvariant == Spec => [](SyncInv /\ TablesInv)
<1>1. Init => SyncInv /\ TablesInv
  BY SyncInitInv, InitTables
<1>2. SyncInv /\ TablesInv /\ [Next]_vars => SyncInv' /\ TablesInv'
  BY SyncNextInv, NextTables
<1>3. QED
  BY <1>1, <1>2, PTL DEF Spec

(* Types of the client, the tables and the runs; every membership is of an  *)
(* Employee and a Store that are there, no two of either have one Odoo id, *)
(* no two transactions have conflicting locks: however many goroutines     *)
(* sync, whichever statements fail, whatever admins edit meanwhile.        *)
THEOREM SyncTypeCorrect == Spec => []TypeOK
<1>1. SyncInv => ClientTypeOK
  <2>1. SUFFICES ASSUME SyncInv PROVE ClientTypeOK
    OBVIOUS
  <2>2. /\ Shared(accessToken, fresh, refreshMu, granted, renewed) /\ live \in BOOLEAN
        /\ http = [c \in Callers |-> http[c]]
        /\ \A c \in Callers : CallOK(http[c], c, refreshMu, granted, renewed)
    BY <2>1 DEF SyncInv, ClientInv
  <2>3. http \in [Callers -> HTTPCall]
    BY <2>2 DEF CallOK
  <2>4. \A c \in Callers : http[c].token <= granted /\ (refreshMu = c =>
          http[c].pc \in {"recheck", "grant", "cached"} /\ ~http[c].again)
    BY <2>2 DEF CallOK
  <2>5. QED
    BY <2>2, <2>3, <2>4 DEF ClientTypeOK, Shared
<1>2. SyncInv /\ TablesInv => TypeOK
  <2>1. SUFFICES ASSUME SyncInv, TablesInv PROVE TypeOK
    OBVIOUS
  <2>2. /\ DOMAIN run = Callers /\ guard \in [Kinds -> BOOLEAN]
        /\ \A g \in Callers : http[g].pc # "none" <=> run[g].pc = "fetch"
    BY <2>1 DEF SyncInv, RunsInv
  <2>3. \A g \in Callers : Run(run[g])
    BY <2>1 DEF TablesInv, RunIs
  <2>4. QED
    BY <1>1, <2>1, <2>2, <2>3 DEF TypeOK, TablesInv, TablesOK
<1>3. QED
  BY <1>2, TablesInvariant, PTL

(* An Employee has the memberships that one sync, the last to succeed for   *)
(* it, had for it, but for Stores that are gone: no failure, crash or other *)
(* run leaves a mixture of two.                                            *)
THEOREM MembersToldHold == Spec => []MembersAsTold
<1>1. TablesInv => MembersAsTold
  BY DEF TablesInv
<1>2. QED
  BY <1>1, TablesInvariant, PTL

-----------------------------------------------------------------------------
(* Deadlocks *)

LEMMA LeastNumber ==
  ASSUME NEW T \in SUBSET Nat, T # {}
  PROVE  \E n \in T : \A m \in T : n <= m
<1> DEFINE R == OpToRel(<, Nat)
<1>1. IsWellFoundedOn(R, Nat)
  BY NatLessThanWellFounded
<1>2. \A m, n \in Nat : <<m, n>> \in R <=> m < n
  BY DEF OpToRel
<1> HIDE DEF R
<1>3. PICK n \in T : \A m \in T : <<m, n>> \notin R
  BY <1>1, WFMin
<1>4. \A m \in T : ~(m < n)
  BY <1>2, <1>3
<1>5. QED
  BY <1>4

(* Among the sets of transactions that wait for each other there is a       *)
(* smallest one: whoever is in it is one that Postgres may fail.           *)
LEMMA DeadlocksFound ==
  ASSUME NEW held, NEW want, NEW rs, rs \subseteq DOMAIN held, IsFiniteSet(rs),
         Stuck(held, want, rs)
  PROVE  \E r \in rs : OnCycle(held, want, r)
<1> DEFINE stuck == {ps \in SUBSET rs : Stuck(held, want, ps)}
           sizes == {Cardinality(ps) : ps \in stuck}
<1>1. rs \in stuck
  OBVIOUS
<1>2. \A ps \in stuck : IsFiniteSet(ps) /\ Cardinality(ps) \in Nat
  BY FS_Subset, FS_CardinalityType
<1>3. sizes \in SUBSET Nat /\ sizes # {}
  BY <1>1, <1>2
<1> HIDE DEF sizes
<1>4. PICK n \in sizes : \A m \in sizes : n <= m
  BY <1>3, LeastNumber
<1>5. PICK ps \in stuck : n = Cardinality(ps)
  BY <1>4 DEF sizes
<1>6. \A qs \in SUBSET ps : Stuck(held, want, qs) => qs = ps
  <2>1. SUFFICES ASSUME NEW qs \in SUBSET ps, Stuck(held, want, qs)
                 PROVE  qs = ps
    OBVIOUS
  <2>2. qs \in stuck
    BY <2>1
  <2>3. Cardinality(ps) <= Cardinality(qs)
    BY <1>4, <1>5, <2>2 DEF sizes
  <2>4. Cardinality(qs) <= Cardinality(ps) /\ Cardinality(qs) \in Nat /\ Cardinality(ps) \in Nat
    BY <1>2, <2>2, FS_Subset
  <2>5. Cardinality(qs) = Cardinality(ps)
    BY <2>3, <2>4
  <2>6. QED
    BY <1>2, <2>5, FS_Subset
<1>7. PICK r \in ps : TRUE
  BY DEF Stuck
<1>8. WaitsFor(held, want, r) # {}
  BY <1>7 DEF Stuck
<1>9. ps \in SUBSET DOMAIN held /\ r \in rs
  BY <1>7
<1>10. OnCycle(held, want, r)
  BY <1>6, <1>7, <1>8, <1>9 DEF OnCycle
<1>11. QED
  BY <1>9, <1>10
(* The transaction of g may fail: Abort. *)
MayAbort(g) == run[g].e # 0 \/ (run[g].kind = "stores" /\ run[g].pc \in {"rows", "cascade"})

(* Goroutines that wait for each other, for refreshMu or for rows. *)
WaitTogether(rs) == rs # {} /\ \A g \in rs : WaitsOn(g) \cap rs # {}

DeadlocksAreSeen ==
  \A rs \in SUBSET Callers :
    IsFiniteSet(rs) /\ WaitTogether(rs) => \E g \in rs : OnCycle(Held, Wanted, g) /\ MayAbort(g)

LEMMA RowWaits ==
  ASSUME SyncInv, TablesInv, NEW g \in Callers, WaitsFor(Held, Wanted, g) # {}
  PROVE  MayAbort(g)
<1>1. run[g].want # {}
  BY DEF WaitsFor, Wanted
<1>2. run[g].pc \in InTransaction
  BY <1>1 DEF SyncInv, RunsInv, RunOK
<1>3. Run(run[g]) /\ OnPath(run[g]) /\ Resolved(run[g])
  BY DEF TablesInv, RunIs
<1>4. CASE run[g].pc \in InTurn
  <2>1. run[g].e \in EmployeeIds
    BY <1>3, <1>4 DEF Run, Resolved
  <2>2. run[g].e # 0
    BY <2>1, SyncBounds DEF EmployeeIds
  <2>3. QED
    BY <2>2 DEF MayAbort
<1>5. CASE run[g].pc \in {"rows", "cascade"}
  BY <1>3, <1>5 DEF OnPath, MayAbort
<1>6. QED
  BY <1>2, <1>4, <1>5 DEF InTransaction, InTurn

(* refreshMu, which Postgres does not know of, is in no deadlock: whenever  *)
(* goroutines wait for each other it is for rows, and one of them is in a  *)
(* transaction that Postgres may fail to let the others go on.             *)
THEOREM DeadlocksEnd == Spec => []DeadlocksAreSeen
<1>1. SyncInv => NobodyWaitsInVain
  BY RefreshHolderGoesOn
<1>2. SyncInv /\ TablesInv => DeadlocksAreSeen
  <2>1. SUFFICES ASSUME SyncInv, TablesInv,
                        NEW rs \in SUBSET Callers, IsFiniteSet(rs), WaitTogether(rs)
                 PROVE  \E g \in rs : OnCycle(Held, Wanted, g) /\ MayAbort(g)
    BY DEF DeadlocksAreSeen
  <2>2. ASSUME NEW g \in rs
        PROVE  WaitsOn(g) = WaitsFor(Held, Wanted, g)
    <3>1. SUFFICES ASSUME CallAt(g, "queue") PROVE FALSE
      BY DEF WaitsOn
    <3>2. refreshMu \in rs /\ refreshMu \in WaitsOn(g)
      BY <2>1, <3>1 DEF WaitTogether, WaitsOn
    <3>3. WaitsOn(refreshMu) = {}
      BY <1>1, <2>1, <3>2 DEF NobodyWaitsInVain
    <3>4. QED
      BY <2>1, <3>2, <3>3 DEF WaitTogether
  <2>3. Stuck(Held, Wanted, rs)
    BY <2>1, <2>2 DEF Stuck, WaitTogether
  <2>4. DOMAIN Held = Callers
    BY DEF Held
  <2>5. PICK g \in rs : OnCycle(Held, Wanted, g)
    BY <2>1, <2>3, <2>4, DeadlocksFound
  <2>6. MayAbort(g)
    BY <2>1, <2>5, RowWaits DEF OnCycle
  <2>7. QED
    BY <2>5, <2>6
<1>3. QED
  BY <1>2, TablesInvariant, PTL

=============================================================================
