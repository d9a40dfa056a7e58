------------------------------ MODULE Presence ------------------------------
(***************************************************************************)
(* The presence check that Login and Heartbeat share: matchStore of        *)
(* internal/auth/service.go.  It makes up to three passes over the         *)
(* candidate Stores, which the query orders by store id: the Wifi          *)
(* Whitelist's IP entries, then the Geofence, then the Wifi Whitelist's    *)
(* MAC entries.  The first hit of the first pass that has one wins.        *)
(*                                                                         *)
(* Login calls it with every Store of the Employee, Heartbeat with the one *)
(* Store of the Session.  One behaviour of this module is one call.        *)
(***************************************************************************)
EXTENDS Integers, Sequences

CONSTANTS
  IP,              \* IP addresses
  MAC,             \* BSSIDs
  Place,           \* positions on the map (a latitude and a longitude)
  Radius,          \* Geofence radii, in meters
  Unset,           \* SQL NULL, and Go's nil MAC
  Distance(_, _),  \* haversineMeters between two positions
  CandidateLists   \* the candidate lists a call may be made with

StoreRow ==
  [id      : Nat,
   enabled : BOOLEAN,               \* wifi_whitelist_enabled
   ips     : SUBSET IP,
   macs    : SUBSET MAC,
   place   : Place \cup {Unset},    \* latitude and longitude, both or neither
   radius  : Radius \cup {Unset}]   \* radius_meters

(* What a request tells about the device: the address it came from, the    *)
(* position it reports and the BSSID it reports, if any.                   *)
Device == [ip : IP, place : Place, mac : MAC \cup {Unset}]

(* ListStoresForLoginByEmployeeID orders by id, and an Employee belongs to *)
(* a Store at most once.                                                   *)
OrderedById(list) ==
  \A a, b \in DOMAIN list : a < b => list[a].id < list[b].id

ASSUME CandidatesAssumption ==
  \A list \in CandidateLists : list \in Seq(StoreRow) /\ OrderedById(list)
ASSUME RadiusAssumption ==
  /\ Radius \subseteq Nat
  /\ Unset \notin IP \cup MAC \cup Place \cup Radius
ASSUME DistanceAssumption == \A p, q \in Place : Distance(p, q) \in Nat

-----------------------------------------------------------------------------
(* One candidate against one tier. *)

IPMatches(s, d) == s.enabled /\ d.ip \in s.ips

GeofenceMatches(s, d) ==
  /\ s.place # Unset
  /\ s.radius # Unset
  /\ Distance(d.place, s.place) <= s.radius

MACMatches(s, d) == s.enabled /\ d.mac \in s.macs

Tiers == 1 .. 3
Returned == 4     \* the value of tier once the call has returned

Matches(t, s, d) ==
  \/ t = 1 /\ IPMatches(s, d)
  \/ t = 2 /\ GeofenceMatches(s, d)
  \/ t = 3 /\ MACMatches(s, d)

-----------------------------------------------------------------------------
VARIABLES
  candidates,   \* the list the caller passed
  device,       \* what the request said about the device
  tier,         \* the pass the call is in, or Returned
  i,            \* the candidate the pass looks at next
  found         \* the index of the Store returned, 0 for none

vars == <<candidates, device, tier, i, found>>

(* Types; the scan never looks past the end of the list of candidates. *)
TypeOK ==
  /\ candidates \in CandidateLists
  /\ device \in Device
  /\ tier \in Tiers \cup {Returned}
  /\ i \in 1 .. Len(candidates) + 1
  /\ found \in 0 .. Len(candidates)

Init ==
  /\ candidates \in CandidateLists
  /\ device \in Device
  /\ tier = 1
  /\ i = 1
  /\ found = 0

(* The pass looks at candidate i: return it, or go on to the next one. *)
Hit ==
  /\ tier \in Tiers
  /\ i <= Len(candidates)
  /\ Matches(tier, candidates[i], device)
  /\ found' = i
  /\ tier' = Returned
  /\ UNCHANGED <<candidates, device, i>>

(* Mutated: a second advance, as after a stray increment before continue. *)
MissSkips ==
  /\ tier \in Tiers
  /\ i <= Len(candidates)
  /\ ~Matches(tier, candidates[i], device)
  /\ i' = i + 2
  /\ UNCHANGED <<candidates, device, tier, found>>

Miss ==
  /\ tier \in Tiers
  /\ i <= Len(candidates)
  /\ ~Matches(tier, candidates[i], device)
  /\ i' = i + 1
  /\ UNCHANGED <<candidates, device, tier, found>>

(* The MAC pass is only made for a device that sent a BSSID. *)
NextTier(t) == IF t = 1 \/ (t = 2 /\ device.mac # Unset) THEN t + 1 ELSE Returned

(* Mutated: the loop variable of one pass carried into the next one. *)
EndPassKeepsIndex ==
  /\ tier \in Tiers
  /\ i > Len(candidates)
  /\ tier' = NextTier(tier)
  /\ UNCHANGED <<candidates, device, i, found>>

(* The pass has seen every candidate: the next one starts over.  After the *)
(* last pass the call returns no Store.                                    *)
EndPass ==
  /\ tier \in Tiers
  /\ i > Len(candidates)
  /\ tier' = NextTier(tier)
  /\ i' = 1
  /\ UNCHANGED <<candidates, device, found>>

(* The call is over. *)
Done == tier = Returned /\ UNCHANGED vars

Next == Hit \/ Miss \/ EndPass \/ Done

Spec == Init /\ [][Next]_vars

-----------------------------------------------------------------------------
(* The reference: all pairs of a tier and a candidate that match, and the  *)
(* least of them in lexicographic order.                                   *)

MatchingPairs ==
  {p \in Tiers \X DOMAIN candidates : Matches(p[1], candidates[p[2]], device)}

Before(p, q) == p[1] < q[1] \/ (p[1] = q[1] /\ p[2] <= q[2])

(* matchStore returns the Store of the lexicographically least matching    *)
(* pair - the most trusted tier first, the least store id within it - and  *)
(* returns nothing only if no tier of any candidate matches ("trust-       *)
(* ordered, not request-ordered", the comment above matchStore).  The      *)
(* skipped MAC pass and the wifi_whitelist_enabled test inside two of the  *)
(* loops must not lose a match or invent one.  CONTEXT.md (Login) and      *)
(* ADR-0013 have another order, Store by Store: of two Stores, the first   *)
(* of which matches by its Geofence and the second by IP, they promise the *)
(* first, and the code returns the second.                                 *)
MostTrustedMatchWins ==
  tier = Returned =>
    IF found = 0
      THEN MatchingPairs = {}
      ELSE \E p \in MatchingPairs :
             p[2] = found /\ \A q \in MatchingPairs : Before(p, q)

(* The inductive invariant: while the call runs nothing has been found, and *)
(* no pair that lies behind the scan matches.                              *)
Behind(t, j) == t < tier \/ (t = tier /\ j < i)

NothingOverlooked ==
  tier \in Tiers =>
    /\ found = 0
    /\ \A t \in Tiers, j \in DOMAIN candidates :
         Behind(t, j) => ~Matches(t, candidates[j], device)

ScanInv == TypeOK /\ NothingOverlooked /\ MostTrustedMatchWins

=============================================================================
