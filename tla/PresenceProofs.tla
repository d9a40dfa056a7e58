--------------------------- MODULE PresenceProofs ---------------------------
(* For every list of candidates, every device and every metric, the three  *)
(* passes of matchStore return the most trusted match.                     *)
EXTENDS Presence, TLAPS

LEMMA CandidatesAreStoreRows ==
  ASSUME TypeOK
  PROVE  /\ candidates \in Seq(StoreRow)
         /\ Len(candidates) \in Nat
         /\ DOMAIN candidates = 1 .. Len(candidates)
         /\ \A j \in DOMAIN candidates : candidates[j] \in StoreRow
BY CandidatesAssumption DEF TypeOK

(* The MAC pass that matchStore skips for a nil MAC would find nothing. *)
LEMMA NoMACNoMatch ==
  ASSUME TypeOK, device.mac = Unset, NEW j \in DOMAIN candidates
  PROVE  ~Matches(3, candidates[j], device)
<1>1. candidates[j].macs \subseteq MAC
  BY CandidatesAreStoreRows DEF StoreRow
<1>2. Unset \notin MAC
  BY RadiusAssumption
<1>3. QED
  BY <1>1, <1>2 DEF Matches, MACMatches

(* When the call returns a Store, everything before it has been looked at. *)
LEMMA HitIsLeast ==
  ASSUME TypeOK, NothingOverlooked, Hit
  PROVE  MostTrustedMatchWins'
<1>1. /\ tier \in Tiers /\ i \in DOMAIN candidates
      /\ candidates' = candidates /\ device' = device
      /\ found' = i /\ found' # 0
      /\ Matches(tier, candidates[i], device)
  BY CandidatesAreStoreRows DEF Hit, TypeOK
<1>2. MatchingPairs' = MatchingPairs
  BY <1>1 DEF MatchingPairs, Matches, IPMatches, GeofenceMatches, MACMatches
<1>3. <<tier, i>> \in MatchingPairs
  BY <1>1 DEF MatchingPairs
<1>4. ASSUME NEW q \in MatchingPairs
      PROVE  Before(<<tier, i>>, q)
  <2>1. /\ q[1] \in Tiers /\ q[2] \in DOMAIN candidates
        /\ Matches(q[1], candidates[q[2]], device)
    BY DEF MatchingPairs
  <2>2. ~Behind(q[1], q[2])
    BY <1>1, <2>1 DEF NothingOverlooked
  <2>3. q[1] \in Int /\ q[2] \in Int /\ tier \in Int /\ i \in Int
    BY <1>1, <2>1, CandidatesAreStoreRows DEF Tiers
  <2>4. QED
    BY <2>2, <2>3 DEF Before, Behind
<1>5. QED
  BY <1>1, <1>2, <1>3, <1>4 DEF MostTrustedMatchWins

(* When the call returns nothing, every pair has been looked at. *)
LEMMA EndPassOverlooksNothing ==
  ASSUME TypeOK, NothingOverlooked, EndPass
  PROVE  NothingOverlooked' /\ MostTrustedMatchWins'
<1>1. /\ tier \in Tiers /\ i > Len(candidates)
      /\ candidates' = candidates /\ device' = device /\ found' = found
      /\ tier' = NextTier(tier) /\ i' = 1
      /\ found = 0
      /\ i \in Int /\ Len(candidates) \in Nat
  BY CandidatesAreStoreRows DEF EndPass, TypeOK, NothingOverlooked
<1>2. ASSUME NEW t \in Tiers, NEW j \in DOMAIN candidates, t < tier'
      PROVE  ~Matches(t, candidates[j], device)
  <2>1. j \in Int /\ j < i
    BY <1>1, CandidatesAreStoreRows
  <2>2. CASE t <= tier
    <3>1. Behind(t, j)
      BY <1>1, <2>1, <2>2 DEF Behind, Tiers
    <3>2. QED
      BY <1>1, <3>1 DEF NothingOverlooked
  <2>3. CASE ~(t <= tier)
    <3>1. t = 3 /\ device.mac = Unset
      BY <1>1, <1>2, <2>3 DEF NextTier, Tiers, Returned
    <3>2. QED
      BY <3>1, NoMACNoMatch
  <2>4. QED
    BY <2>2, <2>3
<1>3. NothingOverlooked'
  <2>1. SUFFICES ASSUME tier' \in Tiers,
                        NEW t \in Tiers, NEW j \in DOMAIN candidates, Behind(t, j)'
                 PROVE  ~Matches(t, candidates[j], device)
    BY <1>1 DEF NothingOverlooked, Matches, IPMatches, GeofenceMatches, MACMatches
  <2>2. t < tier'
    BY <1>1, <2>1, CandidatesAreStoreRows DEF Behind
  <2>3. QED
    BY <1>2, <2>2
<1>4. MostTrustedMatchWins'
  <2>1. SUFFICES ASSUME tier' = Returned
                 PROVE  MatchingPairs' = {}
    BY <1>1 DEF MostTrustedMatchWins
  <2>2. ASSUME NEW t \in Tiers, NEW j \in DOMAIN candidates
        PROVE  ~Matches(t, candidates[j], device)
    BY <1>2, <2>1 DEF Tiers, Returned
  <2>3. QED
    BY <1>1, <2>2 DEF MatchingPairs, Matches, IPMatches, GeofenceMatches, MACMatches
<1>5. QED
  BY <1>3, <1>4

LEMMA InitScanInv == Init => ScanInv
<1> SUFFICES ASSUME Init
             PROVE  ScanInv
  OBVIOUS
<1>2. Len(candidates) \in Nat
  BY CandidatesAssumption DEF Init
<1>3. TypeOK
  BY <1>2 DEF Init, TypeOK, Tiers
<1>4. NothingOverlooked
  BY <1>3, CandidatesAreStoreRows DEF Init, NothingOverlooked, Behind, Tiers
<1>5. MostTrustedMatchWins
  BY DEF Init, MostTrustedMatchWins, Returned
<1>6. QED
  BY <1>3, <1>4, <1>5 DEF ScanInv

LEMMA StepTypeOK ==
  ASSUME TypeOK, [Next]_vars
  PROVE  TypeOK'
<1>1. Len(candidates) \in Nat
  BY CandidatesAreStoreRows
<1>2. CASE Hit
  BY <1>1, <1>2 DEF Hit, TypeOK, Tiers, Returned
<1>3. CASE Miss
  BY <1>1, <1>3 DEF Miss, TypeOK
<1>4. CASE EndPass
  BY <1>1, <1>4 DEF EndPass, TypeOK, NextTier, Tiers, Returned
<1>5. CASE Done \/ UNCHANGED vars
  BY <1>5 DEF Done, vars, TypeOK
<1>6. QED
  BY <1>2, <1>3, <1>4, <1>5 DEF Next

LEMMA StepScanInv ==
  ASSUME ScanInv, [Next]_vars
  PROVE  ScanInv'
<1>1. TypeOK'
  BY StepTypeOK DEF ScanInv
<1>2. NothingOverlooked' /\ MostTrustedMatchWins'
  <2>1. CASE Hit
    <3>1. NothingOverlooked'
      BY <2>1 DEF Hit, NothingOverlooked, Tiers, Returned
    <3>2. QED
      BY <2>1, <3>1, HitIsLeast DEF ScanInv
  <2>2. CASE Miss
    <3>1. /\ tier \in Tiers /\ i \in Int /\ i' = i + 1
          /\ ~Matches(tier, candidates[i], device)
          /\ UNCHANGED <<candidates, device, tier, found>>
      BY <2>2 DEF Miss, ScanInv, TypeOK
    <3>2. \A j \in DOMAIN candidates : j \in Int
      BY CandidatesAreStoreRows DEF ScanInv
    <3>3. \A t \in Tiers, j \in DOMAIN candidates :
            Behind(t, j)' => Behind(t, j) \/ (t = tier /\ j = i)
      BY <3>1, <3>2 DEF Behind
    <3>4. NothingOverlooked'
      BY <3>1, <3>3 DEF ScanInv, NothingOverlooked, Matches, IPMatches,
                        GeofenceMatches, MACMatches
    <3>5. MostTrustedMatchWins'
      BY <3>1 DEF MostTrustedMatchWins, Tiers, Returned
    <3>6. QED
      BY <3>4, <3>5
  <2>3. CASE EndPass
    BY <2>3, EndPassOverlooksNothing DEF ScanInv
  <2>4. CASE Done \/ UNCHANGED vars
    BY <2>4 DEF Done, vars, ScanInv, NothingOverlooked, MostTrustedMatchWins, Behind,
                MatchingPairs, Before, Matches, IPMatches, GeofenceMatches, MACMatches
  <2>5. QED
    BY <2>1, <2>2, <2>3, <2>4 DEF Next
<1>3. QED
  BY <1>1, <1>2 DEF ScanInv

(* The variables of a call keep their types. *)
THEOREM PresenceTypeCorrect == Spec => []TypeOK
<1>1. ScanInv => TypeOK
  BY DEF ScanInv
<1>2. QED
  BY <1>1, InitScanInv, StepScanInv, PTL DEF Spec

(* matchStore returns the lexicographically least pair of tier and store   *)
(* id that matches, and no Store only if there is none.                    *)
THEOREM MatchStoreIsTrustOrdered == Spec => []MostTrustedMatchWins
<1>1. ScanInv => MostTrustedMatchWins
  BY DEF ScanInv
<1>2. QED
  BY <1>1, InitScanInv, StepScanInv, PTL DEF Spec

=============================================================================
