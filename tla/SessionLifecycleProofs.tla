----------------------- MODULE SessionLifecycleProofs -----------------------
(* What the abstract life of Sessions means for a device that holds a      *)
(* token; module AuthProofs shows that the service has it.                 *)
EXTENDS SessionLifecycle, TLAPS

LifecycleInv == TypeOK /\ TokensAreUnique

LEMMA LifecycleInvStep ==
  ASSUME LifecycleInv, [Next]_vars
  PROVE  LifecycleInv'
<1> issued \in Nat /\ open \in [Employees -> 0 .. issued]
  BY DEF LifecycleInv, TypeOK
<1>1. ASSUME NEW e \in Employees, Open(e)
      PROVE  LifecycleInv'
  <2>1. TypeOK'
    BY <1>1 DEF Open, TypeOK
  <2>2. \A f \in Employees : open[f] # issued + 1
    OBVIOUS
  <2>3. TokensAreUnique'
    BY <1>1, <2>2 DEF Open, LifecycleInv, TokensAreUnique
  <2>4. QED
    BY <2>1, <2>3 DEF LifecycleInv
<1>2. ASSUME NEW e \in Employees, End(e)
      PROVE  LifecycleInv'
  BY <1>2 DEF End, LifecycleInv, TypeOK, TokensAreUnique
<1>3. CASE UNCHANGED vars
  BY <1>3 DEF vars, LifecycleInv, TypeOK, TokensAreUnique
<1>4. QED
  BY <1>1, <1>2, <1>3 DEF Next

LEMMA LifecycleInvHolds == Spec => []LifecycleInv
<1>1. Init => LifecycleInv
  BY DEF Init, LifecycleInv, TypeOK, TokensAreUnique
<1>2. QED
  BY <1>1, LifecycleInvStep, PTL DEF Spec

(* No token is the Session of two Employees. *)
THEOREM LifecycleTokensUnique == Spec => []TokensAreUnique
BY LifecycleInvHolds, PTL DEF LifecycleInv

(* A token whose Session ended is never again the Session of anyone. *)
THEOREM LifecycleClosedForever == Spec => ClosedForever
<1>1. LifecycleInv /\ [Next]_vars =>
        [\A t \in 1 .. issued :
           (\A e \in Employees : open[e] # t) => (\A e \in Employees : open'[e] # t)]_vars
  <2> SUFFICES ASSUME LifecycleInv, Next, NEW t \in 1 .. issued,
                      \A e \in Employees : open[e] # t,
                      NEW e \in Employees
               PROVE  open'[e] # t
    OBVIOUS
  <2>1. issued \in Nat /\ open \in [Employees -> 0 .. issued] /\ t # 0 /\ t # issued + 1
    BY DEF LifecycleInv, TypeOK
  <2>2. QED
    BY <2>1 DEF Next, Open, End
<1>2. QED
  BY <1>1, LifecycleInvHolds, PTL DEF Spec, ClosedForever
=============================================================================
