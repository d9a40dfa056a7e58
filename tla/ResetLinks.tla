----------------------------- MODULE ResetLinks -----------------------------
(***************************************************************************)
(* What the activation and password-reset links promise: an Employee has   *)
(* at most one live link, a new one supersedes it, and a password is set   *)
(* through the live link only, which spends it (ADR-0016, "single active   *)
(* reset token per Employee").                                             *)
(*                                                                         *)
(* Links are numbered in the order they are issued.                        *)
(***************************************************************************)
EXTENDS Integers

CONSTANT Employees

VARIABLES
  last,    \* how many links have been issued
  live,    \* the live link of each Employee, 0 for none
  spent    \* the links through which a password was set

vars == <<last, live, spent>>

Init ==
  /\ last = 0
  /\ live = [e \in Employees |-> 0]
  /\ spent = {}

Issue(e) ==
  /\ last' = last + 1
  /\ live' = [live EXCEPT ![e] = last + 1]
  /\ UNCHANGED spent

Spend(e) ==
  /\ live[e] # 0
  /\ spent' = spent \cup {live[e]}
  /\ live' = [live EXCEPT ![e] = 0]
  /\ UNCHANGED last

(* The Employee is deleted. *)
Drop(e) ==
  /\ live' = [live EXCEPT ![e] = 0]
  /\ UNCHANGED <<last, spent>>

Next == \E e \in Employees : Issue(e) \/ Spend(e) \/ Drop(e)

Spec == Init /\ [][Next]_vars

=============================================================================
