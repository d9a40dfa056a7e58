-------------------------- MODULE SessionLifecycle --------------------------
(***************************************************************************)
(* What the Sessions of the system promise, whatever the order in which    *)
(* requests are served: an Employee has at most one Session; each Login    *)
(* opens one under a token that was never used before and supersedes the   *)
(* one that was open; a Session that ended is never open again, under any  *)
(* Employee (ADR-0014, "One active Session per Employee").                 *)
(*                                                                         *)
(* Tokens are numbered in the order they are handed out.                   *)
(***************************************************************************)
EXTENDS Integers

CONSTANT Employees

VARIABLES
  issued,   \* how many tokens have been handed out
  open      \* the token of each Employee's Session, 0 for none

vars == <<issued, open>>

(* Types; 0 stands for no Session, a Session has a token that was issued. *)
TypeOK ==
  /\ issued \in Nat
  /\ open \in [Employees -> 0 .. issued]

Init ==
  /\ issued = 0
  /\ open = [e \in Employees |-> 0]

(* A Login: the new Session takes the place of the one that was open. *)
Open(e) ==
  /\ issued' = issued + 1
  /\ open' = [open EXCEPT ![e] = issued + 1]

(* Logout, a Heartbeat, a password reset or the Employee's deletion. *)
End(e) ==
  /\ open[e] # 0
  /\ open' = [open EXCEPT ![e] = 0]
  /\ UNCHANGED issued

Next == \E e \in Employees : Open(e) \/ End(e)

Spec == Init /\ [][Next]_vars

-----------------------------------------------------------------------------
(* No token opens the Sessions of two Employees. *)
TokensAreUnique ==
  \A e, f \in Employees : open[e] = open[f] /\ open[e] # 0 => e = f

(* The token of a Session that is not open, and was handed out, stays      *)
(* closed: a device that lost its Session never gets it back.              *)
ClosedForever ==
  [][\A t \in 1 .. issued :
       (\A e \in Employees : open[e] # t) => (\A e \in Employees : open'[e] # t)]_vars

=============================================================================
