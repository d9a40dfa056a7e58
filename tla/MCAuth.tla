------------------------------- MODULE MCAuth -------------------------------
(* Auth on small instances, each aimed at one part of its state. *)
EXTENDS Auth, TLC

CONSTANTS e1, e2, s1, s2, r1, r2, r3

(* Requests are interchangeable. *)
RequestSymmetry == Permutations(Requests)

(* Of accounts that are active and have no failed attempt: what bars       *)
(* Logins changes no Session.                                              *)
AccountsInOrder == \A e \in Employees : isActive[e] /\ failed[e] = 0

(* Two requests over Sessions, after at most one completed reset of a      *)
(* password that was set, which comes early, and no wrong password; of an  *)
(* Employee of every Store, as a Login may match none in any case.         *)
TwoRequestsOverSessions ==
  /\ AccountsInOrder
  /\ \A r \in Requests : req[r].pc \notin {"fail", "record"}
  /\ \E r \in Requests : req[r] = Idle
  /\ \A e \in Employees : password[e] <= 1 \/ (resetTo[e] = 2 /\ now <= 1)
  /\ \A e \in employees : memberOf[e] = stores

(* Three requests that only try passwords: of Employees who are not        *)
(* Admins, when there are no Stores, so that nobody gets in.               *)
ThreeRequestsOverPasswords ==
  /\ stores = {}
  /\ issued = 0
  /\ now <= 2
  /\ \A e \in Employees : ~isAdmin[e]

(* The run explores no further than these two. *)
SessionsOrPasswords == TwoRequestsOverSessions \/ ThreeRequestsOverPasswords

=============================================================================
