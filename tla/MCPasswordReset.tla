--------------------------- MODULE MCPasswordReset ---------------------------
(* PasswordReset on small instances. *)
EXTENDS PasswordReset

CONSTANTS e1, r1, r2, r3

=============================================================================
