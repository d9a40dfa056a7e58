----------------------------- MODULE MCRateLimit -----------------------------
(* RateLimit on small instances. *)
EXTENDS RateLimit

CONSTANTS m1, m2, ip1, ip2, r1, r2, r3

(* Requests are served in less time than the window lasts (60 seconds,     *)
(* middleware.Timeout in cmd/api.go, and 15 minutes), rows are cleaned up  *)
(* late.                                                                   *)
ServedInTime ==
  \A r \in Requests : ~At(r, "free") => now - (req[r].since + Window) < Window

=============================================================================
