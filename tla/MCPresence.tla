----------------------------- MODULE MCPresence -----------------------------
(* Presence on lists of at most two Stores, positions on a line. *)
EXTENDS Presence

CONSTANTS ip1, ip2, mac1, unset

MCIP == {ip1, ip2}
MCMAC == {mac1}
MCPlace == {0, 1, 2}
MCRadius == {1}
MCUnset == unset
LineDistance(p, q) == IF p < q THEN q - p ELSE p - q

(* The Wifi Whitelist holds ip1 and mac1 or not; ip2 is an address that no *)
(* Store lists.                                                            *)
Rows(id) ==
  {r \in [id : {id}, enabled : BOOLEAN, ips : SUBSET {ip1}, macs : SUBSET MCMAC,
          place : {0, 2, unset}, radius : {1, unset}] :
     r.place = unset <=> r.radius = unset}

MCCandidateLists ==
  {<<>>} \cup {<<r>> : r \in Rows(1)} \cup {<<r, s>> : r \in Rows(1), s \in Rows(2)}

=============================================================================
