---------------------------- MODULE MCPortLeases ----------------------------
(***************************************************************************)
(* Model values for checking PortLeases with TLC: two tunnels, each with   *)
(* an entry group of its own.                                              *)
(***************************************************************************)
EXTENDS PortLeases, TLC

CONSTANTS r1, r2, t1, t2, g1, g2, h1, h2
OwnGroup == [t \in {t1, t2} |-> IF t = t1 THEN g1 ELSE g2]
TcpOrBoth == {{"tcp"}, {"tcp", "udp"}}

\* A tunnel changes places with the other together with its entry group.
Swap == [x \in {t1, t2, g1, g2} |-> CASE x = t1 -> t2 [] x = t2 -> t1
                                      [] x = g1 -> g2 [] x = g2 -> g1]
Interchangeable ==
  Permutations({r1, r2}) \cup Permutations({h1, h2}) \cup {Swap}
=============================================================================
