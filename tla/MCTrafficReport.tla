--------------------------- MODULE MCTrafficReport ---------------------------
(***************************************************************************)
(* Model values for checking TrafficReport with TLC.                       *)
(***************************************************************************)
EXTENDS TrafficReport

CONSTANTS r1, r2
OneRule == {r1}
TwoRules == {r1, r2}
=============================================================================
