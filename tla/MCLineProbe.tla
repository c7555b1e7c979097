----------------------------- MODULE MCLineProbe -----------------------------
(***************************************************************************)
(* Model values for checking LineProbe with TLC: two nodes between which   *)
(* the probe moves.                                                        *)
(***************************************************************************)
EXTENDS LineProbe

CONSTANTS n1, n2
=============================================================================
