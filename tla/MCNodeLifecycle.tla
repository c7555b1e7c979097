--------------------------- MODULE MCNodeLifecycle ---------------------------
(***************************************************************************)
(* Model values for checking NodeLifecycle with TLC: a current and a       *)
(* legacy agent.                                                           *)
(***************************************************************************)
EXTENDS NodeLifecycle, TLC

CONSTANTS m1, m2, t1, s1, s2
=============================================================================
