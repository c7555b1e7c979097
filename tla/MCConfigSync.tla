---------------------------- MODULE MCConfigSync ----------------------------
(***************************************************************************)
(* Model values and bounds for checking ConfigSync with TLC.               *)
(***************************************************************************)
EXTENDS ConfigSync

\* The agent's clock in step with the API's, or ahead of it by a whole lease.
InStep == {0}
InStepOrAhead == {0, LeaseTicks}
=============================================================================
