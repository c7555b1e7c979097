------------------------------ MODULE MCDpiFlow ------------------------------
(***************************************************************************)
(* Model values for checking DpiFlow with TLC: a policy that lets doubtful *)
(* traffic pass with a table for two connections; the same with a sidecar  *)
(* that is more patient than the agent and has room for one; one that      *)
(* blocks the unknown and alerts in doubt with a table too small for two   *)
(* and a sidecar that decides at once; and one that asks no sidecar.       *)
(***************************************************************************)
EXTENDS DpiFlow

Gaming == [asks |-> TRUE, unknown |-> "pass", low |-> "keep", maxFlows |-> 2, maxPackets |-> 2]
Patient == [Gaming EXCEPT !.maxFlows = 1, !.maxPackets = 3]
Strict == [asks |-> TRUE, unknown |-> "block", low |-> "pass", maxFlows |-> 1, maxPackets |-> 1]
Alone == [Gaming EXCEPT !.asks = FALSE]
SetupsOf == {Gaming, Patient, Strict, Alone}
=============================================================================
