----------------------------- MODULE MCTestProxy -----------------------------
(* Values for the constants of the run of TestProxy. *)
EXTENDS TestProxy, TLC

CONSTANT a   \* an app

(* The last message of the gateway has a type without a struct. *)
Scripts ==
  [up |-> << "StartSessionRequest", "CnRmiRequest" >>,
   down |-> << "StartSessionConfirm", "CnRmiResponse", "NoOperation" >>]
=============================================================================
