----------------------------- MODULE MCDumbProxy -----------------------------
(* Values for the constants of the run of DumbProxy. *)
EXTENDS DumbProxy, TLC

CONSTANT a   \* an app

Of(ppid, type, value) ==
  [kind |-> "CnRpdoNotification", ppid |-> ppid, data |-> Measured(type, value), value |-> value]

Short(ppid) == [kind |-> "CnRpdoNotification", ppid |-> ppid, data |-> <<>>, value |-> 0]

Asks(complete) == [kind |-> "CnRpdoRequest", complete |-> complete]

(* A speed of two bytes, then a temperature below zero, then bytes that    *)
(* are missing; a subscription without type and zone.                      *)
Measurements ==
  [up |-> << Asks(FALSE) >>,
   down |-> << Of(121, 2, 1730), Of(275, 6, -15), Short(121) >>]

ASSUME UnitMeasures
=============================================================================
