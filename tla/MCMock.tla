------------------------------- MODULE MCMock -------------------------------
(* Values for the constants of the run of MockMain. *)
EXTENDS MockMain, TLC

CONSTANTS a,      \* an app
          s, t    \* seekers

(* A request without a response type, then one that has three answers,     *)
(* then a message of the type that has no struct.                          *)
Scripts == a :> << "KeepAlive", "StartSessionRequest", "NoOperation" >>
=============================================================================
