------------------------------- MODULE MCProxy -------------------------------
(* Values for the constants of the runs of Proxy. *)
EXTENDS ProxySafety, TLC

CONSTANTS a, b   \* apps

ConnSymmetry == Permutations(Conns)

(* What an app may send, message by message *)
RegisterOrRequest == << {"RegisterAppRequest", "CnRmiRequest"} >>

RequestOnly == << {"CnRmiRequest"} >>

RegisterOnly == << {"RegisterAppRequest"} >>

RequestTwice == << {"RegisterAppRequest", "CnRmiRequest"}, {"CnRmiRequest"} >>

RegisterThenAny ==
  << {"RegisterAppRequest"}, {"StartSessionRequest", "CnRmiRequest"},
     {"CnRmiRequest", "CloseSessionRequest"} >>
=============================================================================
