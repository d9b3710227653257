----------------------------- MODULE MCAppClient -----------------------------
(* The runs of AppClient: its constants are numbers and sets of strings.   *)
EXTENDS AppClient
=============================================================================
