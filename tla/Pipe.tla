-------------------------------- MODULE Pipe --------------------------------
(***************************************************************************)
(* What a proxy promises of each direction of each connection: the         *)
(* receiver sees a prefix of what the sender wrote, and while the two are  *)
(* connected it sees all of it in the end.                                 *)
(***************************************************************************)
EXTENDS Naturals, Sequences

CONSTANTS
  Pipes,     \* the directions of the connections
  Payloads   \* what may be written

VARIABLES
  sent,       \* what was written at one end of each pipe
  delivered,  \* what has come out of the other
  open        \* the pipes whose both ends are still there

vars == <<sent, delivered, open>>

Init ==
  /\ sent = [p \in Pipes |-> <<>>]
  /\ delivered = [p \in Pipes |-> <<>>]
  /\ open \subseteq Pipes

Send(p) ==
  /\ \E m \in Payloads : sent' = [sent EXCEPT ![p] = Append(@, m)]
  /\ UNCHANGED <<delivered, open>>

(* What was written may still arrive when an end has gone. *)
Deliver(p) ==
  /\ Len(delivered[p]) < Len(sent[p])
  /\ delivered' = [delivered EXCEPT ![p] = Append(@, sent[p][Len(@) + 1])]
  /\ UNCHANGED <<sent, open>>

(* Connections come and go, several at once when the process ends. *)
Connect ==
  /\ open' \subseteq Pipes
  /\ open' # open
  /\ UNCHANGED <<sent, delivered>>

Next == Connect \/ \E p \in Pipes : Send(p) \/ Deliver(p)

Spec == Init /\ [][Next]_vars

LiveSpec == Spec /\ \A p \in Pipes : WF_vars(p \in open /\ Deliver(p))
=============================================================================
