------------------------------ MODULE Discovery ------------------------------
(***************************************************************************)
(* The search for a gateway over UDP:                                      *)
(* pkg/comfoconnect/broadcastListener.go and DiscoverGateway of            *)
(* session.go.                                                             *)
(*                                                                         *)
(* A seeker sends one datagram and waits for one, without a deadline.  Run *)
(* of the listener starts a goroutine for every datagram it reads, which   *)
(* answers with CreateSearchGatewayResponse.  Stop closes the socket, then *)
(* the channel quit, and waits for the channel exited; who calls it is     *)
(* left to the module that composes this one.                              *)
(***************************************************************************)
EXTENDS Integers, Sequences

CONSTANTS
  Seekers,   \* the calls of DiscoverGateway, each with a socket of its own
  Lossy      \* does the network lose datagrams?

ASSUME DiscoveryAssumption == Lossy \in BOOLEAN

VARIABLES
  brun,        \* Run of the listener: select, read, wait, exited
  socket,      \* of the listener: open, closed
  bquit,       \* TRUE once the channel quit is closed
  inbox,       \* the searches in the socket's buffer, by seeker
  answering,   \* the seekers that a goroutine is about to answer
  seek,        \* DiscoverGateway: idle, asked, found, refused
  lost         \* the searches that will get no answer, for the properties

listenerVars == <<brun, socket, bquit, inbox, answering>>
discoveryVars == <<listenerVars, seek, lost>>

DiscoveryTypeOK ==
  /\ brun \in {"select", "read", "wait", "exited"}
  /\ socket \in {"open", "closed"}
  /\ bquit \in BOOLEAN
  /\ inbox \in Seq(Seekers)
  /\ answering \subseteq Seekers
  /\ seek \in [Seekers -> {"idle", "asked", "found", "refused"}]
  /\ lost \subseteq Seekers

DiscoveryInit ==
  /\ brun = "select"
  /\ socket = "open"
  /\ bquit = FALSE
  /\ inbox = <<>>
  /\ answering = {}
  /\ seek = [s \in Seekers |-> "idle"]
  /\ lost = {}

-----------------------------------------------------------------------------
(* DiscoverGateway *)

(* conn.Write.  A host without an open socket answers with an ICMP error,  *)
(* which conn.Read returns. *)
Ask(s) ==
  /\ seek[s] = "idle"
  /\ seek' = [seek EXCEPT ![s] = IF socket = "open" THEN "asked" ELSE "refused"]
  /\ inbox' = IF socket = "open" THEN Append(inbox, s) ELSE inbox
  /\ UNCHANGED <<brun, socket, bquit, answering, lost>>

AskInVain(s) ==
  /\ Lossy
  /\ seek[s] = "idle"
  /\ seek' = [seek EXCEPT ![s] = "asked"]
  /\ lost' = lost \cup {s}
  /\ UNCHANGED listenerVars

-----------------------------------------------------------------------------
(* Run.  SetReadDeadline fails on a socket that is closed; it is tried     *)
(* again until quit is closed too, which is no step here.                  *)

SelectDefault ==
  /\ brun = "select"
  /\ ~bquit
  /\ socket = "open"
  /\ brun' = "read"
  /\ UNCHANGED <<socket, bquit, inbox, answering, seek, lost>>

(* The five seconds are over, or the socket is closed under the read. *)
ReadFails ==
  /\ brun = "read"
  /\ brun' = "select"
  /\ UNCHANGED <<socket, bquit, inbox, answering, seek, lost>>

(* Mutant: the answers share one goroutine, that knows the last address. *)
ReceiveSearchShared ==
  /\ brun = "read"
  /\ socket = "open"
  /\ inbox # <<>>
  /\ answering' = {Head(inbox)}
  /\ inbox' = Tail(inbox)
  /\ brun' = "select"
  /\ UNCHANGED <<socket, bquit, seek, lost>>

ReceiveSearch ==
  /\ brun = "read"
  /\ socket = "open"
  /\ inbox # <<>>
  /\ answering' = answering \cup {Head(inbox)}
  /\ inbox' = Tail(inbox)
  /\ brun' = "select"
  /\ UNCHANGED <<socket, bquit, seek, lost>>

SelectQuit ==
  /\ brun = "select"
  /\ bquit
  /\ brun' = "wait"
  /\ UNCHANGED <<socket, bquit, inbox, answering, seek, lost>>

(* handlers.Wait, close(exited) *)
HandlersGone ==
  /\ brun = "wait"
  /\ answering = {}
  /\ brun' = "exited"
  /\ UNCHANGED <<socket, bquit, inbox, answering, seek, lost>>

(* handleConnection.  The seeker's conn.Read returns the answer, whatever  *)
(* is in it.  A write to a socket that is closed fails, which is logged.   *)
HandleConnection(s) ==
  /\ s \in answering
  /\ answering' = answering \ {s}
  /\ \/ socket = "open" /\ seek' = [seek EXCEPT ![s] = "found"] /\ UNCHANGED lost
     \/ (socket = "closed" \/ Lossy) /\ lost' = lost \cup {s} /\ UNCHANGED seek
  /\ UNCHANGED <<brun, socket, bquit, inbox>>

-----------------------------------------------------------------------------
(* Stop, in the steps that the others may come between: what a closed      *)
(* socket has not delivered is gone without a word to its sender.          *)

CloseSocket ==
  /\ socket' = "closed"
  /\ inbox' = <<>>
  /\ lost' = lost \cup {inbox[i] : i \in 1..Len(inbox)}
  /\ UNCHANGED <<brun, bquit, answering, seek>>

CloseQuit ==
  /\ ~bquit
  /\ bquit' = TRUE
  /\ UNCHANGED <<brun, socket, inbox, answering, seek, lost>>

-----------------------------------------------------------------------------
BroadcastRun ==
  SelectDefault \/ ReadFails \/ ReceiveSearch \/ SelectQuit \/ HandlersGone

Seeker(s) == Ask(s) \/ AskInVain(s)
=============================================================================
