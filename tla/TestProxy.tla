------------------------------ MODULE TestProxy ------------------------------
(***************************************************************************)
(* pkg/testproxy/testproxy.go: for every app that connects, a goroutine    *)
(* dials the gateway and copies messages both ways, in a goroutine per     *)
(* direction, until both connections have reached their end.               *)
(*                                                                         *)
(* handleClient reports no error then, so that the loop around it calls it *)
(* again with the connection it has closed: it dials the gateway again,    *)
(* and the copy from the closed connection fails for ever.                 *)
(*                                                                         *)
(* A message is read whole; the peers read what they are sent, so that no  *)
(* write blocks; an app connects once.                                     *)
(***************************************************************************)
EXTENDS Integers, Sequences

CONSTANTS
  Apps,     \* the apps that may connect
  Script,   \* bound: the kinds of the messages written into each pipe, by
            \* direction
  Faults    \* what may go wrong: a subset of {"fin", "rst", "refuse"}

LOCAL M == INSTANCE Messages WITH Conns <- Apps, Self <- "proxy", NoUuid <- "none"

ASSUME TestProxyAssumption ==
  /\ Script \in [{"up", "down"} -> Seq(M!Kinds)]
  /\ Faults \subseteq {"fin", "rst", "refuse"}

Pipes == Apps \X {"up", "down"}

Back(p) == <<p[1], IF p[2] = "up" THEN "down" ELSE "up">>

VARIABLES
  status,     \* of the process: running, panicked
  trun,       \* Run: select, accept, wait, exited
  tquit,      \* TRUE once Stop has closed the channel quit
  listening,  \* is the listener open?
  phase,      \* of each app's goroutine: none, dial, copy, redial, spin, ended
  link,       \* of the connection a pipe is read from: none, up, fin or rst
              \* (by its peer), dead after a reset that was reported, closed
  copier,     \* of each pipe: none, read, write, done
  written,    \* the messages written into each pipe
  read,       \* how many of them were read
  out         \* the messages that came out

runVars == <<trun, tquit, listening>>
pipeVars == <<copier, written, read, out>>
vars == <<status, runVars, phase, link, pipeVars>>

Frame == UNION {[pipe : {p}, n : 1..Len(Script[p[2]])] : p \in Pipes}

TypeOK ==
  /\ status \in {"running", "panicked"}
  /\ trun \in {"select", "accept", "wait", "exited"}
  /\ tquit \in BOOLEAN /\ listening \in BOOLEAN
  /\ phase \in [Apps -> {"none", "dial", "copy", "redial", "spin", "ended"}]
  /\ link \in [Pipes -> {"none", "up", "fin", "rst", "dead", "closed"}]
  /\ copier \in [Pipes -> {"none", "read", "write", "done"}]
  /\ read \in [Pipes -> Nat]
  /\ written \in [Pipes -> Seq(Frame)] /\ out \in [Pipes -> Seq(Frame)]
  /\ \A p \in Pipes :
       /\ read[p] <= Len(written[p])
       /\ copier[p] = "write" => read[p] > 0
       /\ (phase[p[1]] = "copy") <=> (copier[p] # "none")

Init ==
  /\ status = "running"
  /\ trun = "select"
  /\ tquit = FALSE
  /\ listening = TRUE
  /\ phase = [a \in Apps |-> "none"]
  /\ link = [p \in Pipes |-> "none"]
  /\ copier = [p \in Pipes |-> "none"]
  /\ written = [p \in Pipes |-> <<>>]
  /\ read = [p \in Pipes |-> 0]
  /\ out = [p \in Pipes |-> <<>>]

-----------------------------------------------------------------------------
(* The apps and the gateway, and whoever calls Stop (outside the code) *)

AppDial(a) ==
  /\ link[<<a, "up">>] = "none"
  /\ listening
  /\ link' = [link EXCEPT ![<<a, "up">>] = "up"]
  /\ UNCHANGED <<status, runVars, phase, pipeVars>>

PeerWrite(p) ==
  /\ link[p] = "up"
  /\ Len(written[p]) < Len(Script[p[2]])
  /\ written' = [written EXCEPT ![p] = Append(@, [pipe |-> p, n |-> Len(@) + 1])]
  /\ UNCHANGED <<status, runVars, phase, link, copier, read, out>>

PeerDrop(p) ==
  /\ link[p] = "up"
  /\ \E fault \in Faults \cap {"fin", "rst"} : link' = [link EXCEPT ![p] = fault]
  /\ UNCHANGED <<status, runVars, phase, pipeVars>>

(* Stop, but for the wait for exited *)
Stop ==
  /\ ~tquit
  /\ tquit' = TRUE
  /\ UNCHANGED <<status, trun, listening, phase, link, pipeVars>>

-----------------------------------------------------------------------------
(* Run *)

(* Mutant: Run accepts even when quit is closed. *)
SelectAcceptAlways ==
  /\ trun = "select"
  /\ trun' = "accept"
  /\ UNCHANGED <<status, tquit, listening, phase, link, pipeVars>>

SelectAccept ==
  /\ trun = "select"
  /\ ~tquit
  /\ trun' = "accept"
  /\ UNCHANGED <<status, tquit, listening, phase, link, pipeVars>>

AcceptTimeout ==
  /\ trun = "accept"
  /\ trun' = "select"
  /\ UNCHANGED <<status, tquit, listening, phase, link, pipeVars>>

Accept(a) ==
  /\ trun = "accept"
  /\ phase[a] = "none"
  /\ link[<<a, "up">>] # "none"
  /\ phase' = [phase EXCEPT ![a] = "dial"]
  /\ trun' = "select"
  /\ UNCHANGED <<status, tquit, listening, link, pipeVars>>

(* p.listener.Close, which resets the connections not accepted. *)
ShutDown ==
  /\ trun = "select"
  /\ tquit
  /\ listening' = FALSE
  /\ link' = [p \in Pipes |-> IF phase[p[1]] = "none" THEN "closed" ELSE link[p]]
  /\ trun' = "wait"
  /\ UNCHANGED <<status, tquit, phase, pipeVars>>

(* handlers.Wait, close(exited) *)
Exits ==
  /\ trun = "wait"
  /\ \A a \in Apps : phase[a] \in {"none", "ended"}
  /\ trun' = "exited"
  /\ UNCHANGED <<status, tquit, listening, phase, link, pipeVars>>

-----------------------------------------------------------------------------
(* handleClient and the loop around it *)

SetBoth(f, a, value) == [p \in Pipes |-> IF p[1] = a THEN value ELSE f[p]]

(* Mutant: only one copy is started. *)
DialStartsOne(a) ==
  /\ phase[a] = "dial"
  /\ phase' = [phase EXCEPT ![a] = "copy"]
  /\ link' = [link EXCEPT ![<<a, "down">>] = "up"]
  /\ copier' = [copier EXCEPT ![<<a, "down">>] = "read"]
  /\ UNCHANGED <<status, runVars, written, read, out>>

DialGateway(a) ==
  /\ phase[a] = "dial"
  /\ phase' = [phase EXCEPT ![a] = "copy"]
  /\ link' = [link EXCEPT ![<<a, "down">>] = "up"]
  /\ copier' = SetBoth(copier, a, "read")
  /\ UNCHANGED <<status, runVars, written, read, out>>

(* The error closes the app's connection and ends the goroutine. *)
DialFails(a) ==
  /\ phase[a] = "dial"
  /\ "refuse" \in Faults
  /\ phase' = [phase EXCEPT ![a] = "ended"]
  /\ link' = [link EXCEPT ![<<a, "up">>] = "closed"]
  /\ UNCHANGED <<status, runVars, pipeVars>>

(* Mutant: one direction's end ends both. *)
EitherDone(a) ==
  /\ phase[a] = "copy"
  /\ \E p \in Pipes : p[1] = a /\ copier[p] = "done"
  /\ phase' = [phase EXCEPT ![a] = "redial"]
  /\ link' = SetBoth(link, a, "closed")
  /\ copier' = SetBoth(copier, a, "none")
  /\ UNCHANGED <<status, runVars, written, read, out>>

(* wg.Wait, and the deferred Close of both connections *)
BothDone(a) ==
  /\ phase[a] = "copy"
  /\ \A p \in Pipes : p[1] = a => copier[p] = "done"
  /\ phase' = [phase EXCEPT ![a] = "redial"]
  /\ link' = SetBoth(link, a, "closed")
  /\ copier' = SetBoth(copier, a, "none")
  /\ UNCHANGED <<status, runVars, written, read, out>>

(* handleClient again: a dial that succeeds leaves the goroutine waiting   *)
(* for a copy that fails for ever, one that fails ends it.                 *)
Redial(a) ==
  /\ phase[a] = "redial"
  /\ \/ phase' = [phase EXCEPT ![a] = "spin"]
     \/ "refuse" \in Faults /\ phase' = [phase EXCEPT ![a] = "ended"]
  /\ UNCHANGED <<status, runVars, link, pipeVars>>

(* What the gateway writes on the new connection is read and dropped, but  *)
(* for a message that panics.                                              *)
SpinPanics(a) ==
  /\ phase[a] = "spin"
  /\ \E i \in 1..Len(Script["down"]) : M!GetStructForType(Script["down"][i]) = "nil"
  /\ status' = "panicked"
  /\ UNCHANGED <<runVars, phase, link, pipeVars>>

-----------------------------------------------------------------------------
(* copy *)

(* GetMessageFromSocket panics on a message whose type has no struct. *)
Read(p) ==
  /\ copier[p] = "read"
  /\ link[p] # "dead"
  /\ read[p] < Len(written[p])
  /\ IF M!GetStructForType(Script[p[2]][read[p] + 1]) = "nil"
       THEN status' = "panicked" /\ UNCHANGED <<read, copier>>
       ELSE /\ read' = [read EXCEPT ![p] = @ + 1]
            /\ copier' = [copier EXCEPT ![p] = "write"]
            /\ UNCHANGED status
  /\ UNCHANGED <<runVars, phase, link, written, out>>

(* Any error but the end of file is logged and the read tried again; a     *)
(* connection that was reset reads as ended after that.                    *)
ReadReset(p) ==
  /\ copier[p] = "read"
  /\ link[p] = "rst"
  /\ link' = [link EXCEPT ![p] = "dead"]
  /\ UNCHANGED <<status, runVars, phase, pipeVars>>

ReadEof(p) ==
  /\ copier[p] = "read"
  /\ (link[p] = "dead" \/ (link[p] = "fin" /\ read[p] = Len(written[p])))
  /\ copier' = [copier EXCEPT ![p] = "done"]
  /\ UNCHANGED <<status, runVars, phase, link, written, read, out>>

(* Mutant: the copies write to where they read. *)
WriteBack(p) ==
  /\ copier[p] = "write"
  /\ out' = [out EXCEPT ![Back(p)] = Append(@, written[p][read[p]])]
  /\ copier' = [copier EXCEPT ![p] = "read"]
  /\ UNCHANGED <<status, runVars, phase, link, written, read>>

(* Mutant: a message is written only when another one can be read. *)
WriteWhenNext(p) ==
  /\ copier[p] = "write"
  /\ read[p] < Len(written[p])
  /\ out' = IF link[Back(p)] = "up" THEN [out EXCEPT ![p] = Append(@, written[p][read[p]])]
                                    ELSE out
  /\ copier' = [copier EXCEPT ![p] = "read"]
  /\ UNCHANGED <<status, runVars, phase, link, written, read>>

(* The error of a write is logged, and the message is gone. *)
Write(p) ==
  /\ copier[p] = "write"
  /\ out' = IF link[Back(p)] = "up" THEN [out EXCEPT ![p] = Append(@, written[p][read[p]])]
                                    ELSE out
  /\ copier' = [copier EXCEPT ![p] = "read"]
  /\ UNCHANGED <<status, runVars, phase, link, written, read>>

-----------------------------------------------------------------------------
Running == status = "running"

Run ==
  \/ SelectAccept \/ AcceptTimeout \/ ShutDown \/ Exits
  \/ \E a \in Apps : Accept(a)

HandleClient(a) == DialGateway(a) \/ DialFails(a) \/ BothDone(a) \/ Redial(a)

Copy(p) == Read(p) \/ ReadReset(p) \/ ReadEof(p) \/ Write(p)

Peers ==
  \/ \E a \in Apps : AppDial(a)
  \/ \E p \in Pipes : PeerWrite(p) \/ PeerDrop(p)

Next ==
  Running /\ ( \/ Peers \/ Stop \/ Run
               \/ \E a \in Apps : HandleClient(a) \/ SpinPanics(a)
               \/ \E p \in Pipes : Copy(p) )

(* Every goroutine is scheduled, and an accept does not time out for ever  *)
(* while a connection waits.                                               *)
Fairness ==
  /\ WF_vars(Running /\ Run)
  /\ \A a \in Apps : SF_vars(Running /\ Accept(a)) /\ WF_vars(Running /\ HandleClient(a))
  /\ \A p \in Pipes : WF_vars(Running /\ Copy(p))

Spec == Init /\ [][Next]_vars /\ Fairness

-----------------------------------------------------------------------------
(* A pipe is open while the process runs and both peers are connected, or  *)
(* the connection to the gateway is not made yet.                          *)
Open ==
  {p \in Pipes : /\ Running
                 /\ phase[p[1]] # "ended"
                 /\ \A q \in {p, Back(p)} : link[q] \in {"none", "up"}}

Pipe == INSTANCE Pipe WITH
  Payloads <- Frame, sent <- written, delivered <- out, open <- Open

(* Each direction of each app's connection is a pipe, with all that was    *)
(* written coming out while both peers are there.                          *)
IsPipe == Pipe!Spec
IsLivePipe == Pipe!LiveSpec

(* The end of one connection goes no further: the other peer's is closed   *)
(* only when it has ended too, but for an app the gateway refused or Stop  *)
(* came before.                                                            *)
EndIsNotPassedOn ==
  [][\A p \in Pipes : link[p] = "up" /\ link'[p] = "closed" => phase[p[1]] \in {"none", "dial"}]_vars

(* Stop returns when every app that was accepted is refused by the gateway *)
(* in the end.  There is no other way: an app that hangs up leaves a       *)
(* goroutine that Stop waits for.                                          *)
StopReturns ==
  (\A a \in Apps : <>[](phase[a] \notin {"copy", "spin"}))
    => (tquit ~> trun = "exited" \/ ~Running)
=============================================================================
