------------------------------ MODULE MockMain ------------------------------
(***************************************************************************)
(* cmd/mockLanC/main.go: the mock gateway with the listener that lets apps *)
(* find it.                                                                *)
(*                                                                         *)
(* Ten seconds after the start main stops the listener, and on the first   *)
(* interrupt it stops it again: Stop closes a channel that is closed, and  *)
(* panics.  The deferred Stops run then, the mock's first, which waits for *)
(* the apps to hang up, and the listener's, which panics too.              *)
(***************************************************************************)
EXTENDS Discovery, MockLanC

VARIABLES
  main,        \* where main is: which call, and which step of it
  signalled    \* an interrupt is in the channel c, which holds one

mainVars == <<main, signalled>>
vars == <<discoveryVars, status, mockVars, mainVars>>

(* The calls: the first and the second l.Stop, b.Stop, and the deferred    *)
(* b.Stop (defer) and l.Stop (last).                                       *)
TypeOK ==
  /\ DiscoveryTypeOK
  /\ MockTypeOK
  /\ main \in {<<"signal", "wait">>, <<"exit", "wait">>}
       \cup {"first", "second", "last"} \X {"close", "quit", "await"}
       \cup {"mock", "defer"} \X {"quit", "await"}
  /\ signalled \in BOOLEAN

(* Mutant: main does not stop the listener before it waits for the signal. *)
InitWaiting ==
  /\ DiscoveryInit
  /\ MockInit
  /\ main = <<"signal", "wait">>
  /\ signalled = FALSE

(* Run of both is started; main sleeps, then calls l.Stop. *)
Init ==
  /\ DiscoveryInit
  /\ MockInit
  /\ main = <<"first", "close">>
  /\ signalled = FALSE

Interrupt ==
  /\ ~signalled
  /\ signalled' = TRUE
  /\ UNCHANGED <<discoveryVars, status, mockVars, main>>

TakeSignal ==
  /\ main = <<"signal", "wait">>
  /\ signalled
  /\ signalled' = FALSE
  /\ main' = <<"second", "close">>
  /\ UNCHANGED <<discoveryVars, status, mockVars>>

-----------------------------------------------------------------------------
(* l.Stop.  The error of a second Close is not looked at. *)

StopCloses ==
  /\ main[2] = "close"
  /\ CloseSocket
  /\ main' = <<main[1], "quit">>
  /\ UNCHANGED <<status, mockVars, signalled>>

StopQuits ==
  /\ main[2] = "quit" /\ main[1] \in {"first", "second", "last"}
  /\ CloseQuit
  /\ main' = <<main[1], "await">>
  /\ UNCHANGED <<status, mockVars, signalled>>

StopReturns ==
  /\ main[2] = "await" /\ main[1] \in {"first", "second"}
  /\ brun = "exited"
  /\ main' = IF main[1] = "first" THEN <<"signal", "wait">> ELSE <<"mock", "quit">>
  /\ UNCHANGED <<discoveryVars, status, mockVars, signalled>>

(* close of a channel that is closed.  The panic of the last call ends the *)
(* process, one before has the deferred calls run.                         *)
StopPanics ==
  /\ main[2] = "quit" /\ main[1] \in {"first", "second", "last"}
  /\ bquit
  /\ IF main[1] = "last" THEN status' = "panicked" /\ UNCHANGED main
                         ELSE main' = <<"defer", "quit">> /\ UNCHANGED status
  /\ UNCHANGED <<discoveryVars, mockVars, signalled>>

-----------------------------------------------------------------------------
(* b.Stop, called in the loop or deferred *)

MockStopQuits ==
  /\ main \in {<<"mock", "quit">>, <<"defer", "quit">>}
  /\ QuitMock
  /\ main' = <<main[1], "await">>
  /\ UNCHANGED <<discoveryVars, signalled>>

MockStopReturns ==
  /\ main \in {<<"mock", "await">>, <<"defer", "await">>}
  /\ mrun = "exited"
  /\ main' = IF main[1] = "mock" THEN <<"exit", "wait">> ELSE <<"last", "close">>
  /\ UNCHANGED <<discoveryVars, status, mockVars, signalled>>

(* os.Exit(0) *)
Exit ==
  /\ main = <<"exit", "wait">>
  /\ status' = "exited"
  /\ UNCHANGED <<discoveryVars, mockVars, mainVars>>

-----------------------------------------------------------------------------
Main ==
  \/ TakeSignal \/ StopCloses \/ StopQuits \/ StopReturns \/ StopPanics
  \/ MockStopQuits \/ MockStopReturns \/ Exit

Discover ==
  /\ \/ BroadcastRun
     \/ \E s \in Seekers : HandleConnection(s) \/ Seeker(s)
  /\ UNCHANGED <<status, mockVars, mainVars>>

Mock ==
  /\ \/ MockRun
     \/ \E c \in Conns : HandleClient(c) \/ App(c)
  /\ UNCHANGED <<discoveryVars, mainVars>>

Running == status = "running"

Next == Running /\ (Interrupt \/ Main \/ Discover \/ Mock)

(* Every goroutine is scheduled, main among them, and an accept does not   *)
(* time out for ever while a connection waits.                             *)
Fairness ==
  /\ WF_vars(Running /\ Main)
  /\ WF_vars(Running /\ Discover /\ BroadcastRun)
  /\ SF_vars(Running /\ Discover /\ ReceiveSearch)
  /\ \A s \in Seekers : WF_vars(Running /\ Discover /\ HandleConnection(s))
  /\ WF_vars(Running /\ Mock /\ MockRun)
  /\ \A c \in Conns : WF_vars(Running /\ Mock /\ HandleClient(c))
                        /\ SF_vars(Running /\ Mock /\ Accept(c))

Spec == Init /\ [][Next]_vars /\ Fairness

-----------------------------------------------------------------------------
(* A search ends, unless a datagram of it is lost: in the network, in the  *)
(* buffer of the socket that Stop closes, or in the hands of a goroutine   *)
(* that comes to write after that.                                         *)
SearchesEnd ==
  \A s \in Seekers :
    seek[s] = "asked" ~> seek[s] # "asked" \/ s \in lost \/ ~Running

(* Once b.Stop has returned, every app that was accepted has been read to  *)
(* its end.                                                                *)
StopDrains ==
  main \in {<<"exit", "wait">>} \cup {"last"} \X {"close", "quit"} =>
    \A c \in Conns : handler[c] \in {"none", "done"} /\ conn[c] \in {"none", "closed"}

(* An interrupt ends the process as soon as no app is connected, and not   *)
(* before: nothing else ends the goroutines that Stop waits for.           *)
InterruptEnds ==
  <>[](\A c \in Conns : conn[c] # "up") => (signalled ~> ~Running)

(* The process never ends as main has it, with os.Exit(0).                 *)
NeverCleanExit == status # "exited"
=============================================================================
