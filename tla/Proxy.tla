-------------------------------- MODULE Proxy --------------------------------
(***************************************************************************)
(* The proxy: pkg/proxy/proxy.go composes the app side (Listener) and the  *)
(* gateway side (GatewayClient), and cmd/proxy/proxy.go runs it until an   *)
(* interrupt.                                                              *)
(*                                                                         *)
(* Proxy.Run is the only goroutine between the two sides.  It moves each   *)
(* message of the apps from listenerToGateway to clientToGateway, and      *)
(* writes a copy of each frame of the gateway to every app in the map.     *)
(***************************************************************************)
EXTENDS Listener, GatewayClient

CONSTANT MayInterrupt   \* TRUE: the operator may press ctrl-C

ASSUME ProxyAssumption == MayInterrupt \in BOOLEAN

VARIABLES
  mpc,      \* main: run, cancelled, wait
  ppc,      \* Proxy.Run
  pbuf,     \* the message it forwards to the client, <<>> when none
  pdown,    \* the frame it copies to the apps, <<>> when none
  pto,      \* the app it is about to write to, and the uuid it read, or <<>>
  todo,     \* the apps in the map when the copying began
  visited   \* the apps the range over the map has produced

proxyVars == <<mpc, ppc, pbuf, pdown, pto, todo, visited>>
vars == <<runtimeVars, listenerVars, clientVars, proxyVars>>

TypeOK ==
  /\ RuntimeTypeOK
  /\ ListenerTypeOK
  /\ ClientTypeOK
  /\ mpc \in {"run", "cancelled", "wait"}
  /\ ppc \in {"none", "startListener", "select", "forward", "copy", "write",
              "wait", "returned"}
  /\ ppc = "none" => cpc = "none"
  /\ pbuf \in Seq(Request)
  /\ Len(pbuf) = IF ppc = "forward" THEN 1 ELSE 0
  /\ pdown \in Seq(GatewayFrame)
  /\ Len(pdown) = IF ppc \in {"copy", "write"} THEN 1 ELSE 0
  /\ pto \in Seq([conn : Conns, dst : Uuids])
  /\ Len(pto) = IF ppc = "write" THEN 1 ELSE 0
  /\ todo \subseteq Conns
  /\ visited \subseteq Conns

Init ==
  /\ RuntimeInit
  /\ ListenerInit
  /\ ClientInit
  /\ mpc = "run"
  /\ ppc = "none"
  /\ pbuf = <<>>
  /\ pdown = <<>>
  /\ pto = <<>>
  /\ todo = {}
  /\ visited = {}

-----------------------------------------------------------------------------
(* main *)

(* A signal arrives: stop the broadcast listener, cancel the context *)
Interrupt ==
  /\ MayInterrupt
  /\ mpc = "run"
  /\ mpc' = "cancelled"
  /\ ctx' = TRUE
  /\ UNCHANGED <<status, wgVars, listenerVars, clientVars, ppc, pbuf, pdown,
                 pto, todo, visited>>

(* wg.Wait(): with a zero counter it returns at once, and main exits *)
MainWait ==
  /\ mpc = "cancelled"
  /\ mpc' = "wait"
  /\ IF wg = 0
     THEN status' = "exited" /\ UNCHANGED waiting
     ELSE waiting' = waiting \cup {"main"} /\ UNCHANGED status
  /\ UNCHANGED <<ctx, wg, woken, listenerVars, clientVars, ppc, pbuf, pdown,
                 pto, todo, visited>>

(* os.Exit(0), once wg.Wait() has returned *)
MainExit ==
  /\ mpc = "wait"
  /\ "main" \in woken
  /\ woken' = woken \ {"main"}
  /\ status' = IF wg = 0 THEN "exited" ELSE "panicked"
  /\ UNCHANGED <<ctx, wg, waiting, listenerVars, clientVars, proxyVars>>

-----------------------------------------------------------------------------
(* Proxy.Run *)

(* Mutant: the client is started without telling the WaitGroup. *)
RunClientUncounted ==
  /\ ppc = "none"
  /\ ppc' = "startListener"
  /\ cpc' = "discover"
  /\ UNCHANGED <<runtimeVars, listenerVars, linkVars, cbuf, dbuf, keepAliveVars,
                 toClient, fromGateway, mpc, pbuf, pdown, pto, todo, visited>>

(* wg.Add(1); go p.client.Run(ctx, wg) *)
RunClient ==
  /\ ppc = "none"
  /\ ppc' = "startListener"
  /\ WgAdd
  /\ cpc' = "discover"
  /\ UNCHANGED <<status, ctx, listenerVars, linkVars, cbuf, dbuf, keepAliveVars,
                 toClient, fromGateway, mpc, pbuf, pdown, pto, todo, visited>>

(* wg.Add(1); go p.listener.Run(ctx, wg) *)
RunListener ==
  /\ ppc = "startListener"
  /\ ppc' = "select"
  /\ WgAdd
  /\ lpc' = "select"
  /\ UNCHANGED <<status, ctx, socketVars, readerVars, handlerVars, appsVars,
                 toGateway, clientVars, mpc, pbuf, pdown, pto, todo, visited>>

(* case <-ctx.Done(): wg.Wait(); return *)
ProxyShutDown ==
  /\ ppc = "select"
  /\ ctx
  /\ IF wg = 0
     THEN ppc' = "returned" /\ UNCHANGED waiting
     ELSE ppc' = "wait" /\ waiting' = waiting \cup {"proxy"}
  /\ UNCHANGED <<status, ctx, wg, woken, listenerVars, clientVars, mpc, pbuf,
                 pdown, pto, todo, visited>>

ProxyReturn ==
  /\ ppc = "wait"
  /\ "proxy" \in woken
  /\ woken' = woken \ {"proxy"}
  /\ ppc' = "returned"
  /\ status' = IF wg = 0 THEN status ELSE "panicked"
  /\ UNCHANGED <<ctx, wg, waiting, listenerVars, clientVars, mpc, pbuf, pdown,
                 pto, todo, visited>>

(* case message := <-p.toGateway *)
ProxyTakeUp ==
  /\ ppc = "select"
  /\ toGateway # <<>>
  /\ pbuf' = <<Head(toGateway)>>
  /\ toGateway' = Tail(toGateway)
  /\ ppc' = "forward"
  /\ UNCHANGED <<runtimeVars, lpc, socketVars, readerVars, handlerVars, appsVars,
                 clientVars, mpc, pdown, pto, todo, visited>>

(* p.client.toGateway <- message, which blocks while the channel is full *)
ProxyForward ==
  /\ ppc = "forward"
  /\ Len(toClient) < ClientCap
  /\ toClient' = toClient \o pbuf
  /\ pbuf' = <<>>
  /\ ppc' = "select"
  /\ UNCHANGED <<runtimeVars, listenerVars, linkVars, cpc, cbuf, dbuf,
                 keepAliveVars, fromGateway, mpc, pdown, pto, todo, visited>>

(* case message := <-p.fromGateway: range over p.listener.apps *)
ProxyTakeDown ==
  /\ ppc = "select"
  /\ fromGateway # <<>>
  /\ pdown' = <<Head(fromGateway)>>
  /\ fromGateway' = Tail(fromGateway)
  /\ ppc' = "copy"
  /\ todo' = apps
  /\ visited' = {}
  /\ UNCHANGED <<runtimeVars, listenerVars, linkVars, cpc, cbuf, dbuf,
                 keepAliveVars, toClient, mpc, pbuf, pto>>

(* Masquerade as the gateway: Message.Dst = app.uuid.  A key that was      *)
(* added while ranging may or may not be produced.                         *)
ProxyAddress(c) ==
  /\ ppc = "copy"
  /\ c \in apps \ visited
  /\ ppc' = "write"
  /\ pto' = <<[conn |-> c, dst |-> uuid[c]]>>
  /\ visited' = visited \cup {c}
  /\ UNCHANGED <<runtimeVars, listenerVars, clientVars, mpc, pbuf, pdown, todo>>

(* app.Write(message), which blocks while the app does not read *)
ProxyWrite ==
  /\ ppc = "write"
  /\ Writable(pto[1].conn)
  /\ WriteToApp(pto[1].conn, AddressTo(pdown[1], pto[1].dst))
  /\ ppc' = "copy"
  /\ pto' = <<>>
  /\ UNCHANGED <<runtimeVars, net, closed, stalled, sent, lpc, readerVars,
                 handlerVars, appsVars, toGateway, clientVars, mpc, pbuf, pdown,
                 todo, visited>>

(* Mutant: the loop over the apps is left after the first one. *)
ProxyCopiedOne ==
  /\ ppc = "copy"
  /\ todo = {} \/ visited # {}
  /\ ppc' = "select"
  /\ pdown' = <<>>
  /\ todo' = {}
  /\ visited' = {}
  /\ UNCHANGED <<runtimeVars, listenerVars, clientVars, mpc, pbuf, pto>>

ProxyCopied ==
  /\ ppc = "copy"
  /\ todo \subseteq visited
  /\ ppc' = "select"
  /\ pdown' = <<>>
  /\ todo' = {}
  /\ visited' = {}
  /\ UNCHANGED <<runtimeVars, listenerVars, clientVars, mpc, pbuf, pto>>

-----------------------------------------------------------------------------
(* The data races on Listener.apps and App.uuid.  The runtime throws when  *)
(* it notices a map written to while it is written or ranged over.  The    *)
(* uuid is a slice header of three words: reading it while the handler     *)
(* sets it for the first time can combine a nil pointer with length 16,    *)
(* which faults.  Every other outcome is that of some order of the steps.  *)
ConcurrentMapWrites ==
  \E c, d \in Conns : c # d /\ hpc[c] = "inserting" /\ hpc[d] = "inserting"

ConcurrentMapIteration == ppc = "copy" /\ \E c \in Conns : hpc[c] = "inserting"

TornUuidRead ==
  /\ ppc = "copy"
  /\ \E c \in apps \ visited : uuid[c] = NoUuid /\ hpc[c] = "select" /\ mch[c] # <<>>

Throw ==
  /\ ConcurrentMapWrites \/ ConcurrentMapIteration \/ TornUuidRead
  /\ status' = "thrown"
  /\ UNCHANGED <<ctx, wgVars, listenerVars, clientVars, proxyVars>>

-----------------------------------------------------------------------------
Main == Interrupt \/ MainWait \/ MainExit

ProxyRun ==
  \/ RunClient
  \/ RunListener
  \/ ProxyShutDown
  \/ ProxyReturn
  \/ ProxyTakeUp
  \/ ProxyForward
  \/ ProxyTakeDown
  \/ \E c \in Conns : ProxyAddress(c)
  \/ ProxyWrite
  \/ ProxyCopied

(* Once the process is gone nothing happens any more *)
Over == ~Running /\ UNCHANGED vars

Next ==
  \/ /\ Running
     /\ \/ ListenerNext /\ UNCHANGED <<ctx, clientVars, proxyVars>>
        \/ ClientNext /\ UNCHANGED <<ctx, listenerVars, proxyVars>>
        \/ ProxyRun
        \/ Main
        \/ Throw
  \/ Over

Spec == Init /\ [][Next]_vars

(* Every goroutine that can take a step is scheduled eventually, and the   *)
(* gateway answers what it has received.  Apps send, close and stall,      *)
(* operators interrupt, gateways notify and drop connections, and data     *)
(* races strike, or do not.  A deadline that passes is a step of the       *)
(* goroutine that set it.                                                  *)
ListenerFairness ==
  LET Alone == UNCHANGED <<ctx, clientVars, proxyVars>>
  IN /\ WF_vars(Running /\ ListenerRun /\ Alone)
     /\ \A c \in Conns : /\ WF_vars(Running /\ Handler(c) /\ Alone)
                         /\ WF_vars(Running /\ Reader(c) /\ Alone)

ClientFairness ==
  LET Alone == UNCHANGED <<ctx, listenerVars, proxyVars>>
  IN /\ WF_vars(Running /\ (NewSession \/ ClientLoop) /\ Alone)
     /\ WF_vars(Running /\ KeepAlive /\ Alone)
     /\ WF_vars(Running /\ Gateway /\ gwSeen' > gwSeen /\ Alone)

Fairness ==
  /\ ListenerFairness
  /\ ClientFairness
  /\ WF_vars(Running /\ ProxyRun)
  /\ WF_vars(Running /\ (MainWait \/ MainExit))

FairSpec == Spec /\ Fairness
=============================================================================
