---------------------------- MODULE GatewayClient ----------------------------
(***************************************************************************)
(* The gateway side of the proxy: pkg/proxy/client.go, and the Session of  *)
(* pkg/comfoconnect/session.go that it drives.                             *)
(*                                                                         *)
(* Client.Run opens a session (discovery, TCP connection, registration,    *)
(* session start; an error in any of them panics the process) and starts   *)
(* the keep-alive goroutine.  Its loop gives priority to the messages for  *)
(* the gateway and otherwise waits up to 300 ms for one from the gateway,  *)
(* which it hands to the proxy loop.                                       *)
(***************************************************************************)
EXTENDS Messages, Runtime

CONSTANTS
  ClientCap,    \* the capacity of clientToGateway and of clientFromGateway
  FirstRef,     \* the reference of the first keep-alive (50 in the code)
  MaxRef,       \* the greatest reference of a keep-alive (1024 in the code)
  MaxTicks,     \* bound: keep-alives sent
  MaxNotes,     \* bound: notifications the gateway sends
  GatewayFaults \* what may go wrong: a subset of {"fin", "rst", "refuse"}

ASSUME ClientAssumption ==
  /\ ClientCap \in Nat \ {0}
  /\ FirstRef \in 1..MaxRef
  /\ MaxRef \in Nat
  /\ MaxTicks \in Nat
  /\ MaxNotes \in Nat
  /\ GatewayFaults \subseteq {"fin", "rst", "refuse"}

VARIABLES
  link,        \* the TCP connection: none, up, fin or rst (by the gateway),
               \* closed (by Session.Close)
  gwIn,        \* the frames written to the gateway, in order
  gwSeen,      \* how many of them the gateway has answered
  gwOut,       \* the frames the gateway has written, in order
  gwRead,      \* how many of them Client.Run has read
  cpc,         \* Client.Run
  cbuf,        \* the message it sends to the gateway, <<>> when none
  dbuf,        \* the frame it hands to the proxy loop, <<>> when none
  kpc,         \* Session.keepAlive
  kref,        \* the next keep-alive's reference
  ticks,       \* how many keep-alives were sent
  toClient,    \* the channel clientToGateway
  fromGateway  \* the channel clientFromGateway

linkVars == <<link, gwIn, gwSeen, gwOut, gwRead>>
keepAliveVars == <<kpc, kref, ticks>>
clientVars ==
  <<link, gwIn, gwSeen, gwOut, gwRead, cpc, cbuf, dbuf, kpc, kref, ticks,
    toClient, fromGateway>>

ClientTypeOK ==
  /\ link \in {"none", "up", "fin", "rst", "closed"}
  /\ gwIn \in Seq(Request)
  /\ gwSeen \in Nat
  /\ gwOut \in Seq(GatewayFrame)
  /\ gwRead \in Nat
  /\ cpc \in {"none", "discover", "dial", "register", "registerConfirm",
              "start", "startConfirm", "select", "send", "receive", "push",
              "lost", "closing", "done"}
  /\ cbuf \in Seq(Request)
  /\ dbuf \in Seq(GatewayFrame)
  /\ kpc \in {"none", "select", "done"}
  /\ kref \in 1..MaxRef
  /\ ticks \in 0..MaxTicks
  /\ toClient \in Seq(Request)
  /\ fromGateway \in Seq(GatewayFrame)
  /\ Len(cbuf) = IF cpc = "send" THEN 1 ELSE 0
  /\ Len(dbuf) = IF cpc = "push" THEN 1 ELSE 0
  /\ Len(toClient) <= ClientCap
  /\ Len(fromGateway) <= ClientCap

ClientInit ==
  /\ link = "none"
  /\ gwIn = <<>>
  /\ gwSeen = 0
  /\ gwOut = <<>>
  /\ gwRead = 0
  /\ cpc = "none"
  /\ cbuf = <<>>
  /\ dbuf = <<>>
  /\ kpc = "none"
  /\ kref = FirstRef
  /\ ticks = 0
  /\ toClient = <<>>
  /\ fromGateway = <<>>

(* net.Conn.Write to the gateway.  On a connection that is closed it fails *)
(* or is discarded by the peer: the code logs the error and goes on.       *)
WriteToGateway(m) == gwIn' = IF link = "up" THEN Append(gwIn, m) ELSE gwIn

(* The frames the proxy originates: reference n, its own uuid as source *)
OwnRequest(kind, n) == [app |-> Self, n |-> n, kind |-> kind, src |-> Self]

-----------------------------------------------------------------------------
(* The gateway (outside the code): it answers requests in order, notifies  *)
(* once a session is started, and may close or reset the connection.       *)

GatewayAnswer ==
  /\ link = "up"
  /\ gwSeen < Len(gwIn)
  /\ LET m == gwIn[gwSeen + 1]
     IN gwOut' = Append(gwOut, [seq |-> Len(gwOut) + 1, app |-> m.app, n |-> m.n,
                                kind |-> ResponseTypeFor(m.kind)])
  /\ gwSeen' = gwSeen + 1
  /\ UNCHANGED <<link, gwIn, gwRead>>

GatewayNotify ==
  /\ link = "up"
  /\ gwSeen >= 2
  /\ Len(gwOut) - gwSeen < MaxNotes
  /\ gwOut' = Append(gwOut, [seq |-> Len(gwOut) + 1, app |-> Self, n |-> 0,
                             kind |-> "CnRpdoNotification"])
  /\ UNCHANGED <<link, gwIn, gwSeen, gwRead>>

GatewayDrop ==
  /\ link = "up"
  /\ link' \in GatewayFaults \cap {"fin", "rst"}
  /\ UNCHANGED <<gwIn, gwSeen, gwOut, gwRead>>

-----------------------------------------------------------------------------
(* NewSession, called by Client.Run, which panics on any error *)

(* DiscoverGateway: a UDP exchange without a deadline or a retry *)
Discover ==
  /\ cpc = "discover"
  /\ \/ cpc' = "dial" /\ UNCHANGED status
     \/ "refuse" \in GatewayFaults /\ Panic /\ UNCHANGED cpc
  /\ UNCHANGED <<linkVars, cbuf, dbuf, keepAliveVars, toClient, fromGateway, wgVars>>

Dial ==
  /\ cpc = "dial"
  /\ \/ cpc' = "register" /\ link' = "up" /\ UNCHANGED status
     \/ "refuse" \in GatewayFaults /\ Panic /\ UNCHANGED <<cpc, link>>
  /\ UNCHANGED <<gwIn, gwSeen, gwOut, gwRead, cbuf, dbuf, keepAliveVars,
                 toClient, fromGateway, wgVars>>

(* conn.Write(RegisterAppRequest), and later StartSessionRequest *)
Register ==
  /\ cpc = "register"
  /\ cpc' = "registerConfirm"
  /\ WriteToGateway(OwnRequest("RegisterAppRequest", 1))
  /\ UNCHANGED <<link, gwSeen, gwOut, gwRead, cbuf, dbuf, keepAliveVars,
                 toClient, fromGateway, status, wgVars>>

Start ==
  /\ cpc = "start"
  /\ cpc' = "startConfirm"
  /\ WriteToGateway(OwnRequest("StartSessionRequest", 2))
  /\ UNCHANGED <<link, gwSeen, gwOut, gwRead, cbuf, dbuf, keepAliveVars,
                 toClient, fromGateway, status, wgVars>>

(* GetMessageFromSocket without a deadline.  The next frame has to be the  *)
(* confirmation of the request just sent. *)
HandshakeEnds == gwRead = Len(gwOut) /\ link \in {"fin", "rst"}

RegisterConfirm ==
  /\ cpc = "registerConfirm"
  /\ \/ /\ gwRead < Len(gwOut)
        /\ gwRead' = gwRead + 1
        /\ IF gwOut[gwRead + 1].kind = "RegisterAppConfirm"
           THEN cpc' = "start" /\ UNCHANGED status
           ELSE Panic /\ UNCHANGED cpc
     \/ HandshakeEnds /\ Panic /\ UNCHANGED <<cpc, gwRead>>
  /\ UNCHANGED <<link, gwIn, gwSeen, gwOut, cbuf, dbuf, keepAliveVars,
                 toClient, fromGateway, wgVars>>

(* ... and on success wg.Add(1); go s.keepAlive(ctx, wg) *)
StartConfirm ==
  /\ cpc = "startConfirm"
  /\ \/ /\ gwRead < Len(gwOut)
        /\ gwRead' = gwRead + 1
        /\ IF gwOut[gwRead + 1].kind = "StartSessionConfirm"
           THEN cpc' = "select" /\ kpc' = "select" /\ WgAdd /\ UNCHANGED status
           ELSE Panic /\ UNCHANGED <<cpc, kpc, wgVars>>
     \/ HandshakeEnds /\ Panic /\ UNCHANGED <<cpc, gwRead, kpc, wgVars>>
  /\ UNCHANGED <<link, gwIn, gwSeen, gwOut, cbuf, dbuf, kref, ticks, toClient,
                 fromGateway>>

-----------------------------------------------------------------------------
(* The loop of Client.Run *)

(* Mutant: the session is closed before the queue is drained. *)
ClientClosingThenDrain ==
  /\ cpc = "select"
  /\ ctx
  /\ cpc' = IF toClient = <<>> THEN "closing" ELSE "select"
  /\ WriteToGateway(OwnRequest("CloseSessionRequest", 1))
  /\ UNCHANGED <<link, gwSeen, gwOut, gwRead, cbuf, dbuf, keepAliveVars,
                 toClient, fromGateway, status, wgVars>>

(* case <-ctx.Done(): Session.Close asks the gateway to close the session ... *)
ClientClosing ==
  /\ cpc = "select"
  /\ ctx
  /\ cpc' = "closing"
  /\ WriteToGateway(OwnRequest("CloseSessionRequest", 1))
  /\ UNCHANGED <<link, gwSeen, gwOut, gwRead, cbuf, dbuf, keepAliveVars,
                 toClient, fromGateway, status, wgVars>>

(* ... and closes the connection; wg.Done() *)
ClientDone ==
  /\ cpc = "closing"
  /\ cpc' = "done"
  /\ link' = "closed"
  /\ WgDone
  /\ UNCHANGED <<gwIn, gwSeen, gwOut, gwRead, cbuf, dbuf, keepAliveVars,
                 toClient, fromGateway>>

(* case message := <-c.toGateway: masquerade ... *)
ClientTake ==
  /\ cpc = "select"
  /\ toClient # <<>>
  /\ cbuf' = <<Masquerade(Head(toClient))>>
  /\ toClient' = Tail(toClient)
  /\ cpc' = "send"
  /\ UNCHANGED <<linkVars, dbuf, keepAliveVars, fromGateway, status, wgVars>>

(* Mutant: a write that is reported to have failed is tried again. *)
ClientSendRetries ==
  /\ cpc = "send"
  /\ WriteToGateway(cbuf[1])
  /\ \/ cbuf' = <<>> /\ cpc' = "select"
     \/ gwIn # gwIn' /\ Len(gwIn) < 4 /\ UNCHANGED <<cbuf, cpc>>
  /\ UNCHANGED <<link, gwSeen, gwOut, gwRead, dbuf, keepAliveVars, toClient,
                 fromGateway, status, wgVars>>

(* ... and Session.Send; an error is logged, the message is gone *)
ClientSend ==
  /\ cpc = "send"
  /\ WriteToGateway(cbuf[1])
  /\ cbuf' = <<>>
  /\ cpc' = "select"
  /\ UNCHANGED <<link, gwSeen, gwOut, gwRead, dbuf, keepAliveVars, toClient,
                 fromGateway, status, wgVars>>

(* default: only if no other case is ready.  Session.Receive. *)
ClientReceiving ==
  /\ cpc = "select"
  /\ ~ctx
  /\ toClient = <<>>
  /\ cpc' = "receive"
  /\ UNCHANGED <<linkVars, cbuf, dbuf, keepAliveVars, toClient, fromGateway,
                 status, wgVars>>

ClientReceive ==
  /\ cpc = "receive"
  /\ gwRead < Len(gwOut)
  /\ dbuf' = <<gwOut[gwRead + 1]>>
  /\ gwRead' = gwRead + 1
  /\ cpc' = "push"
  /\ UNCHANGED <<link, gwIn, gwSeen, gwOut, cbuf, keepAliveVars, toClient,
                 fromGateway, status, wgVars>>

(* The deadline passes, or the read fails with anything but io.EOF: break. *)
(* A reset is such a failure; it is reported to one read or write, and     *)
(* after that the connection reads as one that has ended.                  *)
ClientTimeout ==
  /\ cpc = "receive"
  /\ gwRead = Len(gwOut)
  /\ link # "fin"
  /\ cpc' = "select"
  /\ link' = IF link = "rst" THEN "fin" ELSE link
  /\ UNCHANGED <<gwIn, gwSeen, gwOut, gwRead, cbuf, dbuf, keepAliveVars, toClient, fromGateway,
                 status, wgVars>>

(* io.EOF: return an error, without a wg.Done(), and without a successor.  *)
(* The proxy goes on without a session.                                    *)
ClientLost ==
  /\ cpc = "receive"
  /\ gwRead = Len(gwOut)
  /\ link \in {"fin", "rst"}
  /\ cpc' = "lost"
  /\ UNCHANGED <<linkVars, cbuf, dbuf, keepAliveVars, toClient, fromGateway,
                 status, wgVars>>

(* c.fromGateway <- message, which blocks while the channel is full *)
ClientPush ==
  /\ cpc = "push"
  /\ Len(fromGateway) < ClientCap
  /\ fromGateway' = fromGateway \o dbuf
  /\ dbuf' = <<>>
  /\ cpc' = "select"
  /\ UNCHANGED <<linkVars, cbuf, keepAliveVars, toClient, status, wgVars>>

-----------------------------------------------------------------------------
(* Session.keepAlive: a CnTimeRequest every five seconds *)

(* Mutant: the reference is not wrapped. *)
NextRefUnbounded(ref) == ref + 1

(* if reference > 1024 { reference = 1 } *)
NextRef(ref) == IF ref + 1 > MaxRef THEN 1 ELSE ref + 1

KeepAliveTick ==
  /\ kpc = "select"
  /\ ticks < MaxTicks
  /\ ticks' = ticks + 1
  /\ WriteToGateway(OwnRequest("CnTimeRequest", kref))
  /\ kref' = NextRef(kref)
  /\ UNCHANGED <<link, gwSeen, gwOut, gwRead, cpc, cbuf, dbuf, kpc, toClient,
                 fromGateway, status, wgVars>>

(* Mutant: the goroutine ends without a Done. *)
KeepAliveDoneUncounted ==
  /\ kpc = "select"
  /\ ctx
  /\ kpc' = "done"
  /\ UNCHANGED <<linkVars, cpc, cbuf, dbuf, kref, ticks, toClient, fromGateway,
                 status, wgVars>>

KeepAliveDone ==
  /\ kpc = "select"
  /\ ctx
  /\ kpc' = "done"
  /\ WgDone
  /\ UNCHANGED <<linkVars, cpc, cbuf, dbuf, kref, ticks, toClient, fromGateway>>

-----------------------------------------------------------------------------
NewSession == Discover \/ Dial \/ Register \/ RegisterConfirm \/ Start \/ StartConfirm

ClientLoop ==
  \/ ClientClosing
  \/ ClientDone
  \/ ClientTake
  \/ ClientSend
  \/ ClientReceiving
  \/ ClientReceive
  \/ ClientTimeout
  \/ ClientLost
  \/ ClientPush

KeepAlive == KeepAliveTick \/ KeepAliveDone

Gateway ==
  /\ GatewayAnswer \/ GatewayNotify \/ GatewayDrop
  /\ UNCHANGED <<cpc, cbuf, dbuf, keepAliveVars, toClient, fromGateway, status, wgVars>>

ClientNext == NewSession \/ ClientLoop \/ KeepAlive \/ Gateway
=============================================================================
