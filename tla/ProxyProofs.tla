----------------------------- MODULE ProxyProofs -----------------------------
(***************************************************************************)
(* The types of the proxy's state, what the gateway sees of the proxy, and *)
(* how the proxy shuts down, for every set of apps, every number of        *)
(* messages and every capacity of the channels.                            *)
(***************************************************************************)
EXTENDS ProxySafety, SequenceTheorems, FiniteSetTheorems, TLAPS

-----------------------------------------------------------------------------
(* Types: first of the steps of the two sides, then of main and Proxy.Run, *)
(* then of the whole                                                       *)

(* getResponseTypeForOperationType returns an operation type *)
LEMMA ResponseTypeIsKind ==
  ASSUME NEW kind
  PROVE  ResponseTypeFor(kind) \in Kinds
BY DEF ResponseTypeFor, Kinds

(* WaitGroup.Done keeps the runtime's types *)
LEMMA WgDoneType ==
  ASSUME RuntimeTypeOK, WgDone, ctx' = ctx
  PROVE  RuntimeTypeOK'
<1>1. ctx' \in BOOLEAN
  BY DEF RuntimeTypeOK
<1>2. /\ status' \in {"running", "exited", "panicked", "thrown"}
      /\ wg' \in Int
  BY DEF RuntimeTypeOK, WgDone
<1>3. waiting' \subseteq Waiters /\ woken' \subseteq Waiters
  BY DEF RuntimeTypeOK, WgDone
<1> QED
  BY <1>1, <1>2, <1>3 DEF RuntimeTypeOK

(* A step that leaves the process and the WaitGroup alone keeps its types *)
LEMMA RuntimeUnchangedType ==
  ASSUME RuntimeTypeOK, ctx' = ctx, UNCHANGED <<status, wgVars>>
  PROVE  RuntimeTypeOK'
<1>1. ctx' \in BOOLEAN
  BY DEF RuntimeTypeOK
<1> QED
  BY <1>1 DEF RuntimeTypeOK, wgVars

LEMMA BufferElement ==
  ASSUME NEW S, NEW buf \in Seq(S), Len(buf) = 1
  PROVE  buf[1] \in S
<1>1. 1 \in 1..Len(buf)
  OBVIOUS
<1> QED
  BY <1>1, ElementOfSeq, Zenon

(* A goroutine hands the one message it holds to a channel *)
LEMMA BufferAppended ==
  ASSUME NEW S, NEW q \in Seq(S), NEW buf \in Seq(S), Len(buf) = 1
  PROVE  q \o buf \in Seq(S) /\ Len(q \o buf) = Len(q) + 1
<1>1. q \o buf \in Seq(S) /\ Len(q \o buf) = Len(q) + Len(buf)
  BY ConcatProperties, Zenon
<1> QED
  BY <1>1

-----------------------------------------------------------------------------
(* The app side *)

(* What every step of the app side keeps *)
ListenerInv == RuntimeTypeOK /\ ListenerTypeOK

(* The parts of the type invariant that relate a program counter to a buffer *)
HandlerAgrees(c) ==
  /\ hpc[c] = "none" <=> net[c] # "open"
  /\ Len(hbuf[c]) = IF hpc[c] \in {"handle", "node1", "node2"} THEN 1 ELSE 0

ReaderAgrees(c) == Len(rbuf[c]) = IF rpc[c] = "push" THEN 1 ELSE 0

LEMMA AnswersAreFrames ==
  ASSUME NEW m \in Request
  PROVE  /\ CreateResponse(m) \in AppFrame
         /\ CreateCustomResponse(m, "CnNodeNotification") \in AppFrame
BY ResponseTypeIsKind DEF Kinds, Request, AppFrame, CreateResponse, CreateCustomResponse, Actors, Uuids

LEMMA EmptyBuffer == <<>> \in Seq(Request) /\ Len(<<>>) = 0
OBVIOUS

LEMMA WriteToAppType ==
  ASSUME received \in [Conns -> Seq(AppFrame)], NEW c \in Conns, NEW f \in AppFrame,
         WriteToApp(c, f)
  PROVE  received' \in [Conns -> Seq(AppFrame)]
BY DEF WriteToApp

-----------------------------------------------------------------------------
LEMMA ListenerRunType ==
  ASSUME ListenerInv, ListenerRun, ctx' = ctx
  PROVE  ListenerInv'
<1> USE DEF ListenerInv, ListenerTypeOK, readerVars, handlerVars, appsVars, socketVars
<1>1. CASE ListenerShutDown
  BY <1>1, RuntimeUnchangedType DEF ListenerShutDown
<1>2. CASE ListenerDone
  BY <1>2, WgDoneType DEF ListenerDone
<1>3. CASE ListenerAccepting
  BY <1>3, RuntimeUnchangedType DEF ListenerAccepting
<1>4. CASE AcceptTimeout
  BY <1>4, RuntimeUnchangedType DEF AcceptTimeout
<1>5. ASSUME NEW c \in Conns, Accept(c)
      PROVE  ListenerInv'
  <2>1. RuntimeTypeOK'
    BY <1>5, RuntimeUnchangedType DEF Accept
  <2>2. /\ net' \in [Conns -> {"idle", "dialed", "open"}]
        /\ hpc' \in [Conns -> {"none", "insert", "inserting", "select", "handle",
                              "node1", "node2", "again"}]
    BY <1>5 DEF Accept
  <2>3. \A d \in Conns : HandlerAgrees(d)'
    BY <1>5 DEF Accept, HandlerAgrees
  <2> QED
    BY <1>5, <2>1, <2>2, <2>3 DEF Accept, HandlerAgrees
<1> QED
  BY <1>1, <1>2, <1>3, <1>4, <1>5 DEF ListenerRun

LEMMA AppType ==
  ASSUME ListenerInv, NEW c \in Conns, App(c), ctx' = ctx
  PROVE  ListenerInv'
<1> USE DEF ListenerInv, ListenerTypeOK, readerVars, handlerVars, appsVars
<1>0. RuntimeTypeOK'
  BY RuntimeUnchangedType DEF App
<1>1. CASE AppDial(c)
  BY <1>0, <1>1 DEF App, AppDial
<1>2. CASE AppSend(c)
  <2>1. PICK kind \in AppKinds[Len(sent[c]) + 1] :
          sent' = [sent EXCEPT ![c] = Append(@,
                     [app |-> c, n |-> Len(@) + 1, kind |-> kind, src |-> c])]
    BY <1>2 DEF AppSend
  <2>2. kind \in Kinds
    BY <1>2, ListenerAssumption DEF AppSend
  <2>3. [app |-> c, n |-> Len(sent[c]) + 1, kind |-> kind, src |-> c] \in Request
    BY <2>2 DEF Request, Actors, Uuids
  <2>4. sent' \in [Conns -> Seq(Request)]
    BY <2>1, <2>3
  <2> QED
    BY <1>0, <1>2, <2>4 DEF App, AppSend
<1>3. CASE AppClose(c)
  BY <1>0, <1>3 DEF App, AppClose
<1>4. CASE AppStall(c)
  BY <1>0, <1>4 DEF App, AppStall
<1> QED
  BY <1>1, <1>2, <1>3, <1>4 DEF App

LEMMA HandlerType ==
  ASSUME ListenerInv, NEW c \in Conns, Handler(c), ctx' = ctx
  PROVE  ListenerInv'
<1> USE DEF ListenerInv, ListenerTypeOK, readerVars, handlerVars, appsVars, socketVars
<1>1. CASE InsertBegin(c)
  BY <1>1, RuntimeUnchangedType DEF InsertBegin
<1>2. CASE InsertEnd(c)
  <2>1. RuntimeTypeOK'
    BY <1>2, RuntimeUnchangedType DEF InsertEnd
  <2>2. /\ apps' \subseteq Conns
        /\ uuid' \in [Conns -> Uuids]
    <3>1. NoUuid \in Uuids
      BY DEF Uuids
    <3> QED
      BY <1>2, <3>1 DEF InsertEnd
  <2>5. late' \in [Conns -> Nat]
    BY <1>2 DEF InsertEnd
  <2>3. /\ hpc' \in [Conns -> {"none", "insert", "inserting", "select", "handle",
                              "node1", "node2", "again"}]
        /\ rpc' \in [Conns -> {"none", "select", "read", "push", "gone"}]
    BY <1>2 DEF InsertEnd
  <2>4. \A d \in Conns : HandlerAgrees(d)' /\ ReaderAgrees(d)'
    <3> TAKE d \in Conns
    <3>1. CASE d = c
      <4>1. HandlerAgrees(d)'
        <5>1. hpc'[d] \in {"select", "again"} /\ UNCHANGED <<net, hbuf>>
          BY <1>2, <3>1 DEF InsertEnd
        <5>2. net[d] = "open" /\ Len(hbuf[d]) = 0
          BY <1>2, <3>1 DEF InsertEnd
        <5> HIDE DEF ListenerInv, ListenerTypeOK
        <5> QED
          BY <5>1, <5>2 DEF HandlerAgrees
      <4>2. ReaderAgrees(d)'
        BY <1>2, <3>1 DEF InsertEnd, ReaderAgrees
      <4> QED
        BY <4>1, <4>2
    <3>2. CASE d # c
      <4>1. hpc'[d] = hpc[d] /\ rpc'[d] = rpc[d]
        BY <1>2, <3>2 DEF InsertEnd
      <4>2. UNCHANGED <<net, hbuf, rbuf>>
        BY <1>2 DEF InsertEnd
      <4>3. HandlerAgrees(d) /\ ReaderAgrees(d)
        BY DEF HandlerAgrees, ReaderAgrees
      <4> HIDE DEF ListenerInv, ListenerTypeOK
      <4> QED
        BY <4>1, <4>2, <4>3 DEF HandlerAgrees, ReaderAgrees
    <3> QED
      BY <3>1, <3>2
  <2> QED
    BY <1>2, <2>1, <2>2, <2>3, <2>4, <2>5 DEF InsertEnd, HandlerAgrees, ReaderAgrees
<1>3. CASE HandlerDone(c)
  BY <1>3, WgDoneType DEF HandlerDone
<1>4. CASE HandlerTake(c)
  <2> USE <1>4 DEF HandlerTake, HandlerTakeFrom
  <2>1. RuntimeTypeOK'
    BY RuntimeUnchangedType
  <2>2. /\ Head(mch[c]) \in Request
        /\ Tail(mch[c]) \in Seq(Request)
        /\ Len(Tail(mch[c])) <= Cap
    BY ListenerAssumption
  <2>3. hbuf' \in [Conns -> Seq(Request)] /\ mch' \in [Conns -> Seq(Request)]
    <3>1. <<Head(mch[c])>> \in Seq(Request)
      BY <2>2
    <3> QED
      BY <2>2, <3>1
  <2>5. uuid' \in [Conns -> Uuids]
    BY <2>2 DEF Request
  <2>6. hpc' \in [Conns -> {"none", "insert", "inserting", "select", "handle",
                              "node1", "node2", "again"}]
    OBVIOUS
  <2>4. \A d \in Conns : HandlerAgrees(d)' /\ Len(mch'[d]) <= Cap
    BY <2>2 DEF HandlerAgrees
  <2> QED
    BY <2>1, <2>3, <2>4, <2>5, <2>6 DEF HandlerAgrees
<1>5. CASE HandleRegister(c)
  <2> USE <1>5 DEF HandleRegister
  <2>1. RuntimeTypeOK'
    BY RuntimeUnchangedType
  <2>2. hbuf[c][1] \in Request
    OBVIOUS
  <2>3. received' \in [Conns -> Seq(AppFrame)]
    BY <2>2, AnswersAreFrames, WriteToAppType
  <2>4. hbuf' \in [Conns -> Seq(Request)] /\ hbuf'[c] = <<>>
    BY EmptyBuffer
  <2>6. uuid' \in [Conns -> Uuids]
    BY <2>2 DEF Request
  <2>7. hpc' \in [Conns -> {"none", "insert", "inserting", "select", "handle",
                              "node1", "node2", "again"}]
    OBVIOUS
  <2>5. \A d \in Conns : HandlerAgrees(d)'
    BY <2>4 DEF HandlerAgrees
  <2> QED
    BY <2>1, <2>3, <2>4, <2>5, <2>6, <2>7 DEF HandlerAgrees
<1>6. CASE HandleStart(c)
  <2> USE <1>6 DEF HandleStart
  <2>1. RuntimeTypeOK'
    BY RuntimeUnchangedType
  <2>2. hbuf[c][1] \in Request
    OBVIOUS
  <2>3. received' \in [Conns -> Seq(AppFrame)]
    BY <2>2, AnswersAreFrames, WriteToAppType
  <2>4. hpc' \in [Conns -> {"none", "insert", "inserting", "select", "handle",
                              "node1", "node2", "again"}]
    OBVIOUS
  <2>5. \A d \in Conns : HandlerAgrees(d)'
    BY DEF HandlerAgrees
  <2> QED
    BY <2>1, <2>3, <2>4, <2>5 DEF HandlerAgrees
<1>7. CASE NotifyNode(c)
  <2> USE <1>7 DEF NotifyNode
  <2>1. RuntimeTypeOK'
    BY RuntimeUnchangedType
  <2>2. hbuf[c][1] \in Request
    OBVIOUS
  <2>3. received' \in [Conns -> Seq(AppFrame)]
    BY <2>2, AnswersAreFrames, WriteToAppType
  <2>4. hbuf' \in [Conns -> Seq(Request)]
    <3>1. hbuf' = hbuf \/ hbuf' = [hbuf EXCEPT ![c] = <<>>]
      OBVIOUS
    <3>2. hbuf \in [Conns -> Seq(Request)]
      OBVIOUS
    <3> HIDE DEF ListenerInv, ListenerTypeOK, NotifyNode
    <3> QED
      BY <3>1, <3>2, EmptyBuffer
  <2>5. hpc' \in [Conns -> {"none", "insert", "inserting", "select", "handle",
                              "node1", "node2", "again"}]
    OBVIOUS
  <2>6. \A d \in Conns : HandlerAgrees(d)'
    <3> TAKE d \in Conns
    <3>1. CASE d = c
      BY <2>4, <2>5, <3>1, EmptyBuffer DEF HandlerAgrees
    <3>2. CASE d # c
      <4>1. hbuf'[d] = hbuf[d] /\ hpc'[d] = hpc[d]
        BY <3>2
      <4>2. net' = net
        OBVIOUS
      <4>3. HandlerAgrees(d)
        BY DEF HandlerAgrees
      <4> HIDE DEF ListenerInv, ListenerTypeOK, NotifyNode
      <4> QED
        BY <4>1, <4>2, <4>3 DEF HandlerAgrees
    <3> QED
      BY <3>1, <3>2
  <2> QED
    BY <2>1, <2>3, <2>4, <2>5, <2>6 DEF HandlerAgrees
<1>8. CASE HandleForward(c)
  <2> USE <1>8 DEF HandleForward
  <2>1. RuntimeTypeOK'
    BY RuntimeUnchangedType
  <2>2. hbuf[c][1] \in Request
    OBVIOUS
  <2>3. toGateway' \in Seq(Request) /\ Len(toGateway') <= Cap
    BY <2>2, ListenerAssumption
  <2>4. hbuf' \in [Conns -> Seq(Request)]
    BY EmptyBuffer
  <2>5. hpc' \in [Conns -> {"none", "insert", "inserting", "select", "handle",
                              "node1", "node2", "again"}]
    OBVIOUS
  <2>6. \A d \in Conns : HandlerAgrees(d)'
    <3> TAKE d \in Conns
    <3>1. CASE d = c
      BY <2>4, <2>5, <3>1, EmptyBuffer DEF HandlerAgrees
    <3>2. CASE d # c
      BY <2>4, <2>5, <3>2 DEF HandlerAgrees
    <3> QED
      BY <3>1, <3>2
  <2> QED
    BY <2>1, <2>3, <2>4, <2>5, <2>6 DEF HandlerAgrees
<1> QED
  BY <1>1, <1>2, <1>3, <1>4, <1>5, <1>6, <1>7, <1>8 DEF Handler

LEMMA ReaderType ==
  ASSUME ListenerInv, NEW c \in Conns, Reader(c), ctx' = ctx
  PROVE  ListenerInv'
<1> USE DEF ListenerInv, ListenerTypeOK, readerVars, handlerVars, appsVars, socketVars
<1>1. CASE ReaderDone(c)
  BY <1>1, WgDoneType DEF ReaderDone
<1>2. CASE LateReaderDone(c)
  BY <1>2, WgDoneType DEF LateReaderDone
<1>3. CASE ReaderReading(c)
  BY <1>3, RuntimeUnchangedType DEF ReaderReading
<1>4. CASE ReaderRead(c)
  <2> USE <1>4 DEF ReaderRead
  <2>1. RuntimeTypeOK'
    BY RuntimeUnchangedType
  <2>2. sent[c][got[c] + 1] \in Request
    OBVIOUS
  <2>3. /\ rbuf' \in [Conns -> Seq(Request)]
        /\ got' \in [Conns -> Nat]
        /\ rpc' \in [Conns -> {"none", "select", "read", "push", "gone"}]
    BY <2>2
  <2>4. \A d \in Conns : ReaderAgrees(d)'
    BY <2>2 DEF ReaderAgrees
  <2> QED
    BY <2>1, <2>3, <2>4 DEF ReaderAgrees
<1>5. CASE ReaderTimeout(c)
  BY <1>5, RuntimeUnchangedType DEF ReaderTimeout
<1>6. CASE ReaderEof(c)
  BY <1>6, RuntimeUnchangedType DEF ReaderEof
<1>7. CASE ReaderPush(c)
  <2> USE <1>7 DEF ReaderPush
  <2>1. RuntimeTypeOK'
    BY RuntimeUnchangedType
  <2>2. mch[c] \o rbuf[c] \in Seq(Request) /\ Len(mch[c] \o rbuf[c]) <= Cap
    <3>1. Len(rbuf[c]) = 1 /\ Len(mch[c]) \in Nat
      BY LenProperties
    <3>2. mch[c] \in Seq(Request) /\ rbuf[c] \in Seq(Request)
      OBVIOUS
    <3>3. Len(mch[c] \o rbuf[c]) = Len(mch[c]) + 1 /\ mch[c] \o rbuf[c] \in Seq(Request)
      BY <3>1, <3>2, BufferAppended
    <3> QED
      BY <3>1, <3>3, ListenerAssumption
  <2>3. /\ rbuf' \in [Conns -> Seq(Request)]
        /\ mch' \in [Conns -> Seq(Request)]
        /\ rpc' \in [Conns -> {"none", "select", "read", "push", "gone"}]
    BY <2>2
  <2>4. \A d \in Conns : ReaderAgrees(d)' /\ Len(mch'[d]) <= Cap
    BY <2>2 DEF ReaderAgrees
  <2> QED
    BY <2>1, <2>3, <2>4 DEF ReaderAgrees
<1> QED
  BY <1>1, <1>2, <1>3, <1>4, <1>5, <1>6, <1>7 DEF Reader

(* Every step of the app side keeps its types and the runtime's. *)
THEOREM ListenerNextType ==
  ASSUME ListenerInv, ListenerNext, ctx' = ctx
  PROVE  ListenerInv'
BY ListenerRunType, AppType, HandlerType, ReaderType DEF ListenerNext

-----------------------------------------------------------------------------
(* The gateway side *)

(* What every step of the gateway side keeps *)
ClientInv == RuntimeTypeOK /\ ClientTypeOK

LEMMA WriteToGatewayType ==
  ASSUME gwIn \in Seq(Request), NEW m \in Request, WriteToGateway(m)
  PROVE  gwIn' \in Seq(Request)
BY DEF WriteToGateway

LEMMA OwnRequestType ==
  ASSUME NEW n \in Nat,
         NEW kind \in {"RegisterAppRequest", "StartSessionRequest",
                       "CloseSessionRequest", "CnTimeRequest"}
  PROVE  OwnRequest(kind, n) \in Request
BY DEF OwnRequest, Request, Actors, Uuids, Kinds

LEMMA NewSessionType ==
  ASSUME ClientInv, NewSession, ctx' = ctx
  PROVE  ClientInv'
<1> USE DEF ClientInv, ClientTypeOK, linkVars, keepAliveVars, wgVars
<1>0. ASSUME Panic \/ UNCHANGED status, UNCHANGED wgVars \/ WgAdd
      PROVE  RuntimeTypeOK'
  <2>1. ctx' \in BOOLEAN
    BY DEF RuntimeTypeOK
  <2>2. wg' \in Int /\ waiting' = waiting /\ woken' = woken
    BY <1>0 DEF RuntimeTypeOK, WgAdd
  <2>3. status' \in {"running", "exited", "panicked", "thrown"}
    BY <1>0 DEF RuntimeTypeOK, Panic
  <2> QED
    BY <2>1, <2>2, <2>3 DEF RuntimeTypeOK
<1>1. CASE Discover
  BY <1>0, <1>1 DEF Discover
<1>2. CASE Dial
  BY <1>0, <1>2 DEF Dial
<1>3. CASE Register
  BY <1>0, <1>3, OwnRequestType, WriteToGatewayType DEF Register
<1>4. CASE RegisterConfirm
  BY <1>0, <1>4 DEF RegisterConfirm
<1>5. CASE Start
  BY <1>0, <1>5, OwnRequestType, WriteToGatewayType DEF Start
<1>6. CASE StartConfirm
  BY <1>0, <1>6 DEF StartConfirm
<1> QED
  BY <1>1, <1>2, <1>3, <1>4, <1>5, <1>6 DEF NewSession

LEMMA ClientLoopType ==
  ASSUME ClientInv, ClientLoop, ctx' = ctx
  PROVE  ClientInv'
<1> USE DEF ClientInv, ClientTypeOK, linkVars, keepAliveVars
<1>1. CASE ClientClosing
  BY <1>1, RuntimeUnchangedType, OwnRequestType, WriteToGatewayType DEF ClientClosing
<1>2. CASE ClientDone
  BY <1>2, WgDoneType DEF ClientDone
<1>3. CASE ClientTake
  <2> USE <1>3 DEF ClientTake
  <2>1. RuntimeTypeOK'
    BY RuntimeUnchangedType
  <2>2. Masquerade(Head(toClient)) \in Request
    <3>1. Head(toClient) \in Request /\ Self \in Uuids
      BY DEF Actors, Uuids
    <3> QED
      BY <3>1 DEF Masquerade, Request
  <2>3. Tail(toClient) \in Seq(Request) /\ Len(Tail(toClient)) <= ClientCap
    BY ClientAssumption
  <2> QED
    BY <2>1, <2>2, <2>3
<1>4. CASE ClientSend
  <2> USE <1>4 DEF ClientSend
  <2>1. RuntimeTypeOK'
    BY RuntimeUnchangedType
  <2>2. gwIn' \in Seq(Request)
    <3>1. cbuf[1] \in Request
      BY BufferElement
    <3> QED
      BY <3>1, WriteToGatewayType
  <2> QED
    BY <2>1, <2>2
<1>5. CASE ClientReceiving
  BY <1>5, RuntimeUnchangedType DEF ClientReceiving
<1>6. CASE ClientReceive
  BY <1>6, RuntimeUnchangedType DEF ClientReceive
<1>7. CASE ClientTimeout
  BY <1>7, RuntimeUnchangedType DEF ClientTimeout
<1>8. CASE ClientLost
  BY <1>8, RuntimeUnchangedType DEF ClientLost
<1>9. CASE ClientPush
  <2> USE <1>9 DEF ClientPush
  <2>1. RuntimeTypeOK'
    BY RuntimeUnchangedType
  <2>2. fromGateway' \in Seq(GatewayFrame) /\ Len(fromGateway') = Len(fromGateway) + 1
    BY BufferAppended
  <2> QED
    BY <2>1, <2>2, ClientAssumption
<1> QED
  BY <1>1, <1>2, <1>3, <1>4, <1>5, <1>6, <1>7, <1>8, <1>9 DEF ClientLoop

LEMMA KeepAliveType ==
  ASSUME ClientInv, KeepAlive, ctx' = ctx
  PROVE  ClientInv'
<1> USE DEF ClientInv, ClientTypeOK, linkVars
<1>1. CASE KeepAliveTick
  <2> USE <1>1 DEF KeepAliveTick
  <2>1. RuntimeTypeOK'
    BY RuntimeUnchangedType
  <2>2. gwIn' \in Seq(Request)
    BY OwnRequestType, WriteToGatewayType, ClientAssumption
  <2>3. kref' \in 1..MaxRef /\ ticks' \in 0..MaxTicks
    BY ClientAssumption DEF NextRef
  <2> QED
    BY <2>1, <2>2, <2>3
<1>2. CASE KeepAliveDone
  BY <1>2, WgDoneType DEF KeepAliveDone
<1> QED
  BY <1>1, <1>2 DEF KeepAlive

LEMMA GatewayType ==
  ASSUME ClientInv, Gateway, ctx' = ctx
  PROVE  ClientInv'
<1> USE DEF ClientInv, ClientTypeOK, keepAliveVars
<1>0. RuntimeTypeOK'
  BY RuntimeUnchangedType DEF Gateway
<1>1. CASE GatewayAnswer
  <2>1. gwIn[gwSeen + 1] \in Request
    BY <1>1 DEF GatewayAnswer
  <2>2. [seq |-> Len(gwOut) + 1, app |-> gwIn[gwSeen + 1].app, n |-> gwIn[gwSeen + 1].n,
         kind |-> ResponseTypeFor(gwIn[gwSeen + 1].kind)] \in GatewayFrame
    <3> HIDE DEF ClientInv, ClientTypeOK
    <3>1. Len(gwOut) + 1 \in Nat
      BY DEF ClientInv, ClientTypeOK
    <3>2. gwIn[gwSeen + 1].app \in Actors /\ gwIn[gwSeen + 1].n \in Nat
      BY <2>1 DEF Request
    <3>3. ResponseTypeFor(gwIn[gwSeen + 1].kind) \in Kinds
      BY ResponseTypeIsKind
    <3> QED
      BY <3>1, <3>2, <3>3 DEF GatewayFrame
  <2> QED
    BY <1>0, <1>1, <2>2 DEF Gateway, GatewayAnswer
<1>2. CASE GatewayNotify
  <2>1. [seq |-> Len(gwOut) + 1, app |-> Self, n |-> 0,
         kind |-> "CnRpdoNotification"] \in GatewayFrame
    BY DEF GatewayFrame, Actors, Kinds
  <2> QED
    BY <1>0, <1>2, <2>1 DEF Gateway, GatewayNotify
<1>3. CASE GatewayDrop
  BY <1>0, <1>3 DEF Gateway, GatewayDrop
<1> QED
  BY <1>1, <1>2, <1>3 DEF Gateway

(* Every step of the gateway side keeps its types and the runtime's. *)
THEOREM ClientNextType ==
  ASSUME ClientInv, ClientNext, ctx' = ctx
  PROVE  ClientInv'
BY NewSessionType, ClientLoopType, KeepAliveType, GatewayType DEF ClientNext

-----------------------------------------------------------------------------
(* main, Proxy.Run and the composition *)

(* The part of the type invariant about main and Proxy.Run *)
ProxyTypeOK ==
  /\ mpc \in {"run", "cancelled", "wait"}
  /\ ppc \in {"none", "startListener", "select", "forward", "copy", "write",
              "wait", "returned"}
  /\ pbuf \in Seq(Request)
  /\ Len(pbuf) = IF ppc = "forward" THEN 1 ELSE 0
  /\ pdown \in Seq(GatewayFrame)
  /\ Len(pdown) = IF ppc \in {"copy", "write"} THEN 1 ELSE 0
  /\ pto \in Seq([conn : Conns, dst : Uuids])
  /\ Len(pto) = IF ppc = "write" THEN 1 ELSE 0
  /\ todo \subseteq Conns
  /\ visited \subseteq Conns

(* The client's goroutine is Proxy.Run's to start *)
ClientStarted == ppc = "none" => cpc = "none"

LEMMA TypeParts ==
  TypeOK <=> RuntimeTypeOK /\ ListenerTypeOK /\ ClientTypeOK /\ ProxyTypeOK /\ ClientStarted
BY DEF TypeOK, ProxyTypeOK, ClientStarted

LEMMA TypePartsPrimed ==
  (RuntimeTypeOK /\ ListenerTypeOK /\ ClientTypeOK /\ ProxyTypeOK /\ ClientStarted)' => TypeOK'
BY DEF TypeOK, ProxyTypeOK, ClientStarted

LEMMA InitType == ASSUME Init PROVE TypeOK
<1> USE DEF Init
<1>1. RuntimeTypeOK
  <2>1. ctx \in BOOLEAN
    BY DEF RuntimeInit
  <2> QED
    BY <2>1 DEF RuntimeInit, RuntimeTypeOK, Waiters
<1>2. ListenerTypeOK
  BY ListenerAssumption DEF ListenerInit, ListenerTypeOK, Uuids
<1>3. ClientTypeOK
  BY ClientAssumption DEF ClientInit, ClientTypeOK
<1>4. ProxyTypeOK
  BY DEF ProxyTypeOK
<1> QED
  BY <1>1, <1>2, <1>3, <1>4, TypeParts DEF ClientStarted, ClientInit

(* A component's types depend on its own variables only *)
LEMMA ListenerUnchangedType ==
  ASSUME ListenerTypeOK, UNCHANGED listenerVars PROVE ListenerTypeOK'
BY DEF ListenerTypeOK, listenerVars

LEMMA ClientUnchangedType ==
  ASSUME ClientTypeOK, UNCHANGED clientVars PROVE ClientTypeOK'
BY DEF ClientTypeOK, clientVars

LEMMA ProxyUnchangedType ==
  ASSUME ProxyTypeOK, UNCHANGED proxyVars PROVE ProxyTypeOK'
BY DEF ProxyTypeOK, proxyVars

-----------------------------------------------------------------------------
LEMMA StartedStays ==
  ASSUME ClientStarted, [Next]_vars PROVE ClientStarted'
<1>1. CASE ListenerNext /\ UNCHANGED <<ctx, clientVars, proxyVars>>
  BY <1>1 DEF ClientStarted, clientVars, proxyVars
<1>2. CASE ClientNext /\ UNCHANGED <<ctx, listenerVars, proxyVars>>
  <2>1. ppc' = ppc
    BY <1>2 DEF proxyVars
  <2>2. cpc = "none" => cpc' = "none"
    BY <1>2 DEF ClientNext, NewSession, Discover, Dial, Register, RegisterConfirm, Start,
       StartConfirm, ClientLoop, ClientClosing, ClientDone, ClientTake, ClientSend,
       ClientReceiving, ClientReceive, ClientTimeout, ClientLost, ClientPush, KeepAlive,
       KeepAliveTick, KeepAliveDone, Gateway
  <2> QED
    BY <2>1, <2>2 DEF ClientStarted
<1>3. CASE ProxyRun
  BY <1>3 DEF ClientStarted, ProxyRun, RunClient, RunListener, ProxyShutDown, ProxyReturn,
     ProxyTakeUp, ProxyForward, ProxyTakeDown, ProxyAddress, ProxyWrite, ProxyCopied
<1>4. CASE Main
  BY <1>4 DEF ClientStarted, Main, Interrupt, MainWait, MainExit, clientVars, proxyVars
<1>5. CASE Throw \/ UNCHANGED vars
  BY <1>5 DEF ClientStarted, Throw, vars, clientVars, proxyVars
<1> QED
  BY <1>1, <1>2, <1>3, <1>4, <1>5 DEF Next, Over

LEMMA MainType ==
  ASSUME TypeOK, Main, ClientStarted' PROVE TypeOK'
<1> USE TypeParts, TypePartsPrimed
<1>1. CASE Interrupt
  <2>1. RuntimeTypeOK'
    BY <1>1 DEF Interrupt, RuntimeTypeOK, wgVars
  <2>2. ProxyTypeOK'
    BY <1>1 DEF Interrupt, ProxyTypeOK
  <2> QED
    BY <1>1, <2>1, <2>2, ListenerUnchangedType, ClientUnchangedType DEF Interrupt
<1>2. CASE MainWait
  <2>1. ctx' \in BOOLEAN
    BY <1>2 DEF MainWait, RuntimeTypeOK
  <2>2. RuntimeTypeOK'
    BY <1>2, <2>1 DEF MainWait, RuntimeTypeOK, Waiters
  <2>3. ProxyTypeOK'
    BY <1>2 DEF MainWait, ProxyTypeOK
  <2> QED
    BY <1>2, <2>2, <2>3, ListenerUnchangedType, ClientUnchangedType DEF MainWait
<1>3. CASE MainExit
  <2>1. ctx' \in BOOLEAN
    BY <1>3 DEF MainExit, RuntimeTypeOK
  <2>2. RuntimeTypeOK'
    BY <1>3, <2>1 DEF MainExit, RuntimeTypeOK
  <2> QED
    BY <1>3, <2>2, ListenerUnchangedType, ClientUnchangedType, ProxyUnchangedType DEF MainExit
<1> QED
  BY <1>1, <1>2, <1>3 DEF Main

LEMMA ProxyRunType ==
  ASSUME TypeOK, ProxyRun, ClientStarted' PROVE TypeOK'
<1> USE TypeParts, TypePartsPrimed
<1>0. ASSUME UNCHANGED runtimeVars PROVE RuntimeTypeOK'
  BY <1>0, RuntimeUnchangedType DEF runtimeVars, wgVars
<1>1. CASE RunClient
  <2> USE <1>1 DEF RunClient
  <2>1. ctx' \in BOOLEAN
    BY DEF RuntimeTypeOK
  <2>2. RuntimeTypeOK'
    BY <2>1 DEF RuntimeTypeOK, WgAdd
  <2>3. ClientTypeOK'
    BY DEF ClientTypeOK, ClientStarted, linkVars, keepAliveVars
  <2>4. ProxyTypeOK'
    BY DEF ProxyTypeOK
  <2> QED
    BY <2>2, <2>3, <2>4, ListenerUnchangedType
<1>2. CASE RunListener
  <2> USE <1>2 DEF RunListener
  <2>1. ctx' \in BOOLEAN
    BY DEF RuntimeTypeOK
  <2>2. RuntimeTypeOK'
    BY <2>1 DEF RuntimeTypeOK, WgAdd
  <2>3. ListenerTypeOK'
    BY DEF ListenerTypeOK, socketVars, readerVars, handlerVars, appsVars
  <2>4. ProxyTypeOK'
    BY DEF ProxyTypeOK
  <2> QED
    BY <2>2, <2>3, <2>4, ClientUnchangedType
<1>3. CASE ProxyShutDown
  <2> USE <1>3 DEF ProxyShutDown
  <2>1. ctx' \in BOOLEAN
    BY DEF RuntimeTypeOK
  <2>2. RuntimeTypeOK'
    BY <2>1 DEF RuntimeTypeOK, Waiters
  <2>3. ProxyTypeOK'
    BY DEF ProxyTypeOK
  <2> QED
    BY <2>2, <2>3, ListenerUnchangedType, ClientUnchangedType
<1>4. CASE ProxyReturn
  <2> USE <1>4 DEF ProxyReturn
  <2>1. ctx' \in BOOLEAN
    BY DEF RuntimeTypeOK
  <2>2. RuntimeTypeOK'
    BY <2>1 DEF RuntimeTypeOK
  <2>3. ProxyTypeOK'
    BY DEF ProxyTypeOK, RuntimeTypeOK
  <2> QED
    BY <2>2, <2>3, ListenerUnchangedType, ClientUnchangedType
<1>5. CASE ProxyTakeUp
  <2> USE <1>5 DEF ProxyTakeUp
  <2>1. /\ Head(toGateway) \in Request
        /\ Tail(toGateway) \in Seq(Request)
        /\ Len(Tail(toGateway)) <= Cap
    BY ListenerAssumption DEF ListenerTypeOK
  <2>2. ListenerTypeOK'
    BY <2>1 DEF ListenerTypeOK, socketVars, readerVars, handlerVars, appsVars
  <2>3. pbuf' \in Seq(Request) /\ Len(pbuf') = 1
    BY <2>1
  <2>4. ProxyTypeOK'
    BY <2>3 DEF ProxyTypeOK
  <2> QED
    BY <1>0, <2>2, <2>4, ClientUnchangedType
<1>6. CASE ProxyForward
  <2> USE <1>6 DEF ProxyForward
  <2>1. toClient' \in Seq(Request) /\ Len(toClient') = Len(toClient) + 1
    BY BufferAppended DEF ClientTypeOK, ProxyTypeOK
  <2>2. ClientTypeOK'
    BY <2>1, ClientAssumption DEF ClientTypeOK, linkVars, keepAliveVars
  <2>3. ProxyTypeOK'
    BY DEF ProxyTypeOK
  <2> QED
    BY <1>0, <2>2, <2>3, ListenerUnchangedType
<1>7. CASE ProxyTakeDown
  <2> USE <1>7 DEF ProxyTakeDown
  <2>1. /\ Head(fromGateway) \in GatewayFrame
        /\ Tail(fromGateway) \in Seq(GatewayFrame)
        /\ Len(Tail(fromGateway)) <= ClientCap
    BY ClientAssumption DEF ClientTypeOK
  <2>2. ClientTypeOK'
    BY <2>1 DEF ClientTypeOK, linkVars, keepAliveVars
  <2>3. ProxyTypeOK'
    BY <2>1 DEF ProxyTypeOK, ListenerTypeOK
  <2> QED
    BY <1>0, <2>2, <2>3, ListenerUnchangedType
<1>8. ASSUME NEW c \in Conns, ProxyAddress(c)
      PROVE  TypeOK'
  <2> USE <1>8 DEF ProxyAddress
  <2>1. [conn |-> c, dst |-> uuid[c]] \in [conn : Conns, dst : Uuids]
    BY DEF ListenerTypeOK
  <2>2. ProxyTypeOK'
    BY <2>1 DEF ProxyTypeOK
  <2> QED
    BY <1>0, <2>2, ListenerUnchangedType, ClientUnchangedType
<1>9. CASE ProxyWrite
  <2> USE <1>9 DEF ProxyWrite
  <2>1. pto[1] \in [conn : Conns, dst : Uuids] /\ pdown[1] \in GatewayFrame
    BY BufferElement DEF ProxyTypeOK
  <2>2. AddressTo(pdown[1], pto[1].dst) \in AppFrame
    BY <2>1 DEF AddressTo, AppFrame, GatewayFrame
  <2>3. received' \in [Conns -> Seq(AppFrame)]
    BY <2>1, <2>2, WriteToAppType DEF ListenerTypeOK
  <2>4. ListenerTypeOK'
    BY <2>3 DEF ListenerTypeOK, readerVars, handlerVars, appsVars
  <2>5. ProxyTypeOK'
    BY DEF ProxyTypeOK
  <2> QED
    BY <1>0, <2>4, <2>5, ClientUnchangedType
<1>10. CASE ProxyCopied
  <2>1. ProxyTypeOK'
    BY <1>10 DEF ProxyCopied, ProxyTypeOK
  <2> QED
    BY <1>0, <1>10, <2>1, ListenerUnchangedType, ClientUnchangedType DEF ProxyCopied
<1> QED
  BY <1>1, <1>2, <1>3, <1>4, <1>5, <1>6, <1>7, <1>8, <1>9, <1>10 DEF ProxyRun

LEMMA NextType ==
  ASSUME TypeOK, [Next]_vars PROVE TypeOK'
<1> USE TypeParts, TypePartsPrimed
<1>0. ClientStarted'
  BY StartedStays
<1>1. CASE ListenerNext /\ UNCHANGED <<ctx, clientVars, proxyVars>>
  BY <1>0, <1>1, ListenerNextType, ClientUnchangedType, ProxyUnchangedType DEF ListenerInv
<1>2. CASE ClientNext /\ UNCHANGED <<ctx, listenerVars, proxyVars>>
  BY <1>0, <1>2, ClientNextType, ListenerUnchangedType, ProxyUnchangedType DEF ClientInv
<1>3. CASE Throw
  <2>1. ctx' \in BOOLEAN
    BY <1>3 DEF Throw, RuntimeTypeOK
  <2>2. RuntimeTypeOK'
    BY <1>3, <2>1 DEF Throw, RuntimeTypeOK, wgVars
  <2> QED
    BY <1>0, <1>3, <2>2, ListenerUnchangedType, ClientUnchangedType, ProxyUnchangedType DEF Throw
<1>4. CASE UNCHANGED vars
  BY <1>0, <1>4, RuntimeUnchangedType, ListenerUnchangedType, ClientUnchangedType,
     ProxyUnchangedType DEF vars, runtimeVars, wgVars
<1> QED
  BY <1>0, <1>1, <1>2, <1>3, <1>4, MainType, ProxyRunType DEF Next, Over

(* Every variable keeps its type, no channel ever holds more than its      *)
(* capacity, and a goroutine holds a message exactly when its program      *)
(* counter says so.                                                        *)
THEOREM TypeCorrect == Spec => []TypeOK
<1>1. Init => TypeOK
  BY InitType
<1>2. TypeOK /\ [Next]_vars => TypeOK'
  BY NextType
<1> QED
  BY <1>1, <1>2, PTL DEF Spec

-----------------------------------------------------------------------------
(* What the gateway sees *)

LEMMA AppendKeepsNothingLocal ==
  ASSUME NEW q \in Seq(Request), NEW m \in Request, NothingLocal(q), ~IsLocal(m)
  PROVE  NothingLocal(Append(q, m))
<1> SUFFICES ASSUME NEW i \in 1..Len(Append(q, m)) PROVE ~IsLocal(Append(q, m)[i])
  BY DEF NothingLocal
<1>1. CASE i \in 1..Len(q)
  <2>1. Append(q, m)[i] = q[i]
    BY <1>1
  <2> QED
    BY <1>1, <2>1 DEF NothingLocal
<1>2. CASE i = Len(q) + 1
  <2>1. Append(q, m)[i] = m
    BY <1>2
  <2> QED
    BY <2>1
<1> QED
  BY <1>1, <1>2

LEMMA TailKeepsNothingLocal ==
  ASSUME NEW q \in Seq(Request), q # <<>>, NothingLocal(q)
  PROVE  NothingLocal(Tail(q)) /\ ~IsLocal(Head(q))
<1>1. ~IsLocal(Head(q))
  <2>1. 1 \in 1..Len(q) /\ Head(q) = q[1]
    OBVIOUS
  <2> QED
    BY <2>1 DEF NothingLocal
<1>2. NothingLocal(Tail(q))
  <2> SUFFICES ASSUME NEW i \in 1..Len(Tail(q)) PROVE ~IsLocal(Tail(q)[i])
    BY DEF NothingLocal
  <2>1. Tail(q)[i] = q[i + 1] /\ i + 1 \in 1..Len(q)
    OBVIOUS
  <2> QED
    BY <2>1 DEF NothingLocal
<1> QED
  BY <1>1, <1>2

LEMMA BufferKeepsNothingLocal ==
  ASSUME NEW q \in Seq(Request), NEW buf \in Seq(Request), Len(buf) = 1,
         NothingLocal(q), NothingLocal(buf)
  PROVE  NothingLocal(q \o buf)
<1> SUFFICES ASSUME NEW i \in 1..Len(q \o buf) PROVE ~IsLocal((q \o buf)[i])
  BY DEF NothingLocal
<1>1. Len(q \o buf) = Len(q) + 1
  BY BufferAppended
<1>2. (q \o buf)[i] = IF i <= Len(q) THEN q[i] ELSE buf[i - Len(q)]
  BY <1>1
<1>3. CASE i <= Len(q)
  BY <1>2, <1>3 DEF NothingLocal
<1>4. CASE i = Len(q) + 1
  BY <1>2, <1>4 DEF NothingLocal
<1> QED
  BY <1>1, <1>3, <1>4

(* What the proxy writes after the handshake does not disturb the gateway's view *)
LEMMA WriteKeepsOneClient ==
  ASSUME gwIn \in Seq(Request), GatewaySeesOneClient,
         link = "up" => Len(gwIn) >= 2,
         NEW m \in Request, ~IsLocal(m), m.src = Self, WriteToGateway(m)
  PROVE  GatewaySeesOneClient' /\ (link = "up" => Len(gwIn') >= 2)
<1>1. CASE link # "up"
  BY <1>1 DEF WriteToGateway, GatewaySeesOneClient
<1>2. CASE link = "up"
  <2>1. gwIn' = Append(gwIn, m) /\ Len(gwIn') = Len(gwIn) + 1
    BY <1>2 DEF WriteToGateway
  <2>2. ASSUME NEW i \in 1..Len(gwIn')
        PROVE  /\ gwIn'[i].src = Self
               /\ gwIn'[i].kind = "RegisterAppRequest" <=> i = 1
               /\ gwIn'[i].kind = "StartSessionRequest" <=> i = 2
               /\ i <= 2 => gwIn'[i].app = Self
    <3>1. CASE i \in 1..Len(gwIn)
      <4>1. gwIn'[i] = gwIn[i]
        BY <2>1, <3>1
      <4> QED
        BY <3>1, <4>1 DEF GatewaySeesOneClient
    <3>2. CASE i = Len(gwIn) + 1
      <4>1. gwIn'[i] = m /\ i > 2
        BY <1>2, <2>1, <3>2
      <4> QED
        BY <4>1 DEF IsLocal
    <3> QED
      BY <2>1, <3>1, <3>2
  <2> QED
    BY <1>2, <2>1, <2>2 DEF GatewaySeesOneClient
<1> QED
  BY <1>1, <1>2

LEMMA InitOneClient == ASSUME Init PROVE OneClientInv
BY DEF Init, ListenerInit, ClientInit, OneClientInv, GatewaySeesOneClient,
   HandshakeProgress, NothingLocal

LEMMA OneClientUnchanged ==
  ASSUME OneClientInv,
         UNCHANGED <<link, gwIn, cpc, kpc, cbuf, toClient, pbuf, toGateway>>
  PROVE  OneClientInv'
BY DEF OneClientInv, GatewaySeesOneClient, HandshakeProgress, NothingLocal

(* The app side touches the proxy loop's channel in one step only: with a  *)
(* message that is not answered locally.                                   *)
LEMMA ListenerForwardsNothingLocal ==
  ASSUME ListenerTypeOK, ListenerNext, NothingLocal(toGateway)
  PROVE  NothingLocal(toGateway)'
<1>1. ASSUME NEW c \in Conns, HandleForward(c) PROVE NothingLocal(toGateway)'
  <2>1. hbuf[c][1] \in Request
    BY <1>1, BufferElement DEF HandleForward, ListenerTypeOK
  <2> QED
    BY <1>1, <2>1, AppendKeepsNothingLocal DEF HandleForward, ListenerTypeOK, NothingLocal
<1>2. CASE toGateway' = toGateway
  BY <1>2 DEF NothingLocal
<1>3. CASE ListenerRun
  <2>1. toGateway' = toGateway
    BY <1>3 DEF ListenerRun, ListenerShutDown, ListenerDone, ListenerAccepting, AcceptTimeout,
       Accept
  <2> QED
    BY <1>2, <2>1
<1>4. ASSUME NEW c \in Conns, App(c) PROVE toGateway' = toGateway
  BY <1>4 DEF App
<1>5. ASSUME NEW c \in Conns, Handler(c), ~HandleForward(c) PROVE toGateway' = toGateway
  BY <1>5 DEF Handler, InsertBegin, InsertEnd, HandlerDone, HandlerTake, HandlerTakeFrom,
     HandleRegister, HandleStart, NotifyNode
<1>6. ASSUME NEW c \in Conns, Reader(c) PROVE toGateway' = toGateway
  BY <1>6 DEF Reader, ReaderDone, LateReaderDone, ReaderReading, ReaderRead, ReaderTimeout,
     ReaderEof, ReaderPush
<1> QED
  BY <1>1, <1>2, <1>3, <1>4, <1>5, <1>6 DEF ListenerNext

LEMMA ListenerOneClient ==
  ASSUME TypeOK, OneClientInv, ListenerNext, UNCHANGED <<clientVars, proxyVars>>
  PROVE  OneClientInv'
<1>1. NothingLocal(toGateway)'
  BY ListenerForwardsNothingLocal DEF TypeOK, OneClientInv
<1> QED
  BY <1>1 DEF OneClientInv, GatewaySeesOneClient, HandshakeProgress, NothingLocal,
     clientVars, proxyVars

(* What the handshake has left to the steps after it *)
LEMMA HandshakeOver ==
  ASSUME OneClientInv, cpc \notin Handshake
  PROVE  link = "up" => Len(gwIn) >= 2
BY DEF OneClientInv, HandshakeProgress

(* A write of a message of the proxy's own during the handshake *)
LEMMA HandshakeWrite ==
  ASSUME gwIn \in Seq(Request), GatewaySeesOneClient, link = "up",
         NEW kind \in {"RegisterAppRequest", "StartSessionRequest"}, NEW n \in Nat,
         Len(gwIn) = (IF kind = "RegisterAppRequest" THEN 0 ELSE 1),
         WriteToGateway(OwnRequest(kind, n))
  PROVE  GatewaySeesOneClient' /\ Len(gwIn') = Len(gwIn) + 1
<1>1. gwIn' = Append(gwIn, OwnRequest(kind, n)) /\ Len(gwIn') = Len(gwIn) + 1
  BY DEF WriteToGateway
<1>2. ASSUME NEW i \in 1..Len(gwIn')
      PROVE  /\ gwIn'[i].src = Self
             /\ gwIn'[i].kind = "RegisterAppRequest" <=> i = 1
             /\ gwIn'[i].kind = "StartSessionRequest" <=> i = 2
             /\ i <= 2 => gwIn'[i].app = Self
  <2>1. CASE i \in 1..Len(gwIn)
    <3>1. gwIn'[i] = gwIn[i]
      BY <1>1, <2>1
    <3> QED
      BY <2>1, <3>1 DEF GatewaySeesOneClient
  <2>2. CASE i = Len(gwIn) + 1
    <3>1. gwIn'[i] = OwnRequest(kind, n)
      BY <1>1, <2>2
    <3> QED
      BY <2>2, <3>1 DEF OwnRequest
  <2> QED
    BY <1>1, <2>1, <2>2
<1> QED
  BY <1>1, <1>2 DEF GatewaySeesOneClient

LEMMA NewSessionOneClient ==
  ASSUME TypeOK, OneClientInv, NewSession, UNCHANGED <<toGateway, pbuf>>
  PROVE  OneClientInv'
<1> USE DEF OneClientInv, NothingLocal
<1>0. gwIn \in Seq(Request) /\ Len(gwIn) \in Nat
  BY DEF TypeOK, ClientTypeOK
<1>1. CASE Discover
  BY <1>1 DEF Discover, linkVars, keepAliveVars, HandshakeProgress, GatewaySeesOneClient, Handshake
<1>2. CASE Dial
  <2>1. HandshakeProgress'
    BY <1>2 DEF Dial, keepAliveVars, HandshakeProgress, Handshake
  <2> QED
    BY <1>2, <2>1 DEF Dial, keepAliveVars, GatewaySeesOneClient
<1>3. CASE Register
  <2>1. CASE link = "up"
    <3>1. GatewaySeesOneClient' /\ Len(gwIn') = 1
      BY <1>0, <1>3, <2>1, HandshakeWrite DEF Register, HandshakeProgress
    <3>2. HandshakeProgress'
      BY <1>3, <3>1 DEF Register, keepAliveVars, HandshakeProgress, Handshake
    <3> QED
      BY <1>3, <3>1, <3>2 DEF Register
  <2>2. CASE link # "up"
    <3>1. gwIn' = gwIn
      BY <1>3, <2>2 DEF Register, WriteToGateway
    <3> QED
      BY <1>3, <2>2, <3>1 DEF Register, keepAliveVars, HandshakeProgress, Handshake,
         GatewaySeesOneClient
  <2> QED
    BY <2>1, <2>2
<1>4. CASE RegisterConfirm
  <2>1. HandshakeProgress'
    BY <1>4 DEF RegisterConfirm, keepAliveVars, HandshakeProgress, Handshake
  <2> QED
    BY <1>4, <2>1 DEF RegisterConfirm, keepAliveVars, GatewaySeesOneClient
<1>5. CASE Start
  <2>1. CASE link = "up"
    <3>0. Len(gwIn) = 1 /\ WriteToGateway(OwnRequest("StartSessionRequest", 2))
      BY <1>5, <2>1 DEF Start, HandshakeProgress
    <3>1. GatewaySeesOneClient' /\ Len(gwIn') = 2
      BY <1>0, <2>1, <3>0, HandshakeWrite
    <3>2. HandshakeProgress'
      BY <1>5, <3>1 DEF Start, keepAliveVars, HandshakeProgress, Handshake
    <3> QED
      BY <1>5, <3>1, <3>2 DEF Start
  <2>2. CASE link # "up"
    <3>1. gwIn' = gwIn
      BY <1>5, <2>2 DEF Start, WriteToGateway
    <3> QED
      BY <1>5, <2>2, <3>1 DEF Start, keepAliveVars, HandshakeProgress, Handshake,
         GatewaySeesOneClient
  <2> QED
    BY <2>1, <2>2
<1>6. CASE StartConfirm
  <2>1. HandshakeProgress'
    BY <1>0, <1>6 DEF StartConfirm, HandshakeProgress, Handshake
  <2> QED
    BY <1>6, <2>1 DEF StartConfirm, GatewaySeesOneClient
<1> QED
  BY <1>1, <1>2, <1>3, <1>4, <1>5, <1>6 DEF NewSession

LEMMA ClientLoopOneClient ==
  ASSUME TypeOK, OneClientInv, ClientLoop, UNCHANGED <<toGateway, pbuf>>
  PROVE  OneClientInv'
<1> USE DEF OneClientInv
<1>0. /\ gwIn \in Seq(Request)
      /\ toClient \in Seq(Request)
      /\ cbuf \in Seq(Request)
      /\ Len(cbuf) = IF cpc = "send" THEN 1 ELSE 0
  BY DEF TypeOK, ClientTypeOK
<1>1. CASE ClientClosing
  <2>1. cpc \notin Handshake /\ cpc' \notin Handshake
    BY <1>1 DEF ClientClosing, Handshake
  <2>2. LET m == OwnRequest("CloseSessionRequest", 1)
        IN m \in Request /\ ~IsLocal(m) /\ m.src = Self
    BY DEF OwnRequest, Request, Actors, Uuids, Kinds, IsLocal
  <2>3. GatewaySeesOneClient' /\ (link = "up" => Len(gwIn') >= 2)
    BY <1>0, <1>1, <2>1, <2>2, HandshakeOver, WriteKeepsOneClient DEF ClientClosing
  <2>4. HandshakeProgress'
    BY <1>1, <2>1, <2>3 DEF ClientClosing, keepAliveVars, HandshakeProgress, Handshake
  <2> QED
    BY <1>1, <2>3, <2>4 DEF ClientClosing, NothingLocal
<1>2. CASE ClientDone
  <2>1. HandshakeProgress'
    BY <1>2 DEF ClientDone, keepAliveVars, HandshakeProgress, Handshake
  <2> QED
    BY <1>2, <2>1 DEF ClientDone, GatewaySeesOneClient, NothingLocal
<1>3. CASE ClientTake
  <2>1. NothingLocal(Tail(toClient)) /\ ~IsLocal(Head(toClient)) /\ Head(toClient) \in Request
    BY <1>0, <1>3, TailKeepsNothingLocal DEF ClientTake
  <2>2. ~IsLocal(Masquerade(Head(toClient))) /\ Masquerade(Head(toClient)).src = Self
    BY <2>1 DEF Masquerade, IsLocal, Request
  <2>3. /\ NothingLocal(cbuf')
        /\ \A i \in 1..Len(cbuf') : cbuf'[i].src = Self
    BY <1>3, <2>2 DEF ClientTake, NothingLocal
  <2>4. HandshakeProgress' /\ GatewaySeesOneClient'
    BY <1>3 DEF ClientTake, linkVars, keepAliveVars, HandshakeProgress, Handshake,
       GatewaySeesOneClient
  <2> QED
    BY <1>3, <2>1, <2>3, <2>4 DEF ClientTake, NothingLocal
<1>4. CASE ClientSend
  <2>1. cpc \notin Handshake /\ cpc' \notin Handshake
    BY <1>4 DEF ClientSend, Handshake
  <2>2. cbuf[1] \in Request /\ ~IsLocal(cbuf[1]) /\ cbuf[1].src = Self
    BY <1>0, <1>4, BufferElement DEF ClientSend, NothingLocal
  <2>3. GatewaySeesOneClient' /\ (link = "up" => Len(gwIn') >= 2)
    BY <1>0, <1>4, <2>1, <2>2, HandshakeOver, WriteKeepsOneClient DEF ClientSend
  <2>4. HandshakeProgress'
    BY <1>4, <2>1, <2>3 DEF ClientSend, keepAliveVars, HandshakeProgress, Handshake
  <2> QED
    BY <1>4, <2>3, <2>4 DEF ClientSend, NothingLocal
<1>5. CASE ClientReceiving \/ ClientReceive \/ ClientTimeout \/ ClientLost \/ ClientPush
  <2>1. /\ UNCHANGED <<gwIn, kpc, cbuf, toClient>>
        /\ link' = "up" => link = "up"
    BY <1>5 DEF ClientReceiving, ClientReceive, ClientTimeout, ClientLost, ClientPush,
       linkVars, keepAliveVars
  <2>2. cpc \notin Handshake /\ cpc' \notin Handshake
    BY <1>5 DEF ClientReceiving, ClientReceive, ClientTimeout, ClientLost, ClientPush,
       Handshake
  <2>3. HandshakeProgress' /\ GatewaySeesOneClient'
    BY <2>1, <2>2 DEF HandshakeProgress, Handshake, GatewaySeesOneClient
  <2> QED
    BY <2>1, <2>3 DEF NothingLocal
<1> QED
  BY <1>1, <1>2, <1>3, <1>4, <1>5 DEF ClientLoop

LEMMA KeepAliveOneClient ==
  ASSUME TypeOK, OneClientInv, KeepAlive, UNCHANGED <<toGateway, pbuf>>
  PROVE  OneClientInv'
<1> USE DEF OneClientInv
<1>1. CASE KeepAliveTick
  <2>1. cpc \notin Handshake /\ cpc' = cpc
    BY <1>1 DEF KeepAliveTick, HandshakeProgress
  <2>2. gwIn \in Seq(Request) /\ kref \in Nat
    BY ClientAssumption DEF TypeOK, ClientTypeOK
  <2>3. LET m == OwnRequest("CnTimeRequest", kref)
        IN m \in Request /\ ~IsLocal(m) /\ m.src = Self
    BY <2>2 DEF OwnRequest, Request, Actors, Uuids, Kinds, IsLocal
  <2>4. GatewaySeesOneClient' /\ (link = "up" => Len(gwIn') >= 2)
    BY <1>1, <2>1, <2>2, <2>3, HandshakeOver, WriteKeepsOneClient DEF KeepAliveTick
  <2>5. HandshakeProgress'
    BY <1>1, <2>1, <2>4 DEF KeepAliveTick, HandshakeProgress, Handshake
  <2> QED
    BY <1>1, <2>4, <2>5 DEF KeepAliveTick, NothingLocal
<1>2. CASE KeepAliveDone
  <2>1. HandshakeProgress'
    BY <1>2 DEF KeepAliveDone, linkVars, HandshakeProgress, Handshake
  <2> QED
    BY <1>2, <2>1 DEF KeepAliveDone, linkVars, GatewaySeesOneClient, NothingLocal
<1> QED
  BY <1>1, <1>2 DEF KeepAlive

LEMMA GatewayOneClient ==
  ASSUME OneClientInv, Gateway, UNCHANGED <<toGateway, pbuf>>
  PROVE  OneClientInv'
<1>1. UNCHANGED <<gwIn, cpc, kpc, cbuf, toClient>>
  BY DEF Gateway, GatewayAnswer, GatewayNotify, GatewayDrop, keepAliveVars
<1>2. link' = "up" => link = "up"
  BY DEF Gateway, GatewayAnswer, GatewayNotify, GatewayDrop
<1>3. HandshakeProgress'
  BY <1>1, <1>2 DEF OneClientInv, HandshakeProgress, Handshake
<1> QED
  BY <1>1, <1>3 DEF OneClientInv, GatewaySeesOneClient, NothingLocal

LEMMA ProxyRunOneClient ==
  ASSUME TypeOK, OneClientInv, ProxyRun
  PROVE  OneClientInv'
<1>0. /\ toGateway \in Seq(Request)
      /\ toClient \in Seq(Request)
      /\ pbuf \in Seq(Request)
      /\ Len(pbuf) = IF ppc = "forward" THEN 1 ELSE 0
  BY DEF TypeOK, ListenerTypeOK, ClientTypeOK
<1>1. CASE RunClient
  <2>1. cpc = "none"
    BY <1>1 DEF RunClient, TypeOK
  <2>2. HandshakeProgress'
    BY <1>1, <2>1 DEF RunClient, linkVars, keepAliveVars, OneClientInv, HandshakeProgress,
       Handshake
  <2> QED
    BY <1>1, <2>2 DEF RunClient, listenerVars, linkVars, OneClientInv, GatewaySeesOneClient,
       NothingLocal
<1>2. CASE ProxyTakeUp
  <2>1. NothingLocal(Tail(toGateway)) /\ ~IsLocal(Head(toGateway))
    BY <1>0, <1>2, TailKeepsNothingLocal DEF ProxyTakeUp, OneClientInv
  <2>2. NothingLocal(toGateway') /\ NothingLocal(pbuf')
    BY <1>2, <2>1 DEF ProxyTakeUp, NothingLocal
  <2> QED
    BY <1>2, <2>2 DEF ProxyTakeUp, clientVars, OneClientInv, HandshakeProgress,
       GatewaySeesOneClient, NothingLocal
<1>3. CASE ProxyForward
  <2>1. NothingLocal(toClient')
    BY <1>0, <1>3, BufferKeepsNothingLocal DEF ProxyForward, OneClientInv
  <2>2. NothingLocal(pbuf')
    BY <1>3 DEF ProxyForward, NothingLocal
  <2> QED
    BY <1>3, <2>1, <2>2 DEF ProxyForward, listenerVars, linkVars, keepAliveVars, OneClientInv,
       HandshakeProgress, GatewaySeesOneClient, NothingLocal
<1>4. CASE \/ RunListener \/ ProxyShutDown \/ ProxyReturn \/ ProxyTakeDown
           \/ \E c \in Conns : ProxyAddress(c)
           \/ ProxyWrite \/ ProxyCopied
  BY <1>4, OneClientUnchanged DEF RunListener, ProxyShutDown, ProxyReturn, ProxyTakeDown,
     ProxyAddress, ProxyWrite, ProxyCopied, listenerVars, clientVars, linkVars, keepAliveVars
<1> QED
  BY <1>1, <1>2, <1>3, <1>4 DEF ProxyRun

LEMMA NextOneClient ==
  ASSUME TypeOK, OneClientInv, [Next]_vars
  PROVE  OneClientInv'
<1>1. CASE ListenerNext /\ UNCHANGED <<ctx, clientVars, proxyVars>>
  BY <1>1, ListenerOneClient
<1>2. CASE ClientNext /\ UNCHANGED <<ctx, listenerVars, proxyVars>>
  <2>1. UNCHANGED <<toGateway, pbuf>>
    BY <1>2 DEF listenerVars, proxyVars
  <2> QED
    BY <1>2, <2>1, NewSessionOneClient, ClientLoopOneClient, KeepAliveOneClient,
       GatewayOneClient DEF ClientNext
<1>3. CASE Main \/ Throw \/ UNCHANGED vars
  BY <1>3, OneClientUnchanged DEF Main, Interrupt, MainWait, MainExit, Throw, vars,
     listenerVars, clientVars, proxyVars
<1> QED
  BY <1>1, <1>2, <1>3, ProxyRunOneClient DEF Next, Over

(* Whatever the apps send and whatever order the goroutines run in, the    *)
(* gateway sees one client: a registration, a session start, then frames   *)
(* that carry the proxy's uuid and are neither (Client.Run and NewSession; *)
(* App.handleMessage keeps the apps' own registrations back).              *)
THEOREM OneClient == Spec => []GatewaySeesOneClient
<1>1. Init => TypeOK /\ OneClientInv
  BY InitType, InitOneClient
<1>2. TypeOK /\ OneClientInv /\ [Next]_vars => TypeOK' /\ OneClientInv'
  BY NextType, NextOneClient
<1>3. OneClientInv => GatewaySeesOneClient
  BY DEF OneClientInv
<1> QED
  BY <1>1, <1>2, <1>3, PTL DEF Spec

-----------------------------------------------------------------------------
(* The shutdown *)

(* WaitGroupCountsTasks and CleanExit, made inductive: a socket reader is  *)
(* started by the handler, the listener by Proxy.Run after the client, and *)
(* Client.Run opens the connection before and closes it after its loop.    *)
ShutdownInv ==
  /\ WaitGroupCountsTasks
  /\ CleanExit
  /\ \A c \in Conns : rpc[c] # "none" \/ late[c] > 0 => hpc[c] # "none"
  /\ ppc \in {"none", "startListener"} => lpc = "none"
  /\ cpc \in {"none", "discover", "dial"} => link = "none"
  /\ cpc = "done" => link = "closed"

LEMMA TasksMembers ==
  /\ Tasks \subseteq {"client", "listener", "keepAlive"}
  /\ "client" \in Tasks <=> cpc \notin {"none", "done"}
  /\ "listener" \in Tasks <=> lpc \notin {"none", "done"}
  /\ "keepAlive" \in Tasks <=> kpc = "select"
BY DEF Tasks

LEMMA TasksMembersPrimed ==
  (/\ Tasks \subseteq {"client", "listener", "keepAlive"}
   /\ "client" \in Tasks <=> cpc \notin {"none", "done"}
   /\ "listener" \in Tasks <=> lpc \notin {"none", "done"}
   /\ "keepAlive" \in Tasks <=> kpc = "select")'
BY TasksMembers, PTL

(* No goroutine starts or ends *)
LEMMA TasksStay ==
  ASSUME cpc' \in {"none", "done"} <=> cpc \in {"none", "done"},
         lpc' \in {"none", "done"} <=> lpc \in {"none", "done"},
         kpc' = "select" <=> kpc = "select"
  PROVE  Tasks' = Tasks
<1>1. ASSUME NEW t PROVE t \in Tasks' <=> t \in Tasks
  BY TasksMembers, TasksMembersPrimed
<1> QED
  BY <1>1

LEMMA TasksCounted == IsFiniteSet(Tasks) /\ Cardinality(Tasks) \in Nat
<1>1. IsFiniteSet({"client"})
  BY FS_Singleton, Zenon
<1>2. IsFiniteSet({"client"} \cup {"listener"})
  BY <1>1, FS_AddElement, Zenon
<1>3. IsFiniteSet(({"client"} \cup {"listener"}) \cup {"keepAlive"})
  BY <1>2, FS_AddElement, Zenon
<1>4. Tasks \in SUBSET (({"client"} \cup {"listener"}) \cup {"keepAlive"})
  BY TasksMembers
<1>5. IsFiniteSet(Tasks)
  BY <1>3, <1>4, FS_Subset, Zenon
<1> QED
  BY <1>5, FS_CardinalityType, Zenon

(* A goroutine starts that the WaitGroup is told about *)
LEMMA CountJoins ==
  ASSUME WaitGroupCountsTasks, Running, wg \in Int, WgAdd, UNCHANGED hpc,
         NEW t, t \notin Tasks, Tasks' = Tasks \cup {t}
  PROVE  WaitGroupCountsTasks'
<1>1. Cardinality(Tasks)' = Cardinality(Tasks) + 1 /\ Cardinality(Tasks) \in Nat
  BY TasksCounted, FS_AddElement, Zenon
<1> QED
  BY <1>1 DEF WaitGroupCountsTasks, WgAdd, NoAppAccepted

(* ... and ends. *)
LEMMA CountLeaves ==
  ASSUME WaitGroupCountsTasks, Running, wg \in Int, WgDone, UNCHANGED hpc,
         NEW t, t \in Tasks, Tasks' = Tasks \ {t}
  PROVE  WaitGroupCountsTasks'
<1>1. Cardinality(Tasks)' = Cardinality(Tasks) - 1 /\ Cardinality(Tasks) \in Nat
  BY TasksCounted, FS_RemoveElement, Zenon
<1> QED
  BY <1>1 DEF WaitGroupCountsTasks, WgDone, NoAppAccepted

(* A goroutine calls Done that it was not told about *)
LEMMA CountTaken ==
  ASSUME WaitGroupCountsTasks, Running, wg \in Int, WgDone, Tasks' = Tasks, ~NoAppAccepted'
  PROVE  WaitGroupCountsTasks'
<1>1. Cardinality(Tasks) \in Nat
  BY TasksCounted
<1> QED
  BY <1>1 DEF WaitGroupCountsTasks, WgDone

LEMMA CountStays ==
  ASSUME WaitGroupCountsTasks, Running, wg' = wg, Tasks' = Tasks, NoAppAccepted' => NoAppAccepted
  PROVE  WaitGroupCountsTasks'
BY DEF WaitGroupCountsTasks

(* No step but main's ends the process with an exit *)
LEMMA NotExited ==
  ASSUME Running, ListenerNext \/ ClientNext \/ ProxyRun \/ Throw
  PROVE  status' # "exited"
<1>1. CASE ListenerNext
  BY <1>1 DEF Running, ListenerNext, ListenerRun, ListenerShutDown, ListenerDone,
     ListenerAccepting, AcceptTimeout, Accept, App, Handler, InsertBegin, InsertEnd,
     HandlerDone, HandlerTake, HandlerTakeFrom, HandleRegister, HandleStart, NotifyNode,
     HandleForward, Reader, ReaderDone, LateReaderDone, ReaderReading, ReaderRead,
     ReaderTimeout, ReaderEof, ReaderPush, WgDone
<1>2. CASE ClientNext
  <2>1. CASE NewSession
    BY <2>1 DEF Running, NewSession, Discover, Dial, Register, RegisterConfirm, Start,
       StartConfirm, Panic
  <2>2. CASE ClientLoop
    BY <2>2 DEF Running, ClientLoop, ClientClosing, ClientDone, ClientTake, ClientSend,
       ClientReceiving, ClientReceive, ClientTimeout, ClientLost, ClientPush, WgDone
  <2>3. CASE KeepAlive \/ Gateway
    BY <2>3 DEF Running, KeepAlive, KeepAliveTick, KeepAliveDone, Gateway, WgDone
  <2> QED
    BY <1>2, <2>1, <2>2, <2>3 DEF ClientNext
<1>3. CASE ProxyRun \/ Throw
  BY <1>3 DEF Running, ProxyRun, RunClient, RunListener, ProxyShutDown, ProxyReturn,
     ProxyTakeUp, ProxyForward, ProxyTakeDown, ProxyAddress, ProxyWrite, ProxyCopied, Throw,
     runtimeVars
<1> QED
  BY <1>1, <1>2, <1>3

LEMMA ListenerShutdown ==
  ASSUME TypeOK, ShutdownInv, Running, ListenerNext, UNCHANGED <<clientVars, proxyVars>>
  PROVE  ShutdownInv'
<1>0. /\ UNCHANGED <<cpc, kpc, link, ppc>>
      /\ wg \in Int
  BY DEF clientVars, proxyVars, TypeOK, RuntimeTypeOK, ListenerTypeOK
<1>1. CleanExit'
  BY NotExited DEF CleanExit
<1>2. ASSUME \A c \in Conns : hpc[c] # "none" => hpc'[c] # "none",
             \A c \in Conns : rpc'[c] # "none" => rpc[c] # "none" \/ hpc'[c] # "none",
             \A c \in Conns : late'[c] > 0 => late[c] > 0 \/ hpc'[c] # "none",
             lpc = "none" => lpc' = "none",
             WaitGroupCountsTasks'
      PROVE  ShutdownInv'
  BY <1>0, <1>1, <1>2 DEF ShutdownInv
<1>3. ASSUME lpc' \in {"none", "done"} <=> lpc \in {"none", "done"} PROVE Tasks' = Tasks
  BY <1>0, <1>3, TasksStay
<1>4. CASE ListenerDone
  <2>1. "listener" \in Tasks /\ Tasks' = Tasks \ {"listener"}
    BY <1>0, <1>4, TasksMembers, TasksMembersPrimed DEF ListenerDone
  <2>2. WaitGroupCountsTasks'
    BY <1>0, <1>4, <2>1, CountLeaves DEF ListenerDone, handlerVars, ShutdownInv
  <2> QED
    BY <1>2, <1>4, <2>2 DEF ListenerDone, readerVars, handlerVars
<1>5. CASE ListenerShutDown \/ ListenerAccepting \/ AcceptTimeout
  <2>1. Tasks' = Tasks
    BY <1>3, <1>5 DEF ListenerShutDown, ListenerAccepting, AcceptTimeout
  <2>2. UNCHANGED <<wg, hpc, rpc, late>>
    BY <1>5 DEF ListenerShutDown, ListenerAccepting, AcceptTimeout, wgVars, handlerVars, readerVars
  <2>3. WaitGroupCountsTasks'
    BY <2>1, <2>2, CountStays DEF ShutdownInv, NoAppAccepted
  <2> QED
    BY <1>2, <1>5, <2>2, <2>3 DEF ListenerShutDown, ListenerAccepting, AcceptTimeout
<1>6. ASSUME NEW c \in Conns, Accept(c) PROVE ShutdownInv'
  <2>1. Tasks' = Tasks
    BY <1>3, <1>6 DEF Accept
  <2>2. UNCHANGED <<wg, rpc, late>> /\ hpc' = [hpc EXCEPT ![c] = "insert"]
    BY <1>6 DEF Accept, wgVars, readerVars
  <2>3. \A d \in Conns : hpc[d] # "none" => hpc'[d] # "none"
    BY <2>2 DEF TypeOK, ListenerTypeOK
  <2>4. WaitGroupCountsTasks'
    BY <2>1, <2>2, <2>3, CountStays DEF ShutdownInv, NoAppAccepted
  <2> QED
    BY <1>2, <1>6, <2>2, <2>3, <2>4 DEF Accept
<1>7. ASSUME NEW c \in Conns, App(c) PROVE ShutdownInv'
  <2>1. UNCHANGED <<lpc, wg, hpc, rpc, late>>
    BY <1>7 DEF App, wgVars, handlerVars, readerVars
  <2>2. Tasks' = Tasks
    BY <1>3, <2>1
  <2>3. WaitGroupCountsTasks'
    BY <2>1, <2>2, CountStays DEF ShutdownInv, NoAppAccepted
  <2> QED
    BY <1>2, <2>1, <2>3
<1>8. ASSUME NEW c \in Conns, ReaderDone(c) \/ LateReaderDone(c) PROVE ShutdownInv'
  <2>1. /\ UNCHANGED <<lpc, hpc>> /\ WgDone /\ hpc[c] # "none"
        /\ \A d \in Conns : rpc'[d] # "none" => rpc[d] # "none"
        /\ \A d \in Conns : late'[d] > 0 => late[d] > 0
    BY <1>8 DEF ReaderDone, LateReaderDone, handlerVars, TypeOK, ListenerTypeOK, ShutdownInv
  <2>2. Tasks' = Tasks
    BY <1>3, <2>1
  <2>3. WaitGroupCountsTasks'
    BY <1>0, <2>1, <2>2, CountTaken DEF ShutdownInv, NoAppAccepted
  <2> QED
    BY <1>2, <2>1, <2>3
<1>9. ASSUME NEW c \in Conns, Reader(c), ~ReaderDone(c), ~LateReaderDone(c) PROVE ShutdownInv'
  <2>1. /\ UNCHANGED <<lpc, wg, hpc, late>>
        /\ \A d \in Conns : rpc'[d] # "none" => rpc[d] # "none"
    BY <1>9 DEF Reader, ReaderReading, ReaderRead, ReaderTimeout, ReaderEof, ReaderPush,
       wgVars, handlerVars, TypeOK, ListenerTypeOK
  <2>2. Tasks' = Tasks
    BY <1>3, <2>1
  <2>3. WaitGroupCountsTasks'
    BY <2>1, <2>2, CountStays DEF ShutdownInv, NoAppAccepted
  <2> QED
    BY <1>2, <2>1, <2>3
<1>10. ASSUME NEW c \in Conns, HandlerDone(c) PROVE ShutdownInv'
  <2>1. /\ UNCHANGED <<lpc, rpc, late>> /\ WgDone /\ hpc' = [hpc EXCEPT ![c] = "insert"]
    BY <1>10 DEF HandlerDone, readerVars
  <2>2. Tasks' = Tasks
    BY <1>3, <2>1
  <2>3. hpc'[c] # "none" /\ \A d \in Conns : hpc[d] # "none" => hpc'[d] # "none"
    BY <2>1 DEF TypeOK, ListenerTypeOK
  <2>4. WaitGroupCountsTasks'
    BY <1>0, <2>1, <2>2, <2>3, CountTaken DEF ShutdownInv, NoAppAccepted
  <2> QED
    BY <1>2, <2>1, <2>3, <2>4
<1>11. ASSUME NEW c \in Conns, Handler(c), ~HandlerDone(c) PROVE ShutdownInv'
  <2>1. /\ UNCHANGED <<lpc, wg>> /\ hpc[c] # "none"
        /\ hpc'[c] # "none" /\ \A d \in Conns \ {c} : hpc'[d] = hpc[d]
        /\ \A d \in Conns \ {c} : rpc'[d] = rpc[d] /\ late'[d] = late[d]
    BY <1>11 DEF Handler, InsertBegin, InsertEnd, HandlerTake, HandlerTakeFrom, HandleRegister,
       HandleStart, NotifyNode, HandleForward, wgVars, readerVars, TypeOK, ListenerTypeOK
  <2>2. Tasks' = Tasks
    BY <1>3, <2>1
  <2>3. WaitGroupCountsTasks'
    BY <2>1, <2>2, CountStays DEF ShutdownInv, NoAppAccepted
  <2> QED
    BY <1>2, <2>1, <2>3
<1> QED
  BY <1>4, <1>5, <1>6, <1>7, <1>8, <1>9, <1>10, <1>11 DEF ListenerNext, ListenerRun

LEMMA ClientShutdown ==
  ASSUME TypeOK, OneClientInv, ShutdownInv, Running, ClientNext,
         UNCHANGED <<listenerVars, proxyVars>>
  PROVE  ShutdownInv'
<1>0. UNCHANGED <<lpc, rpc, late, hpc, ppc>> /\ wg \in Int
  BY DEF listenerVars, proxyVars, TypeOK, RuntimeTypeOK
<1>1. CleanExit'
  BY NotExited DEF CleanExit
<1>2. ASSUME WaitGroupCountsTasks',
             cpc' \in {"none", "discover", "dial"} => link' = "none",
             cpc' = "done" => link' = "closed"
      PROVE  ShutdownInv'
  BY <1>0, <1>1, <1>2 DEF ShutdownInv
<1>3. ASSUME cpc' \in {"none", "done"} <=> cpc \in {"none", "done"}, kpc' = kpc
      PROVE  Tasks' = Tasks
  BY <1>0, <1>3, TasksStay
<1>4. ASSUME wg' = wg, Tasks' = Tasks PROVE WaitGroupCountsTasks'
  BY <1>0, <1>4, CountStays DEF ShutdownInv, NoAppAccepted
<1>5. CASE Discover \/ Dial \/ Register \/ Start \/ RegisterConfirm
  <2>1. /\ UNCHANGED <<wg, kpc>> /\ cpc \notin {"none", "done"} /\ cpc' \notin {"none", "done"}
        /\ cpc' \in {"discover", "dial"} => cpc \in {"discover", "dial"} /\ link' = link
    BY <1>5 DEF Discover, Dial, Register, Start, RegisterConfirm, wgVars, linkVars, keepAliveVars
  <2>2. WaitGroupCountsTasks'
    BY <1>3, <1>4, <2>1
  <2> QED
    BY <1>2, <2>1, <2>2 DEF ShutdownInv
<1>6. CASE StartConfirm
  <2>1. kpc = "none"
    BY <1>6 DEF StartConfirm, OneClientInv, HandshakeProgress, Handshake, TypeOK, ClientTypeOK
  <2>2. WaitGroupCountsTasks'
    <3>1. CASE status' = "panicked"
      BY <3>1 DEF WaitGroupCountsTasks, Running
    <3>2. CASE WgAdd /\ kpc' = "select" /\ cpc' = "select"
      <4>1. "keepAlive" \notin Tasks /\ Tasks' = Tasks \cup {"keepAlive"}
        BY <1>0, <1>6, <2>1, <3>2, TasksMembers, TasksMembersPrimed DEF StartConfirm
      <4> QED
        BY <1>0, <3>2, <4>1, CountJoins DEF ShutdownInv
    <3> QED
      BY <1>6, <3>1, <3>2 DEF StartConfirm, Panic
  <2>3. cpc' \in {"startConfirm", "select"}
    BY <1>6 DEF StartConfirm
  <2> QED
    BY <1>2, <2>2, <2>3
<1>7. CASE ClientDone
  <2>1. "client" \in Tasks /\ Tasks' = Tasks \ {"client"}
    BY <1>0, <1>7, TasksMembers, TasksMembersPrimed DEF ClientDone, keepAliveVars
  <2>2. WaitGroupCountsTasks'
    BY <1>0, <1>7, <2>1, CountLeaves DEF ClientDone, ShutdownInv
  <2> QED
    BY <1>2, <1>7, <2>2 DEF ClientDone
<1>8. CASE KeepAliveDone
  <2>1. "keepAlive" \in Tasks /\ Tasks' = Tasks \ {"keepAlive"}
    BY <1>0, <1>8, TasksMembers, TasksMembersPrimed DEF KeepAliveDone
  <2>2. WaitGroupCountsTasks'
    BY <1>0, <1>8, <2>1, CountLeaves DEF KeepAliveDone, ShutdownInv
  <2> QED
    BY <1>2, <1>8, <2>2 DEF KeepAliveDone, linkVars, ShutdownInv
<1>9. CASE KeepAliveTick
  <2>1. UNCHANGED <<wg, kpc, cpc, link>>
    BY <1>9 DEF KeepAliveTick, wgVars
  <2>2. WaitGroupCountsTasks'
    BY <1>3, <1>4, <2>1
  <2> QED
    BY <1>2, <2>1, <2>2 DEF ShutdownInv
<1>10. CASE Gateway
  <2>1. UNCHANGED <<wg, kpc, cpc>> /\ (link' = link \/ link = "up")
    BY <1>10 DEF Gateway, GatewayAnswer, GatewayNotify, GatewayDrop, wgVars, keepAliveVars
  <2>2. WaitGroupCountsTasks'
    BY <1>3, <1>4, <2>1
  <2> QED
    BY <1>2, <2>1, <2>2 DEF ShutdownInv
<1>11. CASE ClientLoop /\ ~ClientDone
  <2>1. /\ UNCHANGED <<wg, kpc>> /\ cpc \notin {"none", "done"}
        /\ cpc' \notin {"none", "done", "discover", "dial"}
    BY <1>11 DEF ClientLoop, ClientClosing, ClientTake, ClientSend, ClientReceiving,
       ClientReceive, ClientTimeout, ClientLost, ClientPush, wgVars, keepAliveVars
  <2>2. WaitGroupCountsTasks'
    BY <1>3, <1>4, <2>1
  <2> QED
    BY <1>2, <2>1, <2>2
<1> QED
  BY <1>5, <1>6, <1>7, <1>8, <1>9, <1>10, <1>11 DEF ClientNext, NewSession, ClientLoop, KeepAlive

LEMMA ProxyRunShutdown ==
  ASSUME TypeOK, OneClientInv, ShutdownInv, Running, ProxyRun
  PROVE  ShutdownInv'
<1>0. UNCHANGED <<rpc, late, hpc, kpc, link>> /\ wg \in Int
  BY DEF ProxyRun, RunClient, RunListener, ProxyShutDown, ProxyReturn, ProxyTakeUp, ProxyForward,
     ProxyTakeDown, ProxyAddress, ProxyWrite, ProxyCopied, listenerVars, clientVars, linkVars,
     keepAliveVars, socketVars, readerVars, handlerVars, TypeOK, RuntimeTypeOK
<1>1. CleanExit'
  BY NotExited DEF CleanExit
<1>2. CASE RunClient
  <2>1. cpc = "none" /\ cpc' = "discover" /\ lpc' = lpc /\ ppc = "none"
    BY <1>2 DEF RunClient, listenerVars, TypeOK
  <2>2. "client" \notin Tasks /\ Tasks' = Tasks \cup {"client"}
    BY <1>0, <2>1, TasksMembers, TasksMembersPrimed
  <2>3. WaitGroupCountsTasks'
    BY <1>0, <1>2, <2>2, CountJoins DEF RunClient, ShutdownInv
  <2> QED
    BY <1>0, <1>1, <2>1, <2>3 DEF ShutdownInv
<1>3. CASE RunListener
  <2>1. lpc = "none" /\ lpc' = "select" /\ cpc' = cpc /\ ppc' = "select"
    BY <1>3 DEF RunListener, clientVars, ShutdownInv
  <2>2. "listener" \notin Tasks /\ Tasks' = Tasks \cup {"listener"}
    BY <1>0, <2>1, TasksMembers, TasksMembersPrimed
  <2>3. WaitGroupCountsTasks'
    BY <1>0, <1>3, <2>2, CountJoins DEF RunListener, ShutdownInv
  <2> QED
    BY <1>0, <1>1, <2>1, <2>3 DEF ShutdownInv
<1>4. CASE ~RunClient /\ ~RunListener
  <2>1. UNCHANGED <<lpc, cpc, wg>> /\ ppc' \notin {"none", "startListener"}
    BY <1>4 DEF ProxyRun, ProxyShutDown, ProxyReturn, ProxyTakeUp, ProxyForward,
       ProxyTakeDown, ProxyAddress, ProxyWrite, ProxyCopied, listenerVars, clientVars,
       runtimeVars
  <2>2. Tasks' = Tasks
    BY <1>0, <2>1, TasksStay
  <2>3. WaitGroupCountsTasks'
    BY <1>0, <2>1, <2>2, CountStays DEF ShutdownInv, NoAppAccepted
  <2> QED
    BY <1>0, <1>1, <2>1, <2>3 DEF ShutdownInv
<1> QED
  BY <1>2, <1>3, <1>4

(* The steps of main and of the runtime: main exits on a zero counter only *)
LEMMA MainShutdown ==
  ASSUME TypeOK, ShutdownInv, Running, Main \/ Throw
  PROVE  ShutdownInv'
<1>0. UNCHANGED <<wg, hpc, rpc, late, lpc, cpc, kpc, link, ppc>>
  BY DEF Main, Interrupt, MainWait, MainExit, Throw, wgVars, listenerVars, clientVars, proxyVars
<1>1. Tasks' = Tasks
  BY <1>0, TasksStay
<1>2. WaitGroupCountsTasks'
  BY <1>0, <1>1, CountStays DEF ShutdownInv, NoAppAccepted
<1>3. CleanExit'
  <2> SUFFICES ASSUME status' = "exited", NoAppAccepted
               PROVE  Tasks = {} /\ link \in {"none", "closed"}
    BY <1>0, <1>1 DEF CleanExit, NoAppAccepted
  <2>1. wg = 0
    BY DEF Main, Interrupt, MainWait, MainExit, Throw, Running
  <2>2. Cardinality(Tasks) = 0
    BY <2>1 DEF ShutdownInv, WaitGroupCountsTasks
  <2>3. Tasks = {}
    BY <2>2, TasksCounted, FS_EmptySet, Zenon
  <2>4. cpc \in {"none", "done"}
    BY <2>3, TasksMembers
  <2> QED
    BY <2>3, <2>4 DEF ShutdownInv
<1> QED
  BY <1>0, <1>2, <1>3 DEF ShutdownInv

LEMMA NextShutdown ==
  ASSUME TypeOK, OneClientInv, ShutdownInv, [Next]_vars
  PROVE  ShutdownInv'
<1>1. CASE UNCHANGED vars
  <2>1. UNCHANGED <<status, wg, hpc, rpc, late, lpc, cpc, kpc, link, ppc>>
    BY <1>1 DEF vars, runtimeVars, listenerVars, clientVars, proxyVars
  <2>2. Tasks' = Tasks
    BY <2>1, TasksStay
  <2> QED
    BY <2>1, <2>2 DEF ShutdownInv, WaitGroupCountsTasks, CleanExit, Running, NoAppAccepted
<1> QED
  BY <1>1, ListenerShutdown, ClientShutdown, ProxyRunShutdown, MainShutdown DEF Next, Over

LEMMA InitShutdown == ASSUME Init PROVE ShutdownInv
<1>1. /\ cpc = "none" /\ lpc = "none" /\ kpc = "none" /\ link = "none" /\ wg = 0
      /\ status = "running"
      /\ \A c \in Conns : rpc[c] = "none" /\ late[c] = 0
  BY DEF Init, RuntimeInit, ListenerInit, ClientInit
<1>2. Cardinality(Tasks) = 0
  <2>1. Tasks = {}
    BY <1>1, TasksMembers
  <2> QED
    BY <2>1, FS_EmptySet, Zenon
<1> QED
  BY <1>1, <1>2 DEF ShutdownInv, WaitGroupCountsTasks, CleanExit

(* Client.Run, Listener.Run and the keep-alive are all the WaitGroup ever  *)
(* counts, and it counts all of them until a connection is accepted; from  *)
(* then on HandleConnection and its readers may only take from it.         *)
THEOREM TasksCountedRight == Spec => []WaitGroupCountsTasks
<1>1. Init => TypeOK /\ OneClientInv /\ ShutdownInv
  BY InitType, InitOneClient, InitShutdown
<1>2. TypeOK /\ OneClientInv /\ ShutdownInv /\ [Next]_vars
        => TypeOK' /\ OneClientInv' /\ ShutdownInv'
  BY NextType, NextOneClient, NextShutdown
<1>3. ShutdownInv => WaitGroupCountsTasks
  BY DEF ShutdownInv
<1> QED
  BY <1>1, <1>2, <1>3, PTL DEF Spec

(* Without apps an interrupt, whenever it comes, ends the process with all *)
(* its goroutines through and the session with the gateway closed.         *)
THEOREM ExitsClean == Spec => []CleanExit
<1>1. Init => TypeOK /\ OneClientInv /\ ShutdownInv
  BY InitType, InitOneClient, InitShutdown
<1>2. TypeOK /\ OneClientInv /\ ShutdownInv /\ [Next]_vars
        => TypeOK' /\ OneClientInv' /\ ShutdownInv'
  BY NextType, NextOneClient, NextShutdown
<1>3. ShutdownInv => CleanExit
  BY DEF ShutdownInv
<1> QED
  BY <1>1, <1>2, <1>3, PTL DEF Spec
=============================================================================
