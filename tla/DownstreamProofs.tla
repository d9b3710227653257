--------------------------- MODULE DownstreamProofs ---------------------------
(***************************************************************************)
(* What the apps get from the proxy, for every set of apps, every number   *)
(* of messages and every capacity of the channels: the gateway's frames in *)
(* order and without a gap, the answers to their requests among them, and  *)
(* from some frame on with their own uuid; and, between them, what their   *)
(* handler answers itself, in the order of their requests.                 *)
(*                                                                         *)
(* The argument follows a frame: from the gateway's log through Client.Run *)
(* to the proxy loop (GatewayPipe), and from there to each app in the map, *)
(* while the loop ranges over the map and apps join (CopyInv).             *)
(***************************************************************************)
EXTENDS DeliveryProofs

-----------------------------------------------------------------------------
(* From the gateway's log to the proxy loop.  What is read during the      *)
(* handshake is its confirmations, one for each request.                   *)
HandshakeRead == IF cpc \in {"start", "startConfirm"} THEN 1 ELSE 0

GatewayPipe ==
  /\ \A i \in 1..Len(gwOut) : gwOut[i].seq = i
  /\ gwRead <= Len(gwOut)
  /\ \A i \in 1..Len(fromGateway) : fromGateway[i] = gwOut[Taken + i]
  /\ dbuf # <<>> => dbuf[1] = gwOut[gwRead]
  /\ pdown # <<>> => Taken >= 3 /\ pdown[1] = gwOut[Taken]
  /\ cpc \in Handshake => fromGateway = <<>> /\ pdown = <<>> /\ (Running => gwRead = HandshakeRead)
  /\ cpc \notin Handshake => Taken >= 2

(* The frame in the proxy loop's hands was not written to app c yet *)
Behind(c) == c \notin visited \/ (pto # <<>> /\ pto[1].conn = c)

(* DownstreamContiguous of one app, as a relation between what it got, the *)
(* gateway's log, and how far the proxy loop is                            *)
Holds(q, s) == \E k \in 1..Len(q) : q[k].seq = s

Contiguous(q, out, taken, through, open) ==
  /\ \A k \in 1..Len(q) : IsCopy(q[k]) =>
       /\ q[k].seq \in 3..taken
       /\ q[k] = AddressTo(out[q[k].seq], q[k].dst)
       /\ open => \A s \in q[k].seq..through : Holds(q, s)
  /\ \A j, k \in 1..Len(q) : j < k /\ IsCopy(q[j]) /\ IsCopy(q[k]) =>
       /\ q[j].seq < q[k].seq
       /\ \A s \in q[j].seq..q[k].seq : Holds(q, s)

(* An app that has got a copy is in the map.  While a frame is copied, an  *)
(* app that has joined since has got nothing before it.                    *)
CopyInv(c) ==
  /\ Contiguous(received[c], gwOut, Taken, Through, c \notin closed)
  /\ c \notin apps => \A k \in 1..Len(received[c]) : ~IsCopy(received[c][k])
  /\ Behind(c) => \A k \in 1..Len(received[c]) : received[c][k].seq <= Through
  /\ ~Behind(c) /\ c \notin closed => Got(c, Taken)
  /\ pdown # <<>> /\ c \notin todo =>
       \A k \in 1..Len(received[c]) : IsCopy(received[c][k]) => received[c][k].seq > Through

Ranging ==
  /\ visited \subseteq apps /\ todo \subseteq apps
  /\ pdown = <<>> => visited = {}
  /\ pto # <<>> => pto[1].conn \in visited

DownInv == GatewayPipe /\ Ranging /\ \A c \in Conns : CopyInv(c)

-----------------------------------------------------------------------------
(* What the handler knows of its app when it forwards a message *)
Known(c) == c \in apps /\ (ctx \/ uuid[c] = c)

(* The apps that the gateway has heard of, or is about to *)
AppsOf(q) == {q[i].app : i \in 1..Len(q)}

Underway ==
  AppsOf(toGateway) \cup AppsOf(pbuf) \cup AppsOf(toClient) \cup AppsOf(cbuf)
  \cup AppsOf(gwIn) \cup AppsOf(gwOut)

KnownInv ==
  /\ \A c \in Conns :
       /\ ~ctx /\ hpc[c] \in {"none", "insert", "inserting"} => c \notin apps
       /\ hpc[c] \in {"select", "handle", "node1", "node2", "again"} => c \in apps
       /\ hpc[c] \in {"handle", "node1", "node2"} => Known(c)
       /\ c \notin apps => uuid[c] = NoUuid
  /\ \A c \in Underway \cap Conns : Known(c)

(* q holds frame i of the gateway, addressed to app c *)
Reaches(q, c, i, anyone) == \E k \in 1..Len(q) : q[k].seq = i /\ (anyone \/ q[k].dst = c)

(* The answer in the proxy loop's hands is on its way to the app it is for *)
AnswerInv(c) ==
  /\ c \notin closed =>
       \A i \in 3..Through : gwOut[i].app = c => Reaches(received[c], c, i, ctx)
  /\ pdown # <<>> /\ pdown[1].app = c =>
       /\ c \in todo
       /\ ~Behind(c) /\ c \notin closed => Reaches(received[c], c, Taken, ctx)
       /\ pto # <<>> /\ pto[1].conn = c => ctx \/ pto[1].dst = c

(* The uuid that the proxy loop has read is of use for one copy at most *)
BeforeOwn(q, c, k) == \A j \in 1..k : q[j].dst # c

OwnFromOneOn(q, c) ==
  \A j, k \in 1..Len(q) : j < k /\ IsCopy(q[j]) /\ IsCopy(q[k]) /\ q[k].dst # c =>
    BeforeOwn(q, c, j)

AddressInv(c) ==
  ~ctx =>
    /\ OwnFromOneOn(received[c], c)
    /\ uuid[c] # c => BeforeOwn(received[c], c, Len(received[c]))
    /\ pto # <<>> /\ pto[1].conn = c =>
         IF pto[1].dst = c
           THEN uuid[c] = c
           ELSE \A k \in 1..Len(received[c]) :
                  IsCopy(received[c][k]) => BeforeOwn(received[c], c, k)

ReachInv ==
  /\ DeliveryInv
  /\ DownInv
  /\ KnownInv
  /\ \A c \in Conns : AnswerInv(c) /\ AddressInv(c)

-----------------------------------------------------------------------------
(* The gateway's frames on their way to the proxy loop *)

LEMMA PipeLengths ==
  ASSUME TypeOK
  PROVE  /\ gwOut \in Seq(GatewayFrame) /\ Len(gwOut) \in Nat
         /\ dbuf \in Seq(GatewayFrame) /\ Len(dbuf) = IF cpc = "push" THEN 1 ELSE 0
         /\ fromGateway \in Seq(GatewayFrame) /\ Len(fromGateway) \in Nat
         /\ pdown \in Seq(GatewayFrame) /\ Len(pdown) = IF pdown = <<>> THEN 0 ELSE 1
         /\ pdown = <<>> <=> ppc \notin {"copy", "write"}
         /\ pto = <<>> <=> ppc # "write"
         /\ gwRead \in Nat
<1>1. /\ gwOut \in Seq(GatewayFrame) /\ dbuf \in Seq(GatewayFrame)
      /\ fromGateway \in Seq(GatewayFrame) /\ pdown \in Seq(GatewayFrame)
      /\ Len(dbuf) = (IF cpc = "push" THEN 1 ELSE 0) /\ gwRead \in Nat
      /\ Len(pdown) = (IF ppc \in {"copy", "write"} THEN 1 ELSE 0)
  BY DEF TypeOK, ClientTypeOK
<1>2. Len(gwOut) \in Nat /\ Len(fromGateway) \in Nat /\ (pdown = <<>> <=> Len(pdown) = 0)
  BY <1>1
<1>3. pto = <<>> <=> ppc # "write"
  <2>1. pto \in Seq([conn : Conns, dst : Uuids]) /\ Len(pto) = IF ppc = "write" THEN 1 ELSE 0
    BY DEF TypeOK
  <2>2. pto = <<>> <=> Len(pto) = 0
    BY <2>1
  <2> QED
    BY <2>1, <2>2
<1> QED
  BY <1>1, <1>2, <1>3

LEMMA TakenBound ==
  ASSUME TypeOK, GatewayPipe
  PROVE  /\ Taken \in Nat /\ Taken <= Len(gwOut) /\ Len(gwOut) \in Nat
         /\ Through \in Nat /\ Through = Taken - (IF pdown = <<>> THEN 0 ELSE 1)
<1> DEFINE f == Len(fromGateway)
           d == Len(dbuf)
           p == Len(pdown)
           o == Len(gwOut)
<1>1. /\ f \in Nat /\ d \in {0, 1} /\ o \in Nat /\ gwRead \in Nat /\ gwRead <= o
      /\ p = IF pdown = <<>> THEN 0 ELSE 1
  BY PipeLengths DEF GatewayPipe
<1>2. cpc \in Handshake => f = 0 /\ d = 0
  BY PipeLengths DEF GatewayPipe, Handshake
<1>3. pdown # <<>> => Taken >= 3
  BY DEF GatewayPipe
<1>4. cpc \notin Handshake => Taken >= 2
  BY DEF GatewayPipe
<1>5. Taken = gwRead - d - f /\ Through = Taken - p
  BY DEF Taken, Through
<1> HIDE DEF f, d, p, o
<1>6. Taken \in Nat /\ Taken <= o
  BY <1>1, <1>2, <1>4, <1>5
<1>7. Through \in Nat
  BY <1>1, <1>3, <1>5, <1>6
<1> QED
  BY <1>1, <1>5, <1>6, <1>7 DEF o

(* The steps that move no frame *)
LEMMA PipeStays ==
  ASSUME TypeOK, GatewayPipe, UNCHANGED <<gwRead, dbuf, fromGateway, pdown>>,
         Len(gwOut) <= Len(gwOut'), \A i \in 1..Len(gwOut) : gwOut'[i] = gwOut[i],
         \A i \in 1..Len(gwOut') : gwOut'[i].seq = i,
         \/ cpc' = cpc /\ Running
         \/ cpc \notin Handshake /\ cpc' \notin Handshake
         \/ cpc \in {"none", "discover", "dial", "register"} /\ Running
            /\ cpc' \in {"none", "discover", "dial", "register", "registerConfirm"}
         \/ cpc = "start" /\ cpc' = "startConfirm" /\ Running
         \/ UNCHANGED <<cpc, status>>,
         Len(gwOut') \in Nat
  PROVE  GatewayPipe' /\ Taken' = Taken /\ Through' = Through
<1> DEFINE f == Len(fromGateway)
           d == Len(dbuf)
           o == Len(gwOut)
<1>1. Taken' = Taken /\ Through' = Through
  BY DEF Taken, Through
<1>2. /\ f \in Nat /\ d \in {0, 1} /\ o \in Nat /\ gwRead \in Nat /\ gwRead <= o
      /\ Taken \in Nat /\ Taken = gwRead - d - f
  BY PipeLengths, TakenBound DEF GatewayPipe, Taken
<1>3. dbuf # <<>> => gwRead \in 1..o
  <2>1. dbuf # <<>> => d = 1
    BY PipeLengths, EmptySeq
  <2> HIDE DEF f, d, o
  <2> QED
    BY <1>2, <2>1
<1>4. \A i \in 1..f : Taken + i \in 1..o
  <2> HIDE DEF f, d, o
  <2> QED
    BY <1>2
<1>5. Taken >= 3 => Taken \in 1..o
  BY TakenBound
<1>6. gwRead' <= Len(gwOut')
  BY <1>2
<1>7. \A i \in 1..Len(fromGateway') : fromGateway'[i] = gwOut'[Taken' + i]
  BY <1>1, <1>4 DEF GatewayPipe
<1>8. dbuf' # <<>> => dbuf'[1] = gwOut'[gwRead']
  BY <1>3 DEF GatewayPipe
<1>9. pdown' # <<>> => Taken' >= 3 /\ pdown'[1] = gwOut'[Taken']
  BY <1>1, <1>5 DEF GatewayPipe
<1>10. cpc' \in Handshake => fromGateway' = <<>> /\ pdown' = <<>> /\ (Running' => gwRead' = HandshakeRead')
  BY DEF GatewayPipe, Handshake, HandshakeRead, Running
<1>11. cpc' \notin Handshake => Taken' >= 2
  BY <1>1 DEF GatewayPipe, Handshake
<1> QED
  BY <1>1, <1>6, <1>7, <1>8, <1>9, <1>10, <1>11 DEF GatewayPipe

LEMMA GatewayWrites ==
  ASSUME TypeOK, GatewayPipe, Gateway, Running, UNCHANGED proxyVars
  PROVE  /\ GatewayPipe' /\ Taken' = Taken /\ Through' = Through
         /\ Len(gwOut) <= Len(gwOut') /\ \A i \in 1..Len(gwOut) : gwOut'[i] = gwOut[i]
<1>1. UNCHANGED <<gwRead, dbuf, fromGateway, pdown, cpc>>
  BY DEF Gateway, GatewayAnswer, GatewayNotify, GatewayDrop, proxyVars
<1>2. gwOut \in Seq(GatewayFrame) /\ \A i \in 1..Len(gwOut) : gwOut[i].seq = i
  BY PipeLengths DEF GatewayPipe
<1>3. ASSUME NEW f, f.seq = Len(gwOut) + 1, gwOut' = Append(gwOut, f)
      PROVE  /\ Len(gwOut) <= Len(gwOut') /\ Len(gwOut') \in Nat
             /\ \A i \in 1..Len(gwOut) : gwOut'[i] = gwOut[i]
             /\ \A i \in 1..Len(gwOut') : gwOut'[i].seq = i
  BY <1>2, <1>3
<1>4. /\ Len(gwOut) <= Len(gwOut') /\ Len(gwOut') \in Nat
      /\ \A i \in 1..Len(gwOut) : gwOut'[i] = gwOut[i]
      /\ \A i \in 1..Len(gwOut') : gwOut'[i].seq = i
  BY <1>2, <1>3 DEF Gateway, GatewayAnswer, GatewayNotify, GatewayDrop
<1> QED
  BY <1>1, <1>4, PipeStays

LEMMA OneMoreFrame ==
  ASSUME NEW s \in Seq(GatewayFrame), NEW t \in Seq(GatewayFrame), Len(t) = 1
  PROVE  /\ Len(s \o t) = Len(s) + 1 /\ (s \o t)[Len(s) + 1] = t[1]
         /\ \A i \in 1..Len(s) : (s \o t)[i] = s[i]
BY ConcatProperties

LEMMA ClientMovesFrames ==
  ASSUME TypeOK, GatewayPipe, Running, UNCHANGED proxyVars,
         \/ RegisterConfirm \/ StartConfirm \/ ClientReceive \/ ClientPush
  PROVE  /\ GatewayPipe' /\ gwOut' = gwOut
         /\ \/ Taken' = Taken /\ Through' = Through
            \/ Taken < 2 /\ Taken' = Taken + 1 /\ pdown = <<>>
<1> DEFINE f == Len(fromGateway)
           d == Len(dbuf)
           o == Len(gwOut)
<1>0. pdown' = pdown /\ gwOut' = gwOut
  BY DEF proxyVars, RegisterConfirm, StartConfirm, ClientReceive, ClientPush, linkVars
<1>1. /\ f \in Nat /\ d \in Nat /\ o \in Nat /\ gwRead \in Nat /\ gwRead <= o
      /\ Taken \in Nat /\ Taken = gwRead - d - f
  BY PipeLengths, TakenBound DEF GatewayPipe, Taken
<1>2. CASE RegisterConfirm \/ StartConfirm
  <2>1. /\ cpc \in Handshake /\ cpc # "push" /\ UNCHANGED <<dbuf, fromGateway>>
        /\ \/ gwRead < o /\ gwRead' = gwRead + 1
           \/ gwRead' = gwRead /\ status' = "panicked"
        /\ \/ cpc' = cpc /\ status' = "panicked"
           \/ cpc = "registerConfirm" /\ cpc' = "start" /\ gwRead' = gwRead + 1
           \/ cpc = "startConfirm" /\ cpc' = "select" /\ gwRead' = gwRead + 1
    BY <1>2 DEF RegisterConfirm, StartConfirm, Panic, Handshake
  <2>2. fromGateway = <<>> /\ pdown = <<>> /\ gwRead = HandshakeRead
    BY <2>1 DEF GatewayPipe
  <2>3. d = 0 /\ f = 0 /\ dbuf = <<>>
    BY <2>1, <2>2, PipeLengths, EmptySeq
  <2>4. Taken = gwRead /\ Taken' = gwRead'
    <3>1. Taken' = gwRead' - d - f
      BY <2>1 DEF Taken
    <3>2. gwRead' \in Nat
      BY <1>1, <2>1
    <3>3. \A n \in Nat : n - 0 - 0 = n
      OBVIOUS
    <3>4. Taken = gwRead - d - f
      BY <1>1
    <3> HIDE DEF d, f, o
    <3> QED
      BY <1>1, <2>3, <3>1, <3>2, <3>3, <3>4, Zenon
  <2>5. Taken' = Taken \/ (Taken < 2 /\ Taken' = Taken + 1)
    BY <2>1, <2>2, <2>4 DEF HandshakeRead
  <2>6. Taken' = Taken => Through' = Through
    BY <1>0 DEF Through
  <2>7. gwRead' <= Len(gwOut')
    BY <1>0, <1>1, <2>1
  <2>8. cpc' \in Handshake /\ Running' => gwRead' = HandshakeRead'
    BY <2>1, <2>2 DEF HandshakeRead, Handshake, Running
  <2>9. cpc' \notin Handshake => Taken' >= 2
    BY <2>1, <2>2, <2>4 DEF HandshakeRead, Handshake
  <2> HIDE DEF d, f, o
  <2>10. \A i \in 1..Len(fromGateway') : fromGateway'[i] = gwOut'[Taken' + i]
    BY <2>1, <2>2, EmptySeq
  <2>11. dbuf' = <<>> /\ pdown' = <<>> /\ fromGateway' = <<>>
    BY <1>0, <2>1, <2>2, <2>3
  <2>12. \A i \in 1..Len(gwOut') : gwOut'[i].seq = i
    BY <1>0 DEF GatewayPipe
  <2>13. GatewayPipe'
    BY <2>7, <2>8, <2>9, <2>10, <2>11, <2>12 DEF GatewayPipe
  <2> QED
    BY <1>0, <2>2, <2>5, <2>6, <2>13
<1>3. CASE ClientReceive
  <2>1. /\ dbuf' = <<gwOut[gwRead + 1]>> /\ gwRead' = gwRead + 1 /\ gwRead < o
        /\ fromGateway' = fromGateway /\ cpc = "receive" /\ cpc' = "push"
    BY <1>3 DEF ClientReceive
  <2>2. d = 0 /\ Len(dbuf') = 1 /\ dbuf'[1] = gwOut[gwRead + 1]
    BY <2>1, PipeLengths
  <2>3. Taken' = gwRead' - Len(dbuf') - f
    BY <2>1 DEF Taken
  <2>4. Taken' = Taken /\ gwRead' <= o
    <3> HIDE DEF d, f, o
    <3> QED
      BY <1>1, <2>1, <2>2, <2>3
  <2>5. Through' = Through
    BY <1>0, <2>4 DEF Through
  <2>6. cpc \notin Handshake /\ cpc' \notin Handshake
    BY <2>1 DEF Handshake
  <2>7. GatewayPipe'
    BY <1>0, <2>1, <2>2, <2>4, <2>6 DEF GatewayPipe
  <2> QED
    BY <1>0, <2>4, <2>5, <2>7
<1>4. CASE ClientPush
  <2>1. /\ dbuf' = <<>> /\ gwRead' = gwRead /\ fromGateway' = fromGateway \o dbuf
        /\ cpc = "push" /\ cpc' = "select"
    BY <1>4 DEF ClientPush, linkVars
  <2>2. dbuf \in Seq(GatewayFrame) /\ fromGateway \in Seq(GatewayFrame) /\ d = 1
    BY <2>1, PipeLengths
  <2>3. /\ Len(fromGateway') = f + 1 /\ fromGateway'[f + 1] = dbuf[1]
        /\ \A i \in 1..f : fromGateway'[i] = fromGateway[i]
    BY <2>1, <2>2, OneMoreFrame
  <2>4. Taken' = gwRead - 0 - Len(fromGateway')
    BY <2>1, EmptySeq DEF Taken
  <2>5. dbuf[1] = gwOut[gwRead]
    BY <2>2, EmptySeq DEF GatewayPipe
  <2>6. Taken' = Taken /\ gwRead = Taken + (f + 1)
    <3> HIDE DEF d, f, o
    <3> QED
      BY <1>1, <2>2, <2>3, <2>4
  <2>7. \A i \in 1..Len(fromGateway') : fromGateway'[i] = gwOut'[Taken' + i]
    <3>1. \A i \in 1..f : fromGateway[i] = gwOut[Taken + i]
      BY DEF GatewayPipe
    <3>2. \A i \in 1..(f + 1) : i \in 1..f \/ i = f + 1
      BY <1>1
    <3> HIDE DEF d, f, o
    <3> QED
      BY <1>0, <2>3, <2>5, <2>6, <3>1, <3>2
  <2>8. Through' = Through
    BY <1>0, <2>6 DEF Through
  <2>9. cpc \notin Handshake /\ cpc' \notin Handshake
    BY <2>1 DEF Handshake
  <2>10. GatewayPipe'
    BY <1>0, <2>1, <2>6, <2>7, <2>9 DEF GatewayPipe
  <2> QED
    BY <1>0, <2>6, <2>8, <2>10
<1> QED
  BY <1>2, <1>3, <1>4

(* What the steps of the gateway's side do to the frames on their way *)
LEMMA ClientFrames ==
  ASSUME TypeOK, GatewayPipe, Running, ClientNext, UNCHANGED proxyVars
  PROVE  /\ GatewayPipe'
         /\ Len(gwOut) <= Len(gwOut') /\ \A i \in 1..Len(gwOut) : gwOut'[i] = gwOut[i]
         /\ \/ Taken' = Taken /\ Through' = Through
            \/ Taken < 2 /\ Taken' = Taken + 1 /\ pdown = <<>>
<1>1. CASE Gateway
  BY <1>1, GatewayWrites
<1>2. CASE RegisterConfirm \/ StartConfirm \/ ClientReceive \/ ClientPush
  BY <1>2, ClientMovesFrames, PipeLengths
<1>3. CASE \/ Discover \/ Dial \/ Register \/ Start \/ KeepAlive
           \/ ClientClosing \/ ClientDone \/ ClientTake \/ ClientSend \/ ClientReceiving
           \/ ClientTimeout \/ ClientLost
  <2>1. UNCHANGED <<gwOut, gwRead, dbuf, fromGateway, pdown>>
    BY <1>3 DEF Discover, Dial, Register, Start, KeepAlive, KeepAliveTick, KeepAliveDone,
       ClientClosing, ClientDone, ClientTake, ClientSend, ClientReceiving, ClientTimeout,
       ClientLost, linkVars, proxyVars
  <2>2. \/ cpc' = cpc
        \/ cpc \notin Handshake /\ cpc' \notin Handshake
        \/ /\ cpc \in {"none", "discover", "dial", "register"}
           /\ cpc' \in {"none", "discover", "dial", "register", "registerConfirm"}
        \/ cpc = "start" /\ cpc' = "startConfirm"
    BY <1>3 DEF Discover, Dial, Register, Start, KeepAlive, KeepAliveTick, KeepAliveDone,
       ClientClosing, ClientDone, ClientTake, ClientSend, ClientReceiving, ClientTimeout,
       ClientLost, Handshake
  <2>3. \A i \in 1..Len(gwOut') : gwOut'[i].seq = i
    BY <2>1 DEF GatewayPipe
  <2> QED
    BY <2>1, <2>2, <2>3, PipeStays, PipeLengths
<1> QED
  BY <1>1, <1>2, <1>3 DEF ClientNext, NewSession, ClientLoop

-----------------------------------------------------------------------------
(* What a write to an app does to what it has got *)

LEMMA Written ==
  ASSUME NEW q \in Seq(AppFrame), NEW f
  PROVE  /\ Len(q) \in Nat /\ Len(Append(q, f)) = Len(q) + 1
         /\ Append(q, f)[Len(q) + 1] = f
         /\ \A k \in 1..Len(q) : Append(q, f)[k] = q[k]
         /\ \A k \in 1..(Len(q) + 1) : k \in 1..Len(q) \/ k = Len(q) + 1
OBVIOUS

LEMMA HoldsMore ==
  ASSUME NEW q \in Seq(AppFrame), NEW f
  PROVE  /\ \A s : Holds(q, s) => Holds(Append(q, f), s)
         /\ Holds(Append(q, f), f.seq)
<1>1. /\ Len(q) \in Nat /\ Len(Append(q, f)) = Len(q) + 1
      /\ Append(q, f)[Len(q) + 1] = f
      /\ \A k \in 1..Len(q) : Append(q, f)[k] = q[k]
  BY Written
<1> DEFINE r == Append(q, f)
<1> HIDE DEF r
<1>2. 1..Len(q) \subseteq 1..Len(r) /\ Len(q) + 1 \in 1..Len(r)
  BY <1>1 DEF r
<1>3. \A k \in 1..Len(q) : r[k] = q[k]
  BY <1>1 DEF r
<1>4. r[Len(q) + 1] = f
  BY <1>1 DEF r
<1>5. (\A s : Holds(q, s) => Holds(r, s)) /\ Holds(r, f.seq)
  BY <1>2, <1>3, <1>4 DEF Holds
<1> QED
  BY <1>5 DEF r

(* An answer of the proxy's own *)
LEMMA ContiguousOwn ==
  ASSUME NEW q \in Seq(AppFrame), NEW f, f.seq = 0, NEW out, NEW taken, NEW through, NEW open,
         Contiguous(q, out, taken, through, open)
  PROVE  Contiguous(Append(q, f), out, taken, through, open)
<1> DEFINE r == Append(q, f)
<1>1. /\ Len(q) \in Nat /\ Len(r) = Len(q) + 1 /\ r[Len(q) + 1] = f
      /\ \A k \in 1..Len(q) : r[k] = q[k]
      /\ \A k \in 1..(Len(q) + 1) : k \in 1..Len(q) \/ k = Len(q) + 1
  BY Written
<1>2. \A s : Holds(q, s) => Holds(r, s)
  BY HoldsMore
<1> HIDE DEF r
<1>3. \A k \in 1..Len(r) : IsCopy(r[k]) => k \in 1..Len(q) /\ IsCopy(q[k]) /\ r[k] = q[k]
  BY <1>1 DEF IsCopy
<1>4. Contiguous(r, out, taken, through, open)
  BY <1>2, <1>3 DEF Contiguous
<1> QED
  BY <1>4 DEF r

(* A copy of the frame in the proxy loop's hands *)
LEMMA ContiguousCopy ==
  ASSUME NEW q \in Seq(AppFrame), NEW out, NEW through \in Nat, NEW taken, taken = through + 1,
         taken >= 3, Contiguous(q, out, taken, through, TRUE),
         \A k \in 1..Len(q) : q[k].seq <= through,
         NEW dst, NEW f, f = AddressTo(out[taken], dst), f.seq = taken
  PROVE  Contiguous(Append(q, f), out, taken, through, TRUE)
<1> DEFINE r == Append(q, f)
<1>1. /\ Len(q) \in Nat /\ Len(r) = Len(q) + 1 /\ r[Len(q) + 1] = f
      /\ \A k \in 1..Len(q) : r[k] = q[k]
      /\ \A k \in 1..(Len(q) + 1) : k \in 1..Len(q) \/ k = Len(q) + 1
  BY Written
<1>2. (\A s : Holds(q, s) => Holds(r, s)) /\ Holds(r, taken)
  BY HoldsMore
<1>3. f.dst = dst
  BY DEF AddressTo
<1> HIDE DEF r
<1>4. ASSUME NEW k \in 1..Len(r), IsCopy(r[k])
      PROVE  /\ r[k].seq \in 3..taken
             /\ r[k] = AddressTo(out[r[k].seq], r[k].dst)
             /\ \A s \in r[k].seq..through : Holds(r, s)
  <2>1. CASE k = Len(q) + 1
    BY <1>1, <1>3, <2>1
  <2>2. CASE k \in 1..Len(q)
    BY <1>1, <1>2, <1>4, <2>2 DEF Contiguous
  <2> QED
    BY <1>1, <2>1, <2>2
<1>5. ASSUME NEW j \in 1..Len(r), NEW k \in 1..Len(r), j < k, IsCopy(r[j]), IsCopy(r[k])
      PROVE  r[j].seq < r[k].seq /\ \A s \in r[j].seq..r[k].seq : Holds(r, s)
  <2>1. j \in 1..Len(q) /\ r[j] = q[j] /\ IsCopy(q[j])
    BY <1>1, <1>5
  <2>2. CASE k = Len(q) + 1
    <3>1. r[k].seq = taken /\ q[j].seq <= through /\ q[j].seq \in Int
      BY <1>1, <2>1, <2>2 DEF Contiguous
    <3>2. \A s \in q[j].seq..taken : s \in q[j].seq..through \/ s = taken
      BY <3>1
    <3>3. \A s \in q[j].seq..through : Holds(q, s)
      BY <2>1 DEF Contiguous
    <3> QED
      BY <1>2, <2>1, <3>1, <3>2, <3>3
  <2>3. CASE k \in 1..Len(q)
    BY <1>1, <1>2, <1>5, <2>1, <2>3 DEF Contiguous
  <2> QED
    BY <1>1, <2>2, <2>3
<1>6. Contiguous(r, out, taken, through, TRUE)
  BY <1>4, <1>5 DEF Contiguous
<1> QED
  BY <1>6 DEF r

(* The gateway writes more, and the proxy loop takes a frame *)
LEMMA ContiguousLater ==
  ASSUME NEW q \in Seq(AppFrame), NEW out, NEW out1, NEW taken \in Nat, NEW taken1 \in Nat,
         taken <= taken1, \A i \in 1..taken : out1[i] = out[i], NEW through,
         NEW open \in BOOLEAN, NEW open1 \in BOOLEAN, open1 => open,
         Contiguous(q, out, taken, through, open)
  PROVE  Contiguous(q, out1, taken1, through, open1)
<1>1. ASSUME NEW k \in 1..Len(q), IsCopy(q[k])
      PROVE  /\ q[k].seq \in 3..taken1
             /\ q[k] = AddressTo(out1[q[k].seq], q[k].dst)
             /\ open1 => \A s \in q[k].seq..through : Holds(q, s)
  <2>1. q[k].seq \in 3..taken /\ q[k] = AddressTo(out[q[k].seq], q[k].dst)
    BY <1>1 DEF Contiguous
  <2>2. q[k].seq \in 1..taken /\ q[k].seq \in 3..taken1
    BY <2>1
  <2>3. out1[q[k].seq] = out[q[k].seq]
    BY <2>2
  <2>4. open1 => \A s \in q[k].seq..through : Holds(q, s)
    BY <1>1 DEF Contiguous
  <2> QED
    BY <2>1, <2>2, <2>3, <2>4
<1> QED
  BY <1>1 DEF Contiguous

(* The proxy loop is through with a frame *)
LEMMA ContiguousThrough ==
  ASSUME NEW q, NEW out, NEW taken \in Nat, NEW through \in Nat, NEW open,
         Contiguous(q, out, taken, through, open),
         open => \A k \in 1..Len(q) : IsCopy(q[k]) => Holds(q, through + 1)
  PROVE  Contiguous(q, out, taken, through + 1, open)
<1>1. ASSUME NEW k \in 1..Len(q), IsCopy(q[k]), open
      PROVE  \A s \in q[k].seq..(through + 1) : Holds(q, s)
  <2>1. q[k].seq \in Int /\ \A s \in q[k].seq..through : Holds(q, s)
    BY <1>1 DEF Contiguous
  <2>2. \A s \in q[k].seq..(through + 1) : s \in q[k].seq..through \/ s = through + 1
    BY <2>1
  <2> QED
    BY <1>1, <2>1, <2>2
<1> QED
  BY <1>1 DEF Contiguous

-----------------------------------------------------------------------------
(* The steps, for one app *)

LEMMA CopyPrimed ==
  ASSUME NEW c \in Conns,
         Contiguous(received'[c], gwOut', Taken', Through', c \notin closed'),
         c \notin apps' => \A k \in 1..Len(received'[c]) : ~IsCopy(received'[c][k]),
         c \notin visited' \/ (pto' # <<>> /\ pto'[1].conn = c) =>
           \A k \in 1..Len(received'[c]) : received'[c][k].seq <= Through',
         \/ c \notin visited' \/ (pto' # <<>> /\ pto'[1].conn = c) \/ c \in closed'
         \/ Holds(received'[c], Taken'),
         pdown' # <<>> /\ c \notin todo' =>
           \A k \in 1..Len(received'[c]) :
             IsCopy(received'[c][k]) => received'[c][k].seq > Through'
  PROVE  CopyInv(c)'
<1>1. Contiguous(received[c], gwOut, Taken, Through, c \notin closed)'
  BY DEF Contiguous, IsCopy, Holds, AddressTo
<1>2. (c \notin apps => \A k \in 1..Len(received[c]) : ~IsCopy(received[c][k]))'
  BY DEF IsCopy
<1>3. (Behind(c) => \A k \in 1..Len(received[c]) : received[c][k].seq <= Through)'
  BY DEF Behind
<1>4. (~Behind(c) /\ c \notin closed => Got(c, Taken))'
  BY DEF Behind, Got, Holds
<1>5. (pdown # <<>> /\ c \notin todo =>
         \A k \in 1..Len(received[c]) : IsCopy(received[c][k]) => received[c][k].seq > Through)'
  BY DEF IsCopy
<1> QED
  BY <1>1, <1>2, <1>3, <1>4, <1>5 DEF CopyInv

LEMMA GotHolds == \A c, s : Got(c, s) <=> Holds(received[c], s)
BY DEF Got, Holds

LEMMA ReceivedType ==
  ASSUME TypeOK, NEW c \in Conns
  PROVE  /\ received[c] \in Seq(AppFrame) /\ Len(received[c]) \in Nat
         /\ \A k \in 1..Len(received[c]) :
              received[c][k].seq \in Nat /\ (~IsCopy(received[c][k]) => received[c][k].seq = 0)
<1>1. received[c] \in Seq(AppFrame)
  BY DEF TypeOK, ListenerTypeOK
<1>2. \A k \in 1..Len(received[c]) : received[c][k] \in AppFrame
  BY <1>1
<1>3. \A f \in AppFrame : f.seq \in Nat /\ (~IsCopy(f) => f.seq = 0)
  BY DEF AppFrame, IsCopy
<1> QED
  BY <1>1, <1>2, <1>3

(* The app gets nothing. *)
LEMMA CopyStays ==
  ASSUME TypeOK, GatewayPipe, Ranging, NEW c \in Conns, CopyInv(c),
         received'[c] = received[c], closed \subseteq closed', apps \subseteq apps',
         UNCHANGED <<todo, pdown>>,
         c \notin visited' \/ (pto' # <<>> /\ pto'[1].conn = c) => Behind(c),
         Behind(c) => c \notin visited' \/ (pto' # <<>> /\ pto'[1].conn = c) \/ c \in closed',
         \A i \in 1..Len(gwOut) : gwOut'[i] = gwOut[i], Through' \in Nat,
         \/ Taken' = Taken /\ Through' = Through
         \/ Taken < 2 /\ Taken' = Taken + 1 /\ pdown = <<>>
  PROVE  CopyInv(c)'
<1> DEFINE q == received[c]
<1>0. /\ Taken \in Nat /\ Taken <= Len(gwOut) /\ Len(gwOut) \in Nat /\ Through \in Nat
      /\ \A k \in 1..Len(q) : q[k].seq \in Nat /\ (~IsCopy(q[k]) => q[k].seq = 0)
  BY TakenBound, ReceivedType
<1>1. \A i \in 1..Taken : gwOut'[i] = gwOut[i]
  BY <1>0
<1>2. CASE Taken' = Taken /\ Through' = Through
  <2>1. Contiguous(q, gwOut', Taken', Through', c \notin closed')
    <3>1. Contiguous(q, gwOut, Taken, Through, c \notin closed)
      BY DEF CopyInv
    <3>2. (c \notin closed') => (c \notin closed)
      OBVIOUS
    <3>3. q \in Seq(AppFrame) /\ Taken' \in Nat /\ Taken <= Taken'
      BY <1>0, <1>2, ReceivedType
    <3>4. Through' = Through
      BY <1>2
    <3> HIDE DEF q
    <3>5. Contiguous(q, gwOut', Taken', Through, c \notin closed')
      BY <1>0, <1>1, <3>1, <3>2, <3>3, ContiguousLater
    <3> QED
      BY <3>4, <3>5
  <2> QED
    BY <1>2, <2>1, CopyPrimed, GotHolds DEF CopyInv
<1>3. CASE Taken < 2 /\ Taken' = Taken + 1 /\ pdown = <<>>
  <2>1. \A k \in 1..Len(q) : ~IsCopy(q[k])
    BY <1>0, <1>3 DEF CopyInv, Contiguous
  <2>2. Contiguous(q, gwOut', Taken', Through', c \notin closed')
    BY <2>1 DEF Contiguous
  <2>3. \A k \in 1..Len(q) : q[k].seq <= Through'
    BY <1>0, <2>1
  <2>4. Behind(c)
    BY <1>3 DEF Ranging, Behind
  <2> QED
    BY <2>1, <2>2, <2>3, <2>4, CopyPrimed
<1> QED
  BY <1>2, <1>3

(* The handler of app c writes an answer of its own. *)
LEMMA CopyOwn ==
  ASSUME TypeOK, GatewayPipe, NEW c \in Conns, CopyInv(c), NEW f, f.seq = 0,
         received'[c] = Append(received[c], f),
         UNCHANGED <<closed, apps, todo, visited, pto, pdown, gwOut>>,
         Taken' = Taken, Through' = Through
  PROVE  CopyInv(c)'
<1> DEFINE q == received[c]
           r == Append(q, f)
<1>0. q \in Seq(AppFrame) /\ Through \in Nat
  BY TakenBound, ReceivedType
<1>1. /\ Len(q) \in Nat /\ Len(r) = Len(q) + 1 /\ r[Len(q) + 1] = f
      /\ \A k \in 1..Len(q) : r[k] = q[k]
      /\ \A k \in 1..(Len(q) + 1) : k \in 1..Len(q) \/ k = Len(q) + 1
  BY <1>0, Written
<1>2. \A k \in 1..Len(r) : (k \in 1..Len(q) /\ r[k] = q[k]) \/ (~IsCopy(r[k]) /\ r[k].seq = 0)
  BY <1>1 DEF IsCopy
<1>3. Contiguous(r, gwOut', Taken', Through', c \notin closed')
  BY <1>0, ContiguousOwn DEF CopyInv
<1>4. Holds(q, Taken) => Holds(r, Taken)
  BY <1>0, HoldsMore
<1> HIDE DEF r
<1>5. c \notin apps' => \A k \in 1..Len(r) : ~IsCopy(r[k])
  BY <1>2 DEF CopyInv
<1>6. Behind(c) => \A k \in 1..Len(r) : r[k].seq <= Through'
  BY <1>0, <1>2 DEF CopyInv
<1>7. pdown' # <<>> /\ c \notin todo' => \A k \in 1..Len(r) : IsCopy(r[k]) => r[k].seq > Through'
  BY <1>2 DEF CopyInv
<1>8. received'[c] = r
  BY DEF r
<1>9. \/ Behind(c) \/ c \in closed' \/ Holds(r, Taken')
  BY <1>4, GotHolds DEF CopyInv
<1> QED
  BY <1>3, <1>5, <1>6, <1>7, <1>8, <1>9, CopyPrimed DEF Behind

(* The proxy loop writes the frame in its hands to app c. *)
LEMMA CopyWritten ==
  ASSUME TypeOK, GatewayPipe, Ranging, NEW c \in Conns, CopyInv(c), c \notin closed,
         ppc = "write", pto[1].conn = c, NEW dst,
         received'[c] = Append(received[c], AddressTo(pdown[1], dst)),
         UNCHANGED <<closed, apps, todo, visited, pdown, gwOut>>, pto' = <<>>,
         Taken' = Taken, Through' = Through
  PROVE  CopyInv(c)'
<1> DEFINE q == received[c]
           f == AddressTo(pdown[1], dst)
           r == Append(q, f)
<1>0. /\ q \in Seq(AppFrame) /\ Through \in Nat /\ Taken = Through + 1 /\ Taken >= 3
      /\ Taken <= Len(gwOut) /\ pto # <<>> /\ pdown # <<>>
  BY TakenBound, ReceivedType, PipeLengths DEF GatewayPipe
<1>1. /\ Len(q) \in Nat /\ Len(r) = Len(q) + 1 /\ r[Len(q) + 1] = f
      /\ \A k \in 1..Len(q) : r[k] = q[k]
      /\ \A k \in 1..(Len(q) + 1) : k \in 1..Len(q) \/ k = Len(q) + 1
  BY <1>0, Written
<1>2. pdown[1] = gwOut[Taken] /\ gwOut[Taken].seq = Taken
  BY <1>0 DEF GatewayPipe
<1>3. f.seq = Taken
  BY <1>2 DEF AddressTo
<1>4. Behind(c) /\ \A k \in 1..Len(q) : q[k].seq <= Through
  BY <1>0 DEF CopyInv, Behind
<1>5. Contiguous(q, gwOut, Taken, Through, TRUE)
  <2>1. (c \notin closed) = TRUE
    OBVIOUS
  <2> QED
    BY <2>1 DEF CopyInv
<1>6. f = AddressTo(gwOut[Taken], dst)
  BY <1>2
<1>7. Holds(r, Taken)
  BY <1>0, <1>3, HoldsMore
<1> HIDE DEF f
<1>8. Contiguous(r, gwOut, Taken, Through, TRUE)
  BY <1>0, <1>3, <1>4, <1>5, <1>6, ContiguousCopy
<1>9. Contiguous(r, gwOut', Taken', Through', c \notin closed')
  <2>1. (c \notin closed') = TRUE
    OBVIOUS
  <2> QED
    BY <1>8, <2>1
<1>10. c \in apps' /\ c \in visited'
  BY <1>0 DEF Ranging
<1>11. received'[c] = r
  BY DEF r, f
<1>12. c \notin todo => \A k \in 1..Len(r) : IsCopy(r[k]) => r[k].seq > Through
  <2> HIDE DEF r
  <2>1. c \notin todo => \A k \in 1..Len(q) : IsCopy(q[k]) => q[k].seq > Through
    BY <1>0 DEF CopyInv
  <2> QED
    BY <1>0, <1>1, <1>3, <2>1
<1> HIDE DEF r
<1> QED
  BY <1>7, <1>9, <1>10, <1>11, <1>12, CopyPrimed

-----------------------------------------------------------------------------
(* The steps of the proxy loop *)

LEMMA TakesDown ==
  ASSUME TypeOK, GatewayPipe, ProxyTakeDown
  PROVE  /\ GatewayPipe' /\ Taken' = Taken + 1 /\ Through' = Through /\ Through = Taken
         /\ gwOut' = gwOut
<1> DEFINE f == Len(fromGateway)
           d == Len(dbuf)
<1>0. /\ fromGateway # <<>> /\ pdown' = <<Head(fromGateway)>> /\ fromGateway' = Tail(fromGateway)
      /\ UNCHANGED <<gwOut, gwRead, dbuf, cpc>> /\ ppc = "select"
  BY DEF ProxyTakeDown, linkVars
<1>1. /\ fromGateway \in Seq(GatewayFrame) /\ f \in Nat /\ d \in Nat /\ gwRead \in Nat
      /\ Taken \in Nat /\ Taken = gwRead - d - f
      /\ pdown = <<>>
  BY <1>0, PipeLengths, TakenBound DEF Taken
<1>2. cpc \notin Handshake /\ Taken >= 2
  BY <1>0 DEF GatewayPipe
<1>3. /\ f >= 1 /\ Head(fromGateway) = fromGateway[1] /\ Len(Tail(fromGateway)) = f - 1
      /\ \A i \in 1..(f - 1) : Tail(fromGateway)[i] = fromGateway[i + 1]
  BY <1>0, <1>1
<1>4. Taken' = gwRead - d - Len(fromGateway')
  BY <1>0 DEF Taken
<1>5. Taken' = Taken + 1
  <2> HIDE DEF f, d
  <2> QED
    BY <1>0, <1>1, <1>3, <1>4
<1>6. Through = Taken /\ Through' = Through
  <2>1. Len(pdown') = 1 /\ Len(pdown) = 0
    BY <1>0, <1>1
  <2> QED
    BY <1>1, <1>5, <2>1 DEF Through
<1>7. \A i \in 1..f : fromGateway[i] = gwOut[Taken + i]
  BY DEF GatewayPipe
<1>8. pdown'[1] = gwOut'[Taken']
  BY <1>0, <1>3, <1>5, <1>7
<1>9. \A i \in 1..Len(fromGateway') : fromGateway'[i] = gwOut'[Taken' + i]
  <2>1. ASSUME NEW i \in 1..(f - 1)
        PROVE  /\ i + 1 \in 1..f /\ Taken + (i + 1) = (Taken + 1) + i
               /\ fromGateway'[i] = fromGateway[i + 1]
    BY <1>0, <1>1, <1>3
  <2>2. Len(fromGateway') = f - 1
    BY <1>0, <1>3
  <2> HIDE DEF f
  <2>3. \A i \in 1..(f - 1) : fromGateway'[i] = gwOut[(Taken + 1) + i]
    BY <1>7, <2>1
  <2> QED
    BY <1>0, <1>5, <2>2, <2>3
<1>10. GatewayPipe'
  BY <1>0, <1>1, <1>2, <1>5, <1>8, <1>9 DEF GatewayPipe
<1> QED
  BY <1>0, <1>5, <1>6, <1>10

LEMMA CopyTakesDown ==
  ASSUME TypeOK, GatewayPipe, Ranging, NEW c \in Conns, CopyInv(c), ProxyTakeDown
  PROVE  CopyInv(c)'
<1> DEFINE q == received[c]
<1>0. /\ UNCHANGED <<received, closed, apps>> /\ visited' = {} /\ todo' = apps /\ ppc = "select"
  BY DEF ProxyTakeDown, listenerVars
<1>1. Taken' = Taken + 1 /\ Through' = Through /\ gwOut' = gwOut /\ Taken \in Nat /\ Taken' \in Nat
  BY TakesDown, TakenBound
<1>2. Behind(c)
  BY <1>0, PipeLengths DEF Ranging, Behind
<1>3. Contiguous(q, gwOut', Taken', Through', c \notin closed')
  <2>1. Contiguous(q, gwOut, Taken, Through, c \notin closed)
    BY DEF CopyInv
  <2>2. q \in Seq(AppFrame) /\ Taken <= Taken'
    BY <1>1, ReceivedType
  <2>3. \A i \in 1..Taken : gwOut'[i] = gwOut[i]
    BY <1>1
  <2>4. (c \notin closed') => (c \notin closed)
    BY <1>0
  <2> HIDE DEF q
  <2>5. Contiguous(q, gwOut', Taken', Through, c \notin closed')
    BY <1>1, <2>1, <2>2, <2>3, <2>4, ContiguousLater
  <2> QED
    BY <1>1, <2>5
<1>4. c \notin apps' => \A k \in 1..Len(q) : ~IsCopy(q[k])
  BY <1>0 DEF CopyInv
<1>5. \A k \in 1..Len(q) : q[k].seq <= Through'
  BY <1>1, <1>2 DEF CopyInv
<1>6. c \notin todo' => \A k \in 1..Len(q) : ~IsCopy(q[k])
  BY <1>0 DEF CopyInv
<1> QED
  BY <1>0, <1>3, <1>4, <1>5, <1>6, CopyPrimed

(* The frame was written to every app that was in the map when the copying *)
(* began, and to some that have joined since.                              *)
LEMMA CopyCopied ==
  ASSUME TypeOK, GatewayPipe, Ranging, NEW c \in Conns, CopyInv(c), ProxyCopied
  PROVE  CopyInv(c)' /\ Taken' = Taken /\ Through' = Taken
<1> DEFINE q == received[c]
<1>0. /\ UNCHANGED <<received, closed, apps, gwOut, gwRead, dbuf, fromGateway>> /\ visited' = {}
      /\ pdown' = <<>> /\ pdown # <<>> /\ pto = <<>> /\ todo \subseteq visited
  BY PipeLengths DEF ProxyCopied, listenerVars, clientVars
<1>1. /\ Taken' = Taken /\ Taken \in Nat /\ Through \in Nat /\ Taken = Through + 1
      /\ \A k \in 1..Len(q) : q[k].seq \in Nat /\ (~IsCopy(q[k]) => q[k].seq = 0)
  BY <1>0, TakenBound, ReceivedType DEF Taken
<1>2. Through' = Taken
  <2>1. Len(pdown') = 0
    BY <1>0
  <2> QED
    BY <1>1, <2>1 DEF Through
<1>3. c \notin closed => \A k \in 1..Len(q) : IsCopy(q[k]) => Holds(q, Through + 1)
  <2>1. CASE c \in visited
    BY <1>0, <1>1, <2>1, GotHolds DEF CopyInv, Behind
  <2>2. CASE c \notin visited
    <3>1. \A k \in 1..Len(q) : q[k].seq <= Through
      BY <2>2 DEF CopyInv, Behind
    <3>2. \A k \in 1..Len(q) : IsCopy(q[k]) => q[k].seq > Through
      BY <1>0, <2>2 DEF CopyInv
    <3> QED
      BY <1>1, <3>1, <3>2
  <2> QED
    BY <2>1, <2>2
<1>4. Contiguous(q, gwOut', Taken', Through', c \notin closed')
  <2>1. Contiguous(q, gwOut, Taken, Through, c \notin closed)
    BY DEF CopyInv
  <2> HIDE DEF q
  <2>2. Contiguous(q, gwOut, Taken, Through + 1, c \notin closed)
    BY <1>1, <1>3, <2>1, ContiguousThrough
  <2> QED
    BY <1>0, <1>1, <1>2, <2>2
<1>5. \A k \in 1..Len(q) : q[k].seq <= Through'
  BY <1>1, <1>2 DEF CopyInv, Contiguous
<1>6. c \notin apps' => \A k \in 1..Len(q) : ~IsCopy(q[k])
  BY <1>0 DEF CopyInv
<1> QED
  BY <1>0, <1>1, <1>2, <1>4, <1>5, <1>6, CopyPrimed

LEMMA CopyAddressed ==
  ASSUME TypeOK, GatewayPipe, Ranging, NEW c \in Conns, CopyInv(c), NEW d \in Conns, ProxyAddress(d)
  PROVE  CopyInv(c)'
<1>1. /\ UNCHANGED <<received, closed, apps, gwOut, gwRead, dbuf, fromGateway, todo, pdown>>
      /\ visited' = visited \cup {d} /\ d \notin visited /\ pto = <<>>
      /\ pto' # <<>> /\ pto'[1].conn = d
  BY PipeLengths DEF ProxyAddress, listenerVars, clientVars
<1>2. Taken' = Taken /\ Through' = Through /\ Through' \in Nat
  BY <1>1, TakenBound DEF Taken, Through
<1> QED
  BY <1>1, <1>2, CopyStays DEF Behind

LEMMA CopyWrite ==
  ASSUME TypeOK, GatewayPipe, Ranging, NEW c \in Conns, CopyInv(c), ProxyWrite
  PROVE  CopyInv(c)'
<1>1. /\ UNCHANGED <<closed, apps, gwOut, gwRead, dbuf, fromGateway, todo, pdown, visited>>
      /\ ppc = "write" /\ pto' = <<>>
      /\ WriteToApp(pto[1].conn, AddressTo(pdown[1], pto[1].dst))
  BY DEF ProxyWrite, appsVars, clientVars
<1>2. Taken' = Taken /\ Through' = Through /\ Through' \in Nat
  BY <1>1, TakenBound DEF Taken, Through
<1>3. received \in [Conns -> Seq(AppFrame)] /\ pto # <<>>
  BY <1>1, PipeLengths DEF TypeOK, ListenerTypeOK
<1>4. CASE pto[1].conn = c /\ c \notin closed
  <2>1. received'[c] = Append(received[c], AddressTo(pdown[1], pto[1].dst))
    BY <1>1, <1>3, <1>4 DEF WriteToApp
  <2> QED
    BY <1>1, <1>2, <1>4, <2>1, CopyWritten
<1>5. CASE pto[1].conn # c \/ c \in closed
  <2>1. received'[c] = received[c]
    BY <1>1, <1>3, <1>5 DEF WriteToApp
  <2> QED
    BY <1>1, <1>2, <1>5, <2>1, CopyStays DEF Behind
<1> QED
  BY <1>4, <1>5

-----------------------------------------------------------------------------
(* The steps of the app side.  Only the handler of app c writes to it, and *)
(* what it writes has no number.                                           *)

LEMMA ListenerWrites ==
  ASSUME TypeOK, ListenerNext, NEW c \in Conns
  PROVE  /\ closed \subseteq closed' /\ apps \subseteq apps'
         /\ \/ received'[c] = received[c]
            \/ /\ UNCHANGED <<closed, apps>>
               /\ hpc[c] \in {"handle", "node1", "node2"}
               /\ \E f \in AppFrame : f.seq = 0 /\ received'[c] = Append(received[c], f)
<1>0. received \in [Conns -> Seq(AppFrame)]
  BY DEF TypeOK, ListenerTypeOK
<1>1. CASE ListenerRun \/ \E d \in Conns : App(d) \/ Reader(d)
  <2>1. UNCHANGED received /\ closed \subseteq closed' /\ UNCHANGED apps
    BY <1>1 DEF ListenerRun, ListenerShutDown, ListenerDone, ListenerAccepting, AcceptTimeout,
       Accept, App, AppDial, AppSend, AppClose, AppStall, Reader, ReaderDone, LateReaderDone,
       ReaderReading, ReaderRead, ReaderTimeout, ReaderEof, ReaderPush, socketVars, appsVars
  <2> QED
    BY <2>1
<1>2. ASSUME NEW d \in Conns, InsertBegin(d) \/ InsertEnd(d) \/ HandlerDone(d)
                              \/ HandlerTake(d) \/ HandleForward(d)
      PROVE  UNCHANGED <<received, closed>> /\ apps \subseteq apps'
  BY <1>2 DEF InsertBegin, InsertEnd, HandlerDone, HandlerTake, HandlerTakeFrom,
     HandleForward, socketVars, appsVars
<1>3. ASSUME NEW d \in Conns, HandleRegister(d) \/ HandleStart(d) \/ NotifyNode(d)
      PROVE  /\ UNCHANGED <<closed, apps>>
             /\ \/ received'[c] = received[c]
                \/ /\ hpc[c] \in {"handle", "node1", "node2"}
                   /\ \E f \in AppFrame : f.seq = 0 /\ received'[c] = Append(received[c], f)
  <2>1. UNCHANGED <<closed, apps>> /\ hpc[d] \in {"handle", "node1", "node2"}
    BY <1>3 DEF HandleRegister, HandleStart, NotifyNode, appsVars
  <2>2. PICK f : /\ f \in {CreateResponse(hbuf[d][1]),
                           CreateCustomResponse(hbuf[d][1], "CnNodeNotification")}
                 /\ WriteToApp(d, f)
    BY <1>3 DEF HandleRegister, HandleStart, NotifyNode
  <2>3. hbuf[d] \in Seq(Request) /\ Len(hbuf[d]) = 1
    BY <2>1 DEF TypeOK, ListenerTypeOK
  <2>4. hbuf[d][1] \in Request
    BY <2>3
  <2>5. f \in AppFrame
    BY <2>2, <2>4, AnswersAreFrames
  <2>6. f.seq = 0
    BY <2>2 DEF CreateResponse, CreateCustomResponse
  <2>7. \/ received' = received
        \/ received' = [received EXCEPT ![d] = Append(@, f)]
    BY <2>2 DEF WriteToApp
  <2>8. CASE received' = received \/ d # c
    BY <1>0, <2>1, <2>7, <2>8
  <2>9. CASE d = c /\ received' = [received EXCEPT ![d] = Append(@, f)]
    BY <1>0, <2>1, <2>5, <2>6, <2>9
  <2> QED
    BY <2>7, <2>8, <2>9
<1>4. CASE \E d \in Conns : Handler(d)
  BY <1>2, <1>3, <1>4 DEF Handler
<1> QED
  BY <1>1, <1>4 DEF ListenerNext

LEMMA ListenerDown ==
  ASSUME TypeOK, DownInv, Running, ListenerNext, UNCHANGED <<ctx, clientVars, proxyVars>>
  PROVE  DownInv' /\ Taken' = Taken /\ Through' = Through /\ gwOut' = gwOut
<1>0. UNCHANGED <<gwOut, gwRead, dbuf, fromGateway, cpc, pdown, pto, todo, visited>>
  BY DEF clientVars, proxyVars
<1>1. GatewayPipe' /\ Taken' = Taken /\ Through' = Through /\ Through \in Nat
  <2>1. \A i \in 1..Len(gwOut') : gwOut'[i].seq = i
    BY <1>0 DEF DownInv, GatewayPipe
  <2> QED
    BY <1>0, <2>1, PipeStays, PipeLengths, TakenBound DEF DownInv
<1>2. Ranging'
  <2>1. apps \subseteq apps'
    <3>1. CASE Conns = {}
      BY <3>1 DEF TypeOK, ListenerTypeOK
    <3> QED
      BY <3>1, ListenerWrites
  <2> QED
    BY <1>0, <2>1 DEF DownInv, Ranging
<1>3. ASSUME NEW c \in Conns
      PROVE  CopyInv(c)'
  <2>0. CopyInv(c) /\ GatewayPipe /\ Ranging
    BY DEF DownInv
  <2>1. CASE received'[c] = received[c]
    <3>1. closed \subseteq closed' /\ apps \subseteq apps'
      BY ListenerWrites
    <3>2. \A i \in 1..Len(gwOut) : gwOut'[i] = gwOut[i]
      BY <1>0
    <3>3. (c \notin visited' \/ (pto' # <<>> /\ pto'[1].conn = c)) <=> Behind(c)
      BY <1>0 DEF Behind
    <3> QED
      BY <1>0, <1>1, <2>0, <2>1, <3>1, <3>2, <3>3, CopyStays
  <2>2. CASE received'[c] # received[c]
    <3>1. PICK f : f.seq = 0 /\ received'[c] = Append(received[c], f)
      BY <2>2, ListenerWrites
    <3>2. UNCHANGED <<closed, apps>>
      BY <2>2, ListenerWrites
    <3> QED
      BY <1>0, <1>1, <2>0, <3>1, <3>2, CopyOwn
  <2> QED
    BY <2>1, <2>2
<1> QED
  BY <1>0, <1>1, <1>2, <1>3 DEF DownInv

LEMMA ClientDown ==
  ASSUME TypeOK, DownInv, Running, ClientNext, UNCHANGED <<ctx, listenerVars, proxyVars>>
  PROVE  DownInv'
<1>0. /\ UNCHANGED <<received, closed, apps, pdown, pto, todo, visited>> /\ UNCHANGED proxyVars
      /\ GatewayPipe /\ Ranging
  BY DEF listenerVars, proxyVars, DownInv
<1>1. /\ GatewayPipe' /\ \A i \in 1..Len(gwOut) : gwOut'[i] = gwOut[i]
      /\ \/ Taken' = Taken /\ Through' = Through
         \/ Taken < 2 /\ Taken' = Taken + 1 /\ pdown = <<>>
  BY <1>0, ClientFrames
<1>2. Through' \in Nat
  <2>1. Taken \in Nat /\ Through \in Nat
    BY <1>0, TakenBound
  <2>2. CASE Taken' = Taken + 1 /\ pdown = <<>>
    <3>1. pdown' = <<>> /\ Len(pdown') = 0
      BY <1>0, <2>2
    <3> QED
      BY <2>1, <2>2, <3>1 DEF Through
  <2> QED
    BY <1>1, <2>1, <2>2
<1>3. Ranging'
  BY <1>0 DEF Ranging
<1>4. ASSUME NEW c \in Conns
      PROVE  CopyInv(c)'
  <2>1. CopyInv(c)
    BY DEF DownInv
  <2>2. (c \notin visited' \/ (pto' # <<>> /\ pto'[1].conn = c)) <=> Behind(c)
    BY <1>0 DEF Behind
  <2> QED
    BY <1>0, <1>1, <1>2, <2>1, <2>2, CopyStays
<1> QED
  BY <1>1, <1>3, <1>4 DEF DownInv

(* Steps that neither move a frame nor write to an app *)
LEMMA OthersDown ==
  ASSUME TypeOK, DownInv, UNCHANGED <<gwOut, gwRead, dbuf, fromGateway, pdown, pto, todo, visited>>,
         UNCHANGED <<received, closed, apps>>,
         \/ cpc' = cpc /\ Running
         \/ UNCHANGED <<cpc, status>>
         \/ cpc = "none" /\ cpc' = "discover" /\ Running
  PROVE  DownInv'
<1>0. GatewayPipe /\ Ranging
  BY DEF DownInv
<1>1. GatewayPipe' /\ Taken' = Taken /\ Through' = Through /\ Through \in Nat
  <2>1. \A i \in 1..Len(gwOut') : gwOut'[i].seq = i
    BY <1>0 DEF GatewayPipe
  <2> QED
    BY <1>0, <2>1, PipeStays, PipeLengths, TakenBound
<1>2. Ranging'
  BY <1>0 DEF Ranging
<1>3. ASSUME NEW c \in Conns
      PROVE  CopyInv(c)'
  <2>1. CopyInv(c)
    BY DEF DownInv
  <2>2. (c \notin visited' \/ (pto' # <<>> /\ pto'[1].conn = c)) <=> Behind(c)
    BY DEF Behind
  <2> QED
    BY <1>0, <1>1, <2>1, <2>2, CopyStays
<1> QED
  BY <1>1, <1>2, <1>3 DEF DownInv

LEMMA ProxyRunDown ==
  ASSUME TypeOK, DownInv, Running, ProxyRun
  PROVE  DownInv'
<1>0. GatewayPipe /\ Ranging /\ \A c \in Conns : CopyInv(c)
  BY DEF DownInv
<1>1. CASE RunClient \/ RunListener \/ ProxyShutDown \/ ProxyReturn \/ ProxyTakeUp \/ ProxyForward
  <2>1. /\ UNCHANGED <<gwOut, gwRead, dbuf, fromGateway, pdown, pto, todo, visited>>
        /\ UNCHANGED <<received, closed, apps>>
    BY <1>1 DEF RunClient, RunListener, ProxyShutDown, ProxyReturn, ProxyTakeUp, ProxyForward,
       clientVars, listenerVars, linkVars, socketVars, appsVars
  <2>2. cpc' = cpc \/ (cpc = "none" /\ cpc' = "discover")
    BY <1>1 DEF RunClient, RunListener, ProxyShutDown, ProxyReturn, ProxyTakeUp, ProxyForward,
       clientVars, TypeOK
  <2> QED
    BY <2>1, <2>2, OthersDown
<1>2. CASE ProxyTakeDown
  <2>1. Ranging'
    BY <1>2, <1>0, PipeLengths DEF ProxyTakeDown, Ranging, listenerVars
  <2>2. \A c \in Conns : CopyInv(c)'
    BY <1>0, <1>2, CopyTakesDown
  <2> QED
    BY <1>0, <1>2, <2>1, <2>2, TakesDown DEF DownInv
<1>3. CASE ProxyCopied
  <2>1. Ranging'
    BY <1>3, <1>0, PipeLengths DEF ProxyCopied, Ranging, listenerVars
  <2>2. \A c \in Conns : CopyInv(c)'
    BY <1>0, <1>3, CopyCopied
  <2>3. GatewayPipe'
    <3>1. UNCHANGED <<gwOut, gwRead, dbuf, fromGateway, cpc, status>> /\ pdown' = <<>>
      BY <1>3 DEF ProxyCopied, clientVars, runtimeVars
    <3> QED
      BY <1>0, <3>1 DEF GatewayPipe, Taken, Running, HandshakeRead
  <2> QED
    BY <2>1, <2>2, <2>3 DEF DownInv
<1>4. ASSUME \/ \E d \in Conns : ProxyAddress(d)
             \/ ProxyWrite
      PROVE  DownInv'
  <2>1. UNCHANGED <<gwOut, gwRead, dbuf, fromGateway, cpc, status, pdown, apps, todo>>
    BY <1>4 DEF ProxyAddress, ProxyWrite, clientVars, runtimeVars, listenerVars, appsVars
  <2>2. GatewayPipe'
    BY <1>0, <2>1 DEF GatewayPipe, Taken, Running, HandshakeRead
  <2>3. Ranging'
    BY <1>0, <1>4, <2>1, PipeLengths DEF ProxyAddress, ProxyWrite, Ranging
  <2>4. \A c \in Conns : CopyInv(c)'
    BY <1>0, <1>4, CopyAddressed, CopyWrite
  <2> QED
    BY <2>2, <2>3, <2>4 DEF DownInv
<1> QED
  BY <1>1, <1>2, <1>3, <1>4 DEF ProxyRun

LEMMA NextDown ==
  ASSUME TypeOK, DownInv, [Next]_vars
  PROVE  DownInv'
<1>1. CASE Running /\ (Main \/ Throw)
  <2>1. UNCHANGED <<clientVars, listenerVars, ppc, pbuf, pdown, pto, todo, visited>>
    BY <1>1 DEF Main, Interrupt, MainWait, MainExit, Throw, proxyVars
  <2> QED
    BY <1>1, <2>1, OthersDown DEF clientVars, listenerVars
<1>2. CASE Over \/ UNCHANGED vars
  BY <1>2, OthersDown DEF Over, vars, runtimeVars, clientVars, listenerVars, proxyVars
<1>3. CASE Running /\ ListenerNext /\ UNCHANGED <<ctx, clientVars, proxyVars>>
  BY <1>3, ListenerDown
<1>4. CASE Running /\ ClientNext /\ UNCHANGED <<ctx, listenerVars, proxyVars>>
  BY <1>4, ClientDown
<1>5. CASE Running /\ ProxyRun
  BY <1>5, ProxyRunDown
<1> QED
  BY <1>1, <1>2, <1>3, <1>4, <1>5 DEF Next

LEMMA InitDown == ASSUME Init PROVE DownInv
<1>0. /\ gwOut = <<>> /\ gwRead = 0 /\ dbuf = <<>> /\ fromGateway = <<>> /\ cpc = "none"
      /\ pdown = <<>> /\ pto = <<>> /\ todo = {} /\ visited = {} /\ apps = {}
      /\ received = [c \in Conns |-> <<>>]
  BY DEF Init, ClientInit, ListenerInit
<1>1. GatewayPipe
  BY <1>0 DEF GatewayPipe, Handshake, HandshakeRead
<1>2. Ranging
  BY <1>0 DEF Ranging
<1>3. ASSUME NEW c \in Conns PROVE CopyInv(c)
  <2>1. received[c] = <<>> /\ Len(received[c]) = 0
    BY <1>0
  <2>2. 1..Len(received[c]) = {}
    BY <2>1
  <2>3. Behind(c)
    BY <1>0 DEF Behind
  <2>4. Contiguous(received[c], gwOut, Taken, Through, c \notin closed)
    BY <2>2 DEF Contiguous
  <2> QED
    BY <1>0, <2>2, <2>3, <2>4 DEF CopyInv
<1> QED
  BY <1>1, <1>2, <1>3 DEF DownInv

LEMMA DownContiguous == DownInv => DownstreamContiguous
<1>1. \A c \in Conns : CopyInv(c) => Contiguous(received[c], gwOut, Taken, Through, c \notin closed)
  BY DEF CopyInv
<1> QED
  BY <1>1 DEF DownInv, Contiguous, DownstreamContiguous, Got, Holds

(* Every app that has got a frame of the gateway gets every later one, in  *)
(* order, once and unaltered, however many apps join while the proxy loop  *)
(* ranges over the map.                                                    *)
THEOREM CopiedContiguously == Spec => []DownstreamContiguous
<1>1. Init => DownInv
  BY InitDown
<1>2. TypeOK /\ DownInv /\ [Next]_vars => DownInv'
  BY NextDown
<1>3. DownInv => DownstreamContiguous
  BY DownContiguous
<1> QED
  BY <1>1, <1>2, <1>3, TypeCorrect, PTL DEF Spec

-----------------------------------------------------------------------------
(* The handler knows its app before the gateway hears of it *)

LEMMA AppsOfAppend ==
  ASSUME NEW T, NEW q \in Seq(T), NEW m
  PROVE  AppsOf(Append(q, m)) = AppsOf(q) \cup {m.app}
<1> DEFINE r == Append(q, m)
<1>1. /\ Len(q) \in Nat /\ Len(r) = Len(q) + 1 /\ r[Len(q) + 1] = m
      /\ \A i \in 1..Len(q) : r[i] = q[i]
      /\ 1..(Len(q) + 1) = 1..Len(q) \cup {Len(q) + 1}
  OBVIOUS
<1> HIDE DEF r
<1>2. AppsOf(r) = AppsOf(q) \cup {m.app}
  BY <1>1 DEF AppsOf
<1> QED
  BY <1>2 DEF r

LEMMA AppsOfTail ==
  ASSUME NEW T, NEW q \in Seq(T), q # <<>>
  PROVE  AppsOf(Tail(q)) \subseteq AppsOf(q) /\ Head(q).app \in AppsOf(q)
<1> DEFINE r == Tail(q)
<1>1. /\ \A i \in 1..Len(r) : i + 1 \in 1..Len(q) /\ r[i] = q[i + 1]
      /\ 1 \in 1..Len(q) /\ Head(q) = q[1]
  OBVIOUS
<1> HIDE DEF r
<1>2. AppsOf(r) \subseteq AppsOf(q) /\ Head(q).app \in AppsOf(q)
  BY <1>1 DEF AppsOf
<1> QED
  BY <1>2 DEF r

LEMMA AppsOfConcat ==
  ASSUME NEW T, NEW q \in Seq(T), NEW r \in Seq(T)
  PROVE  AppsOf(q \o r) \subseteq AppsOf(q) \cup AppsOf(r)
<1> DEFINE s == q \o r
<1>1. /\ s \in Seq(T) /\ Len(s) = Len(q) + Len(r) /\ Len(q) \in Nat /\ Len(r) \in Nat
      /\ \A i \in 1..Len(s) : s[i] = IF i <= Len(q) THEN q[i] ELSE r[i - Len(q)]
  BY ConcatProperties
<1> HIDE DEF s
<1>2. \A i \in 1..Len(s) : i \in 1..Len(q) \/ i - Len(q) \in 1..Len(r)
  BY <1>1
<1>3. ASSUME NEW i \in 1..Len(s) PROVE s[i].app \in AppsOf(q) \cup AppsOf(r)
  <2>1. CASE i \in 1..Len(q)
    BY <1>1, <2>1 DEF AppsOf
  <2>2. CASE i \notin 1..Len(q)
    <3>1. i - Len(q) \in 1..Len(r) /\ s[i] = r[i - Len(q)]
      BY <1>1, <1>2, <2>2
    <3> QED
      BY <3>1 DEF AppsOf
  <2> QED
    BY <2>1, <2>2
<1>4. AppsOf(s) \subseteq AppsOf(q) \cup AppsOf(r)
  BY <1>3 DEF AppsOf
<1> QED
  BY <1>4 DEF s

LEMMA AppsOfOne == \A m : AppsOf(<<m>>) = {m.app}
<1> TAKE m
<1> DEFINE r == <<m>>
<1>1. 1..Len(r) = {1} /\ r[1] = m
  OBVIOUS
<1> HIDE DEF r
<1>2. AppsOf(r) = {m.app}
  BY <1>1 DEF AppsOf
<1> QED
  BY <1>2 DEF r

LEMMA AppsOfNone == AppsOf(<<>>) = {}
<1>1. 1..Len(<<>>) = {}
  OBVIOUS
<1> QED
  BY <1>1 DEF AppsOf

(* What the handler holds is its app's, and marked as such *)
LEMMA OwnInHands ==
  ASSUME TypeOK, DeliveryInv, NEW c \in Conns
  PROVE  /\ Len(hbuf[c]) = 1 => hbuf[c][1].app = c /\ hbuf[c][1].src = c
         /\ hbuf[c] = <<>> /\ mch[c] # <<>> => Head(mch[c]).src = c
<1> DEFINE q == InHands(c)
           h == Handled(c)
           s == sent[c]
<1>1. /\ q \in Seq(Request) /\ Len(q) \in Nat /\ h \in Int /\ Len(q) = got[c] - h
      /\ s \in Seq(Request) /\ Len(s) \in Nat /\ got[c] \in Nat
  BY HandsType DEF HandsTypeOK, TypeOK
<1>2. /\ got[c] <= Len(s) /\ h >= 0 /\ \A i \in 1..Len(q) : q[i] = s[h + i]
      /\ \A i \in 1..Len(s) : s[i].app = c /\ s[i].src = c
  BY DEF DeliveryInv, AppSide, Hands, Labelled
<1>3. Len(q) >= 1 => q[1].app = c /\ q[1].src = c
  <2> HIDE DEF q, h, s
  <2>1. Len(q) >= 1 => 1 \in 1..Len(q) /\ h + 1 \in 1..Len(s)
    BY <1>1, <1>2
  <2> QED
    BY <1>2, <2>1
<1>4. hbuf[c] \in Seq(Request) /\ mch[c] \in Seq(Request) /\ rbuf[c] \in Seq(Request)
  BY DEF TypeOK, ListenerTypeOK
<1>5. ASSUME NEW x \in Seq(Request), NEW y \in Seq(Request), x # <<>>
      PROVE  Len(x \o y) >= 1 /\ (x \o y)[1] = x[1] /\ x \o y # <<>> /\ x \o y \in Seq(Request)
  BY <1>5, ConcatProperties
<1>6. ASSUME Len(hbuf[c]) = 1 PROVE Len(q) >= 1 /\ q[1] = hbuf[c][1]
  <2>1. hbuf[c] # <<>>
    BY <1>6
  <2>2. /\ hbuf[c] \o mch[c] # <<>> /\ hbuf[c] \o mch[c] \in Seq(Request)
        /\ (hbuf[c] \o mch[c])[1] = hbuf[c][1]
    BY <1>4, <1>5, <2>1, Zenon
  <2> QED
    BY <1>4, <1>5, <2>2, Zenon DEF InHands
<1>7. ASSUME hbuf[c] = <<>>, mch[c] # <<>> PROVE Len(q) >= 1 /\ q[1] = Head(mch[c])
  <2>1. hbuf[c] \o mch[c] = mch[c]
    BY <1>4, <1>7, ConcatEmptySeq, Zenon
  <2>2. Len(q) >= 1 /\ q[1] = mch[c][1]
    BY <1>4, <1>5, <1>7, <2>1, Zenon DEF InHands
  <2>3. Head(mch[c]) = mch[c][1]
    BY <1>4, <1>7
  <2> QED
    BY <2>2, <2>3
<1> HIDE DEF q
<1> QED
  BY <1>3, <1>6, <1>7

(* Only handlers touch the map and the uuids: they enter the app, and set  *)
(* its uuid when they take its first message.                              *)
LEMMA HandlerKnows ==
  ASSUME TypeOK, DeliveryInv, KnownInv, NEW d \in Conns, Handler(d), UNCHANGED ctx
  PROVE  /\ \A c \in Conns :
              /\ Known(c) => Known(c)'
              /\ ~ctx /\ hpc'[c] \in {"none", "insert", "inserting"} => c \notin apps'
              /\ hpc'[c] \in {"select", "handle", "node1", "node2", "again"} => c \in apps'
              /\ hpc'[c] \in {"handle", "node1", "node2"} => Known(c)'
              /\ c \notin apps' => uuid'[c] = NoUuid
              /\ ~ctx => uuid'[c] = uuid[c] \/ uuid'[c] = c
         /\ AppsOf(toGateway') \subseteq AppsOf(toGateway) \cup {c \in Conns : Known(c)}
<1>0. /\ uuid \in [Conns -> Uuids] /\ apps \subseteq Conns
      /\ hpc \in [Conns -> {"none", "insert", "inserting", "select", "handle", "node1", "node2", "again"}]
      /\ toGateway \in Seq(Request)
  BY DEF TypeOK, ListenerTypeOK
<1>1. \A c \in Conns :
        /\ ~ctx /\ hpc[c] \in {"none", "insert", "inserting"} => c \notin apps
        /\ hpc[c] \in {"select", "handle", "node1", "node2", "again"} => c \in apps
        /\ hpc[c] \in {"handle", "node1", "node2"} => Known(c)
        /\ c \notin apps => uuid[c] = NoUuid
  BY DEF KnownInv
<1>2. d # NoUuid
  BY ActorsAssumption
<1>3. CASE InsertBegin(d) \/ HandlerDone(d) \/ HandleStart(d) \/ NotifyNode(d)
  <2>1. UNCHANGED <<apps, uuid, toGateway>>
    BY <1>3 DEF InsertBegin, HandlerDone, HandleStart, NotifyNode, appsVars
  <2>2. \A c \in Conns : Known(c)' <=> Known(c)
    BY <2>1 DEF Known
  <2>3. \A c \in Conns \ {d} : hpc'[c] = hpc[c]
    BY <1>0, <1>3 DEF InsertBegin, HandlerDone, HandleStart, NotifyNode
  <2>4. \/ hpc[d] = "insert" /\ hpc'[d] = "inserting"
        \/ ctx /\ hpc[d] \in {"select", "again"} /\ hpc'[d] = "insert"
        \/ hpc[d] = "handle" /\ hpc'[d] = "node1"
        \/ hpc[d] \in {"node1", "node2"} /\ hpc'[d] \in {"node2", "select"}
    BY <1>0, <1>3 DEF InsertBegin, HandlerDone, HandleStart, NotifyNode
  <2> QED
    BY <1>1, <2>1, <2>2, <2>3, <2>4
<1>4. CASE InsertEnd(d)
  <2>1. /\ hpc[d] = "inserting" /\ hpc'[d] \in {"select", "again"} /\ toGateway' = toGateway
        /\ apps' = apps \cup {d} /\ uuid' = [uuid EXCEPT ![d] = NoUuid]
        /\ \A c \in Conns \ {d} : hpc'[c] = hpc[c]
    BY <1>0, <1>4 DEF InsertEnd
  <2>2. ~ctx => uuid' = uuid
    BY <1>0, <1>1, <2>1
  <2>3. \A c \in Conns : Known(c) => Known(c)'
    BY <1>0, <2>1, <2>2 DEF Known
  <2> QED
    BY <1>0, <1>1, <2>1, <2>2, <2>3
<1>5. CASE HandlerTake(d)
  <2>1. /\ hpc[d] = "select" /\ hpc'[d] = "handle" /\ UNCHANGED <<toGateway, apps>>
        /\ \A c \in Conns \ {d} : hpc'[c] = hpc[c]
        /\ uuid' = [uuid EXCEPT ![d] = Head(mch[d]).src] /\ mch[d] # <<>>
    BY <1>0, <1>5 DEF HandlerTake, HandlerTakeFrom
  <2>2. hbuf[d] = <<>>
    <3>1. hbuf[d] \in Seq(Request) /\ Len(hbuf[d]) = 0
      BY <2>1 DEF TypeOK, ListenerTypeOK
    <3> QED
      BY <3>1, EmptySeq
  <2>3. Head(mch[d]).src = d
    BY <2>1, <2>2, OwnInHands
  <2>4. uuid'[d] = d /\ \A c \in Conns \ {d} : uuid'[c] = uuid[c]
    BY <1>0, <2>1, <2>3
  <2>5. \A c \in Conns : Known(c) => Known(c)'
    BY <2>1, <2>4 DEF Known
  <2>6. Known(d)'
    BY <1>1, <2>1, <2>4 DEF Known
  <2> QED
    BY <1>1, <2>1, <2>4, <2>5, <2>6
<1>6. CASE HandleRegister(d) \/ HandleForward(d)
  <2>1. /\ hpc[d] = "handle" /\ hpc'[d] = "select" /\ UNCHANGED apps
        /\ \A c \in Conns \ {d} : hpc'[c] = hpc[c]
        /\ uuid' = [uuid EXCEPT ![d] = hbuf[d][1].src] \/ uuid' = uuid
        /\ toGateway' = toGateway \/ toGateway' = Append(toGateway, hbuf[d][1])
    BY <1>0, <1>6 DEF HandleRegister, HandleForward, appsVars
  <2>2. Len(hbuf[d]) = 1
    BY <2>1 DEF TypeOK, ListenerTypeOK
  <2>3. hbuf[d][1].app = d /\ hbuf[d][1].src = d
    BY <2>2, OwnInHands
  <2>4. \A c \in Conns : uuid'[c] = uuid[c] \/ (c = d /\ uuid'[c] = c)
    BY <1>0, <2>1, <2>3
  <2>5. \A c \in Conns : Known(c) => Known(c)'
    BY <2>1, <2>4 DEF Known
  <2>6. Known(d)
    BY <1>1, <2>1
  <2>7. AppsOf(toGateway') \subseteq AppsOf(toGateway) \cup {c \in Conns : Known(c)}
    <3>1. CASE toGateway' = toGateway
      BY <3>1
    <3>2. CASE toGateway' = Append(toGateway, hbuf[d][1])
      <4>1. AppsOf(Append(toGateway, hbuf[d][1])) = AppsOf(toGateway) \cup {d}
        BY <1>0, <2>3, AppsOfAppend
      <4> QED
        BY <2>6, <3>2, <4>1
    <3> QED
      BY <2>1, <3>1, <3>2
  <2> QED
    BY <1>1, <2>1, <2>4, <2>5, <2>6, <2>7
<1> QED
  BY <1>3, <1>4, <1>5, <1>6 DEF Handler

LEMMA AppsOfWrite ==
  ASSUME TypeOK, NEW m, WriteToGateway(m)
  PROVE  AppsOf(gwIn') \subseteq AppsOf(gwIn) \cup {m.app}
<1>1. gwIn \in Seq(Request) /\ (gwIn' = gwIn \/ gwIn' = Append(gwIn, m))
  BY DEF TypeOK, ClientTypeOK, WriteToGateway
<1>2. AppsOf(Append(gwIn, m)) = AppsOf(gwIn) \cup {m.app}
  BY <1>1, AppsOfAppend
<1> QED
  BY <1>1, <1>2

LEMMA ClientUnderway ==
  ASSUME TypeOK, ClientNext, UNCHANGED <<toGateway, pbuf>>
  PROVE  Underway' \subseteq Underway \cup {Self}
<1>0. /\ gwIn \in Seq(Request) /\ toClient \in Seq(Request) /\ cbuf \in Seq(Request)
      /\ gwOut \in Seq(GatewayFrame)
  BY DEF TypeOK, ClientTypeOK
<1>1. ASSUME NEW m, m.app = Self, WriteToGateway(m), UNCHANGED <<toClient, cbuf, gwOut>>
      PROVE  Underway' \subseteq Underway \cup {Self}
  BY <1>1, AppsOfWrite DEF Underway
<1>2. CASE Register \/ Start \/ ClientClosing \/ KeepAliveTick
  <2>1. UNCHANGED <<toClient, cbuf, gwOut>>
    BY <1>2 DEF Register, Start, ClientClosing, KeepAliveTick
  <2>2. \A kind, n : OwnRequest(kind, n).app = Self
    BY DEF OwnRequest
  <2>3. \E m : m.app = Self /\ WriteToGateway(m)
    BY <1>2, <2>2 DEF Register, Start, ClientClosing, KeepAliveTick
  <2> QED
    BY <1>1, <2>1, <2>3
<1>3. CASE \/ Discover \/ Dial \/ RegisterConfirm \/ StartConfirm \/ KeepAliveDone
           \/ ClientDone \/ ClientReceiving \/ ClientReceive \/ ClientTimeout \/ ClientLost
           \/ ClientPush
  <2>1. UNCHANGED <<toClient, cbuf, gwIn, gwOut>>
    BY <1>3 DEF Discover, Dial, RegisterConfirm, StartConfirm, KeepAliveDone,
       ClientDone, ClientReceiving, ClientReceive, ClientTimeout, ClientLost, ClientPush, linkVars
  <2> QED
    BY <2>1 DEF Underway
<1>4. CASE ClientTake
  <2>1. /\ toClient # <<>> /\ cbuf' = <<Masquerade(Head(toClient))>> /\ toClient' = Tail(toClient)
        /\ UNCHANGED <<gwIn, gwOut>>
    BY <1>4 DEF ClientTake, linkVars
  <2>2. Head(toClient) \in Request
    BY <1>0, <2>1
  <2>3. Masquerade(Head(toClient)).app = Head(toClient).app
    BY <2>2 DEF Masquerade, Request
  <2>4. AppsOf(cbuf') \subseteq AppsOf(toClient) /\ AppsOf(toClient') \subseteq AppsOf(toClient)
    BY <1>0, <2>1, <2>3, AppsOfTail, AppsOfOne
  <2> QED
    BY <2>1, <2>4 DEF Underway
<1>5. CASE ClientSend
  <2>1. /\ WriteToGateway(cbuf[1]) /\ cbuf' = <<>> /\ UNCHANGED <<toClient, gwOut>>
        /\ Len(cbuf) = 1
    BY <1>5 DEF ClientSend, TypeOK, ClientTypeOK
  <2>2. cbuf[1].app \in AppsOf(cbuf)
    BY <2>1 DEF AppsOf
  <2> QED
    BY <2>1, <2>2, AppsOfWrite, AppsOfNone DEF Underway
<1>6. CASE Gateway
  <2>1. UNCHANGED <<toClient, cbuf, gwIn>>
    BY <1>6 DEF Gateway, GatewayAnswer, GatewayNotify, GatewayDrop
  <2>2. gwOut' = gwOut \/ \E f : f.app \in AppsOf(gwIn) \cup {Self} /\ gwOut' = Append(gwOut, f)
    <3>1. CASE GatewayAnswer
      <4>1. gwSeen + 1 \in 1..Len(gwIn)
        BY <1>0, <3>1 DEF GatewayAnswer, TypeOK, ClientTypeOK
      <4> QED
        BY <3>1, <4>1 DEF GatewayAnswer, AppsOf
    <3> QED
      BY <1>6, <3>1 DEF Gateway, GatewayNotify, GatewayDrop
  <2>3. AppsOf(gwOut') \subseteq AppsOf(gwOut) \cup AppsOf(gwIn) \cup {Self}
    BY <1>0, <2>2, AppsOfAppend
  <2> QED
    BY <2>1, <2>3 DEF Underway
<1> QED
  BY <1>2, <1>3, <1>4, <1>5, <1>6 DEF ClientNext, NewSession, ClientLoop, KeepAlive

LEMMA ProxyUnderway ==
  ASSUME TypeOK, ProxyRun
  PROVE  Underway' \subseteq Underway
<1>0. toGateway \in Seq(Request) /\ toClient \in Seq(Request) /\ pbuf \in Seq(Request)
  BY DEF TypeOK, ListenerTypeOK, ClientTypeOK
<1>1. CASE ProxyTakeUp
  <2>1. /\ toGateway # <<>> /\ pbuf' = <<Head(toGateway)>> /\ toGateway' = Tail(toGateway)
        /\ UNCHANGED <<toClient, cbuf, gwIn, gwOut>>
    BY <1>1 DEF ProxyTakeUp, clientVars
  <2>2. AppsOf(pbuf') \subseteq AppsOf(toGateway) /\ AppsOf(toGateway') \subseteq AppsOf(toGateway)
    BY <1>0, <2>1, AppsOfTail, AppsOfOne
  <2> QED
    BY <2>1, <2>2 DEF Underway
<1>2. CASE ProxyForward
  <2>1. /\ toClient' = toClient \o pbuf /\ pbuf' = <<>>
        /\ UNCHANGED <<toGateway, cbuf, gwIn, gwOut>>
    BY <1>2 DEF ProxyForward, linkVars, listenerVars
  <2>2. AppsOf(toClient') \subseteq AppsOf(toClient) \cup AppsOf(pbuf)
    BY <1>0, <2>1, AppsOfConcat
  <2> QED
    BY <2>1, <2>2, AppsOfNone DEF Underway
<1>3. CASE \/ RunClient \/ RunListener \/ ProxyShutDown \/ ProxyReturn \/ ProxyTakeDown
           \/ (\E c \in Conns : ProxyAddress(c)) \/ ProxyWrite \/ ProxyCopied
  <2>1. UNCHANGED <<toGateway, pbuf, toClient, cbuf, gwIn, gwOut>>
    BY <1>3 DEF RunClient, RunListener, ProxyShutDown, ProxyReturn, ProxyTakeDown, ProxyAddress,
       ProxyWrite, ProxyCopied, listenerVars, clientVars, linkVars
  <2> QED
    BY <2>1 DEF Underway
<1> QED
  BY <1>1, <1>2, <1>3 DEF ProxyRun

LEMMA KnownStays ==
  ASSUME TypeOK, KnownInv, UNCHANGED <<apps, uuid, hpc>>, ctx => ctx',
         Underway' \subseteq Underway \cup {Self}
  PROVE  KnownInv'
<1>1. \A c \in Conns : Known(c) => Known(c)'
  BY DEF Known
<1>2. \A c \in Underway' \cap Conns : Known(c)'
  BY <1>1, ActorsAssumption DEF KnownInv
<1>3. \A c \in Conns :
        /\ ~ctx' /\ hpc'[c] \in {"none", "insert", "inserting"} => c \notin apps'
        /\ hpc'[c] \in {"select", "handle", "node1", "node2", "again"} => c \in apps'
        /\ hpc'[c] \in {"handle", "node1", "node2"} => Known(c)'
        /\ c \notin apps' => uuid'[c] = NoUuid
  BY <1>1 DEF KnownInv
<1> QED
  BY <1>2, <1>3 DEF KnownInv

LEMMA ListenerKnows ==
  ASSUME TypeOK, DeliveryInv, KnownInv, ListenerNext, UNCHANGED <<ctx, clientVars, proxyVars>>
  PROVE  KnownInv'
<1>0. UNCHANGED <<pbuf, toClient, cbuf, gwIn, gwOut>>
  BY DEF clientVars, proxyVars
<1>1. ASSUME NEW d \in Conns, Handler(d) PROVE KnownInv'
  <2>1. AppsOf(toGateway') \subseteq AppsOf(toGateway) \cup {c \in Conns : Known(c)}
    BY <1>1, HandlerKnows
  <2>2. \A c \in Conns : Known(c) => Known(c)'
    BY <1>1, HandlerKnows
  <2>3. \A c \in Underway' \cap Conns : Known(c)'
    BY <1>0, <2>1, <2>2 DEF KnownInv, Underway
  <2>4. \A c \in Conns :
        /\ ~ctx' /\ hpc'[c] \in {"none", "insert", "inserting"} => c \notin apps'
        /\ hpc'[c] \in {"select", "handle", "node1", "node2", "again"} => c \in apps'
        /\ hpc'[c] \in {"handle", "node1", "node2"} => Known(c)'
        /\ c \notin apps' => uuid'[c] = NoUuid
    BY <1>1, HandlerKnows
  <2> QED
    BY <2>3, <2>4 DEF KnownInv
<1>2. CASE \/ ListenerShutDown \/ ListenerDone \/ ListenerAccepting \/ AcceptTimeout
           \/ \E d \in Conns : App(d) \/ Reader(d)
  <2>1. UNCHANGED <<apps, uuid, hpc, toGateway>>
    BY <1>2 DEF ListenerShutDown, ListenerDone, ListenerAccepting, AcceptTimeout, App, Reader,
       ReaderDone, LateReaderDone, ReaderReading, ReaderRead, ReaderTimeout, ReaderEof, ReaderPush,
       handlerVars, appsVars
  <2>2. Underway' = Underway
    BY <1>0, <2>1 DEF Underway
  <2> QED
    BY <2>1, <2>2, KnownStays
<1>3. ASSUME NEW d \in Conns, Accept(d) PROVE KnownInv'
  <2>1. /\ UNCHANGED <<apps, uuid, toGateway>> /\ net[d] = "dialed"
        /\ hpc' = [hpc EXCEPT ![d] = "insert"]
    BY <1>3 DEF Accept, appsVars
  <2>2. hpc[d] = "none"
    BY <2>1 DEF TypeOK, ListenerTypeOK
  <2>3. Underway' = Underway
    BY <1>0, <2>1 DEF Underway
  <2>4. \A c \in Conns : Known(c)' <=> Known(c)
    BY <2>1 DEF Known
  <2>5. \A c \in Underway' \cap Conns : Known(c)'
    BY <2>3, <2>4 DEF KnownInv
  <2>6. \A c \in Conns : hpc'[c] = hpc[c] \/ (hpc[c] = "none" /\ hpc'[c] = "insert")
    BY <2>1, <2>2 DEF TypeOK, ListenerTypeOK
  <2>7. \A c \in Conns :
        /\ ~ctx' /\ hpc'[c] \in {"none", "insert", "inserting"} => c \notin apps'
        /\ hpc'[c] \in {"select", "handle", "node1", "node2", "again"} => c \in apps'
        /\ hpc'[c] \in {"handle", "node1", "node2"} => Known(c)'
        /\ c \notin apps' => uuid'[c] = NoUuid
    BY <2>1, <2>4, <2>6 DEF KnownInv
  <2> QED
    BY <2>5, <2>7 DEF KnownInv
<1> QED
  BY <1>1, <1>2, <1>3 DEF ListenerNext, ListenerRun

LEMMA NextKnows ==
  ASSUME TypeOK, DeliveryInv, KnownInv, [Next]_vars
  PROVE  KnownInv'
<1>1. CASE ListenerNext /\ UNCHANGED <<ctx, clientVars, proxyVars>>
  BY <1>1, ListenerKnows
<1>2. CASE ClientNext /\ UNCHANGED <<ctx, listenerVars, proxyVars>>
  <2>1. UNCHANGED <<apps, uuid, hpc, ctx, toGateway, pbuf>>
    BY <1>2 DEF listenerVars, proxyVars
  <2> QED
    BY <1>2, <2>1, ClientUnderway, KnownStays
<1>3. CASE ProxyRun
  <2>1. UNCHANGED <<apps, uuid, hpc, ctx>>
    BY <1>3 DEF ProxyRun, RunClient, RunListener, ProxyShutDown, ProxyReturn, ProxyTakeUp,
       ProxyForward, ProxyTakeDown, ProxyAddress, ProxyWrite, ProxyCopied,
       runtimeVars, listenerVars, handlerVars, appsVars
  <2> QED
    BY <1>3, <2>1, ProxyUnderway, KnownStays
<1>4. CASE Main \/ Throw \/ UNCHANGED vars
  <2>1. UNCHANGED <<apps, uuid, hpc, toGateway, pbuf, toClient, cbuf, gwIn, gwOut>> /\ (ctx => ctx')
    BY <1>4 DEF Main, Interrupt, MainWait, MainExit, Throw, vars, runtimeVars, listenerVars,
       clientVars, proxyVars
  <2>2. Underway' = Underway
    BY <2>1 DEF Underway
  <2> QED
    BY <2>1, <2>2, KnownStays
<1> QED
  BY <1>1, <1>2, <1>3, <1>4 DEF Next, Over

-----------------------------------------------------------------------------
(* The answer to a request of an app reaches it, with its uuid *)

LEMMA ReachesMore ==
  ASSUME NEW q \in Seq(AppFrame), NEW r, r = q \/ \E f \in AppFrame : r = Append(q, f),
         NEW c, NEW i, NEW any \in BOOLEAN, NEW any1 \in BOOLEAN, any => any1,
         Reaches(q, c, i, any)
  PROVE  Reaches(r, c, i, any1)
<1>1. \A k \in 1..Len(q) : k \in 1..Len(r) /\ r[k] = q[k]
  <2>1. ASSUME NEW f \in AppFrame, r = Append(q, f)
        PROVE  \A k \in 1..Len(q) : k \in 1..Len(r) /\ r[k] = q[k]
    BY <2>1
  <2> QED
    BY <2>1
<1> QED
  BY <1>1 DEF Reaches

LEMMA AnswerPrimed ==
  ASSUME NEW c \in Conns,
         c \notin closed' =>
           \A i \in 3..Through' : gwOut'[i].app = c => Reaches(received'[c], c, i, ctx'),
         pdown' # <<>> /\ pdown'[1].app = c =>
           /\ c \in todo'
           /\ c \notin visited' \/ (pto' # <<>> /\ pto'[1].conn = c) \/ c \in closed'
              \/ Reaches(received'[c], c, Taken', ctx')
           /\ pto' # <<>> /\ pto'[1].conn = c => ctx' \/ pto'[1].dst = c
  PROVE  AnswerInv(c)'
<1>1. (c \notin closed =>
         \A i \in 3..Through : gwOut[i].app = c => Reaches(received[c], c, i, ctx))'
  BY DEF Reaches
<1>2. (pdown # <<>> /\ pdown[1].app = c =>
         /\ c \in todo
         /\ ~Behind(c) /\ c \notin closed => Reaches(received[c], c, Taken, ctx)
         /\ pto # <<>> /\ pto[1].conn = c => ctx \/ pto[1].dst = c)'
  BY DEF Reaches, Behind
<1> QED
  BY <1>1, <1>2 DEF AnswerInv

(* The proxy loop neither takes a frame nor is through with one. *)
LEMMA AnswerStays ==
  ASSUME TypeOK, GatewayPipe, NEW c \in Conns, AnswerInv(c),
         received'[c] = received[c] \/ \E f \in AppFrame : received'[c] = Append(received[c], f),
         ctx' \in BOOLEAN, ctx => ctx', closed \subseteq closed', UNCHANGED <<todo, pdown>>,
         \A i \in 1..Len(gwOut) : gwOut'[i] = gwOut[i],
         Behind(c) => c \notin visited' \/ (pto' # <<>> /\ pto'[1].conn = c) \/ c \in closed',
         pto' # <<>> /\ pto'[1].conn = c => pto' = pto,
         \/ Taken' = Taken /\ Through' = Through
         \/ Taken < 2 /\ Taken' = Taken + 1 /\ pdown = <<>>
  PROVE  AnswerInv(c)'
<1> DEFINE q == received[c]
           r == received'[c]
<1>0. /\ Taken \in Nat /\ Taken <= Len(gwOut) /\ Len(gwOut) \in Nat /\ Through \in Nat
      /\ Through <= Taken /\ q \in Seq(AppFrame) /\ ctx \in BOOLEAN
  BY TakenBound, ReceivedType DEF TypeOK, RuntimeTypeOK
<1>1. ASSUME NEW i, Reaches(q, c, i, ctx) PROVE Reaches(r, c, i, ctx')
  <2>1. r = q \/ \E f \in AppFrame : r = Append(q, f)
    OBVIOUS
  <2> HIDE DEF q, r
  <2> QED
    BY <1>0, <1>1, <2>1, ReachesMore
<1>2. ASSUME c \notin closed', NEW i \in 3..Through', gwOut'[i].app = c
      PROVE  Reaches(r, c, i, ctx')
  <2>1. CASE Taken' = Taken /\ Through' = Through
    <3>1. i \in 3..Through /\ i \in 1..Len(gwOut)
      BY <1>0, <1>2, <2>1
    <3>2. gwOut[i].app = c
      BY <1>2, <3>1
    <3> HIDE DEF q, r
    <3>3. Reaches(q, c, i, ctx)
      BY <1>2, <3>1, <3>2 DEF AnswerInv, q
    <3> QED
      BY <1>1, <3>3
  <2>2. CASE Taken < 2 /\ Taken' = Taken + 1 /\ pdown = <<>>
    <3>1. Len(pdown') = 0
      BY <2>2
    <3>2. Through' = Taken' - 0
      BY <3>1 DEF Through
    <3> QED
      BY <1>0, <2>2, <3>2
  <2> QED
    BY <2>1, <2>2
<1>3. ASSUME pdown' # <<>>, pdown'[1].app = c
      PROVE  /\ c \in todo'
             /\ c \notin visited' \/ (pto' # <<>> /\ pto'[1].conn = c) \/ c \in closed'
                \/ Reaches(r, c, Taken', ctx')
             /\ pto' # <<>> /\ pto'[1].conn = c => ctx' \/ pto'[1].dst = c
  <2>1. /\ c \in todo
        /\ ~Behind(c) /\ c \notin closed => Reaches(q, c, Taken, ctx)
        /\ pto # <<>> /\ pto[1].conn = c => ctx \/ pto[1].dst = c
        /\ Taken' = Taken
    BY <1>3 DEF AnswerInv
  <2> HIDE DEF q, r
  <2>2. ~Behind(c) /\ c \notin closed => Reaches(r, c, Taken', ctx')
    BY <1>1, <2>1
  <2> QED
    BY <2>1, <2>2
<1> QED
  BY <1>2, <1>3, AnswerPrimed

LEMMA AnswerTakesDown ==
  ASSUME TypeOK, GatewayPipe, KnownInv, NEW c \in Conns, AnswerInv(c), ProxyTakeDown
  PROVE  AnswerInv(c)'
<1>0. /\ UNCHANGED <<received, closed, ctx, pto>> /\ visited' = {} /\ todo' = apps
      /\ ppc = "select"
  BY DEF ProxyTakeDown, listenerVars, runtimeVars
<1>1. /\ Taken' = Taken + 1 /\ Through' = Through /\ gwOut' = gwOut /\ GatewayPipe'
      /\ Taken \in Nat
  BY TakesDown, TakenBound
<1>2. c \notin closed' =>
        \A i \in 3..Through' : gwOut'[i].app = c => Reaches(received'[c], c, i, ctx')
  BY <1>0, <1>1 DEF AnswerInv
<1>3. pdown' # <<>> /\ pdown'[1].app = c => c \in todo'
  <2> SUFFICES ASSUME pdown' # <<>>, pdown'[1].app = c PROVE c \in apps
    BY <1>0
  <2>1. pdown'[1] = gwOut[Taken + 1]
    BY <1>1 DEF GatewayPipe
  <2>2. Taken + 1 \in 1..Len(gwOut)
    <3>1. /\ Taken' \in Nat /\ Taken' <= Len(gwOut')
      <4>1. Taken' = Taken + 1 /\ Len(gwOut) \in Nat /\ fromGateway # <<>>
        BY <1>1, PipeLengths DEF ProxyTakeDown
      <4>2. Taken + 1 <= Len(gwOut)
        <5> DEFINE f == Len(fromGateway)
                   d == Len(dbuf)
                   o == Len(gwOut)
        <5>1. /\ f \in Nat /\ f # 0 /\ d \in Nat /\ gwRead \in Nat /\ o \in Nat /\ gwRead <= o
              /\ Taken = gwRead - d - f
          <6>1. fromGateway \in Seq(GatewayFrame) => Len(fromGateway) # 0
            BY <4>1
          <6> QED
            BY <6>1, PipeLengths DEF GatewayPipe, Taken
        <5> HIDE DEF f, d, o
        <5> QED
          BY <5>1 DEF o
      <4> QED
        BY <1>1, <4>1, <4>2
    <3> QED
      BY <1>1, <3>1
  <2>3. c \in AppsOf(gwOut)
    BY <2>1, <2>2 DEF AppsOf
  <2> QED
    BY <2>3 DEF KnownInv, Underway, Known
<1>4. pto' = <<>>
  BY <1>0, PipeLengths
<1> QED
  BY <1>0, <1>2, <1>3, <1>4, AnswerPrimed

LEMMA AnswerCopied ==
  ASSUME TypeOK, GatewayPipe, Ranging, NEW c \in Conns, CopyInv(c), AnswerInv(c), ProxyCopied
  PROVE  AnswerInv(c)'
<1>0. /\ UNCHANGED <<received, closed, ctx, gwOut>> /\ pdown' = <<>> /\ pdown # <<>>
      /\ pto = <<>> /\ todo \subseteq visited
  BY PipeLengths DEF ProxyCopied, listenerVars, clientVars, runtimeVars
<1>1. Through' = Taken /\ Taken = Through + 1 /\ Through \in Nat /\ pdown[1] = gwOut[Taken]
  BY <1>0, CopyCopied, TakenBound DEF GatewayPipe
<1>2. ASSUME c \notin closed, NEW i \in 3..Taken, gwOut[i].app = c
      PROVE  Reaches(received[c], c, i, ctx)
  <2>1. CASE i = Taken
    <3>1. pdown[1].app = c
      BY <1>1, <1>2, <2>1
    <3>2. c \in visited /\ ~Behind(c)
      BY <1>0, <3>1 DEF AnswerInv, Behind
    <3> QED
      BY <1>0, <1>2, <2>1, <3>1, <3>2 DEF AnswerInv
  <2>2. CASE i # Taken
    <3>1. i \in 3..Through
      BY <1>1, <2>2
    <3> QED
      BY <1>2, <3>1 DEF AnswerInv
  <2> QED
    BY <2>1, <2>2
<1>3. c \notin closed' =>
        \A i \in 3..Through' : gwOut'[i].app = c => Reaches(received'[c], c, i, ctx')
  BY <1>0, <1>1, <1>2
<1> QED
  BY <1>0, <1>3, AnswerPrimed

LEMMA AnswerAddressed ==
  ASSUME TypeOK, GatewayPipe, KnownInv, NEW c \in Conns, AnswerInv(c), NEW d \in Conns, ProxyAddress(d)
  PROVE  AnswerInv(c)'
<1>0. /\ UNCHANGED <<received, closed, apps, ctx, gwOut, gwRead, dbuf, fromGateway, todo, pdown>>
      /\ visited' = visited \cup {d} /\ pto = <<>> /\ d \notin visited
      /\ pto' # <<>> /\ pto'[1].conn = d /\ pto'[1].dst = uuid[d] /\ pdown # <<>>
  BY PipeLengths DEF ProxyAddress, listenerVars, clientVars, runtimeVars
<1>1. Taken' = Taken /\ Through' = Through
  BY <1>0 DEF Taken, Through
<1>2. CASE c # d
  <2>1. Behind(c) => c \notin visited' \/ (pto' # <<>> /\ pto'[1].conn = c) \/ c \in closed'
    BY <1>0, <1>2 DEF Behind
  <2>2. ctx' \in BOOLEAN
    BY <1>0 DEF TypeOK, RuntimeTypeOK
  <2> QED
    BY <1>0, <1>1, <1>2, <2>1, <2>2, AnswerStays
<1>3. CASE c = d
  <2>1. c \notin closed' =>
          \A i \in 3..Through' : gwOut'[i].app = c => Reaches(received'[c], c, i, ctx')
    BY <1>0, <1>1 DEF AnswerInv
  <2>2. pdown[1].app = c => ctx \/ uuid[c] = c
    <3>1. pdown[1] = gwOut[Taken] /\ Taken \in 1..Len(gwOut)
      BY <1>0, TakenBound DEF GatewayPipe
    <3>2. pdown[1].app = c => c \in AppsOf(gwOut)
      BY <3>1 DEF AppsOf
    <3> QED
      BY <3>2 DEF KnownInv, Underway, Known
  <2>3. pdown[1].app = c => c \in todo
    BY <1>0 DEF AnswerInv
  <2> QED
    BY <1>0, <1>3, <2>1, <2>2, <2>3, AnswerPrimed
<1> QED
  BY <1>2, <1>3

LEMMA AnswerWrite ==
  ASSUME TypeOK, GatewayPipe, NEW c \in Conns, AnswerInv(c), ProxyWrite
  PROVE  AnswerInv(c)'
<1>0. /\ UNCHANGED <<closed, ctx, gwOut, gwRead, dbuf, fromGateway, todo, pdown, visited>>
      /\ pto' = <<>> /\ ppc = "write"
      /\ WriteToApp(pto[1].conn, AddressTo(pdown[1], pto[1].dst))
  BY DEF ProxyWrite, clientVars, runtimeVars
<1>1. Taken' = Taken /\ Through' = Through /\ ctx' \in BOOLEAN /\ ctx \in BOOLEAN
  BY <1>0 DEF Taken, Through, TypeOK, RuntimeTypeOK
<1>2. received \in [Conns -> Seq(AppFrame)] /\ pto # <<>> /\ pdown # <<>>
  BY <1>0, PipeLengths DEF TypeOK, ListenerTypeOK
<1>3. CASE pto[1].conn # c \/ c \in closed
  <2>1. received'[c] = received[c]
    BY <1>0, <1>2, <1>3 DEF WriteToApp
  <2>2. Behind(c) => c \notin visited' \/ (pto' # <<>> /\ pto'[1].conn = c) \/ c \in closed'
    BY <1>0, <1>3 DEF Behind
  <2> QED
    BY <1>0, <1>1, <2>1, <2>2, AnswerStays
<1>4. CASE pto[1].conn = c /\ c \notin closed
  <2> DEFINE q == received[c]
             f == AddressTo(pdown[1], pto[1].dst)
             r == Append(q, f)
  <2>0. q \in Seq(AppFrame) /\ received'[c] = r
    BY <1>0, <1>2, <1>4 DEF WriteToApp
  <2>1. f \in AppFrame /\ f.seq = Taken /\ f.dst = pto[1].dst
    <3>1. pdown[1] = gwOut[Taken] /\ Taken \in 1..Len(gwOut) /\ gwOut[Taken].seq = Taken
      BY <1>2, TakenBound DEF GatewayPipe
    <3>2. pdown \in Seq(GatewayFrame) /\ Len(pdown) = 1 /\ pto \in Seq([conn : Conns, dst : Uuids])
          /\ Len(pto) = 1
      BY <1>0 DEF TypeOK
    <3>3. pdown[1] \in GatewayFrame
      BY <3>2
    <3>4. pto[1] \in [conn : Conns, dst : Uuids]
      <4>1. ASSUME NEW T, NEW s \in Seq(T), Len(s) = 1 PROVE s[1] \in T
        BY <4>1
      <4> QED
        BY <3>2, <4>1, Zenon
    <3> QED
      BY <3>1, <3>3, <3>4 DEF AddressTo, GatewayFrame, AppFrame
  <2> HIDE DEF f
  <2>2. ASSUME NEW i, Reaches(q, c, i, ctx) PROVE Reaches(r, c, i, ctx')
    <3>1. r = q \/ \E g \in AppFrame : r = Append(q, g)
      BY <2>1
    <3>2. ctx => ctx'
      BY <1>0
    <3>3. q \in Seq(AppFrame)
      BY <2>0
    <3> HIDE DEF q, r
    <3> QED
      BY <1>1, <2>2, <3>1, <3>2, <3>3, ReachesMore
  <2>3. Len(r) \in 1..Len(r) /\ r[Len(r)] = f
    BY <2>0, <2>1
  <2>4. ctx \/ pto[1].dst = c => Reaches(r, c, Taken, ctx')
    BY <1>0, <2>1, <2>3 DEF Reaches
  <2>5. pdown[1].app = c => c \in todo /\ (ctx \/ pto[1].dst = c)
    BY <1>2, <1>4 DEF AnswerInv
  <2>6. \A i \in 3..Through : gwOut[i].app = c => Reaches(q, c, i, ctx)
    BY <1>4 DEF AnswerInv
  <2> HIDE DEF q, r
  <2>7. \A i \in 3..Through' : gwOut'[i].app = c => Reaches(received'[c], c, i, ctx')
    BY <1>0, <1>1, <2>0, <2>2, <2>6
  <2>8. pdown'[1].app = c => c \in todo' /\ Reaches(received'[c], c, Taken', ctx')
    BY <1>0, <1>1, <2>0, <2>4, <2>5
  <2> QED
    BY <1>0, <2>7, <2>8, AnswerPrimed
<1> QED
  BY <1>3, <1>4

-----------------------------------------------------------------------------
(* The uuid on the copies *)

LEMMA AddressPrimed ==
  ASSUME NEW c \in Conns,
         ~ctx' =>
           /\ OwnFromOneOn(received'[c], c)
           /\ uuid'[c] # c => BeforeOwn(received'[c], c, Len(received'[c]))
           /\ pto' # <<>> /\ pto'[1].conn = c =>
                IF pto'[1].dst = c
                  THEN uuid'[c] = c
                  ELSE \A k \in 1..Len(received'[c]) :
                         IsCopy(received'[c][k]) => BeforeOwn(received'[c], c, k)
  PROVE  AddressInv(c)'
BY DEF AddressInv, OwnFromOneOn, BeforeOwn, IsCopy

(* Nothing is written to the app *)
LEMMA AddressStays ==
  ASSUME NEW c \in Conns, AddressInv(c), received'[c] = received[c], ctx => ctx',
         ~ctx' => uuid'[c] = uuid[c] \/ uuid'[c] = c,
         pto' # <<>> /\ pto'[1].conn = c => pto' = pto
  PROVE  AddressInv(c)'
BY AddressPrimed DEF AddressInv

LEMMA OwnAppended ==
  ASSUME NEW q \in Seq(AppFrame), NEW f \in AppFrame, NEW c, OwnFromOneOn(q, c)
  PROVE  /\ \/ ~IsCopy(f) \/ f.dst = c
            \/ \A k \in 1..Len(q) : IsCopy(q[k]) => BeforeOwn(q, c, k)
            => OwnFromOneOn(Append(q, f), c)
         /\ BeforeOwn(q, c, Len(q)) /\ f.dst # c => BeforeOwn(Append(q, f), c, Len(Append(q, f)))
         /\ (\A k \in 1..Len(q) : IsCopy(q[k]) => BeforeOwn(q, c, k)) /\ ~IsCopy(f)
            => \A k \in 1..Len(Append(q, f)) :
                 IsCopy(Append(q, f)[k]) => BeforeOwn(Append(q, f), c, k)
<1> DEFINE r == Append(q, f)
           Before == \A k \in 1..Len(q) : IsCopy(q[k]) => BeforeOwn(q, c, k)
<1>1. /\ Len(q) \in Nat /\ Len(r) = Len(q) + 1 /\ r[Len(q) + 1] = f
      /\ \A k \in 1..Len(q) : r[k] = q[k]
      /\ \A k \in 1..(Len(q) + 1) : k \in 1..Len(q) \/ k = Len(q) + 1
  BY Written
<1> HIDE DEF r
<1>2. ASSUME NEW k \in 1..Len(q) PROVE BeforeOwn(r, c, k) <=> BeforeOwn(q, c, k)
  <2>1. \A j \in 1..k : r[j] = q[j]
    BY <1>1
  <2> QED
    BY <2>1 DEF BeforeOwn
<1>3. ASSUME ~IsCopy(f) \/ f.dst = c \/ Before PROVE OwnFromOneOn(r, c)
  <2> SUFFICES ASSUME NEW j \in 1..Len(r), NEW k \in 1..Len(r), j < k,
                      IsCopy(r[j]), IsCopy(r[k]), r[k].dst # c
               PROVE  BeforeOwn(r, c, j)
    BY DEF OwnFromOneOn
  <2>1. j \in 1..Len(q) /\ r[j] = q[j]
    BY <1>1
  <2>2. BeforeOwn(q, c, j)
    <3>1. CASE k \in 1..Len(q)
      BY <1>1, <2>1, <3>1 DEF OwnFromOneOn
    <3>2. CASE k = Len(q) + 1
      BY <1>1, <1>3, <2>1, <3>2
    <3> QED
      BY <1>1, <3>1, <3>2
  <2> QED
    BY <1>2, <2>1, <2>2
<1>4. ASSUME BeforeOwn(q, c, Len(q)), f.dst # c PROVE BeforeOwn(r, c, Len(r))
  BY <1>1, <1>4 DEF BeforeOwn
<1>5. ASSUME Before, ~IsCopy(f), NEW k \in 1..Len(r), IsCopy(r[k]) PROVE BeforeOwn(r, c, k)
  <2>1. k \in 1..Len(q) /\ r[k] = q[k]
    BY <1>1, <1>5
  <2> QED
    BY <1>2, <1>5, <2>1
<1> QED
  BY <1>3, <1>4, <1>5 DEF r

(* The handler answers the app: it has set the uuid. *)
LEMMA AddressOwn ==
  ASSUME TypeOK, NEW c \in Conns, AddressInv(c), NEW f \in AppFrame, f.seq = 0,
         received'[c] = Append(received[c], f), UNCHANGED <<ctx, pto>>,
         ~ctx => uuid[c] = c /\ uuid'[c] = c
  PROVE  AddressInv(c)'
<1> DEFINE q == received[c]
           r == Append(q, f)
<1>1. q \in Seq(AppFrame) /\ ~IsCopy(f)
  BY ReceivedType DEF IsCopy
<1>2. ASSUME ~ctx'
      PROVE  /\ OwnFromOneOn(r, c)
             /\ pto' # <<>> /\ pto'[1].conn = c /\ pto'[1].dst # c =>
                  \A k \in 1..Len(r) : IsCopy(r[k]) => BeforeOwn(r, c, k)
  <2>1. /\ OwnFromOneOn(q, c)
        /\ pto # <<>> /\ pto[1].conn = c /\ pto[1].dst # c =>
             \A k \in 1..Len(q) : IsCopy(q[k]) => BeforeOwn(q, c, k)
    BY <1>2 DEF AddressInv
  <2> HIDE DEF q
  <2> QED
    BY <1>1, <2>1, OwnAppended
<1>3. received'[c] = r
  OBVIOUS
<1> HIDE DEF r
<1> QED
  BY <1>2, <1>3, AddressPrimed

LEMMA AddressWrite ==
  ASSUME TypeOK, GatewayPipe, NEW c \in Conns, AddressInv(c), ProxyWrite
  PROVE  AddressInv(c)'
<1>0. /\ UNCHANGED <<ctx, uuid>> /\ pto' = <<>> /\ ppc = "write"
      /\ WriteToApp(pto[1].conn, AddressTo(pdown[1], pto[1].dst))
  BY DEF ProxyWrite, appsVars, runtimeVars
<1>1. received \in [Conns -> Seq(AppFrame)] /\ pto # <<>>
  BY <1>0, PipeLengths DEF TypeOK, ListenerTypeOK
<1>2. CASE pto[1].conn # c \/ c \in closed
  <2>1. received'[c] = received[c]
    BY <1>0, <1>1, <1>2 DEF WriteToApp
  <2> QED
    BY <1>0, <2>1, AddressStays
<1>3. CASE pto[1].conn = c /\ c \notin closed
  <2> DEFINE q == received[c]
             f == AddressTo(pdown[1], pto[1].dst)
             r == Append(q, f)
  <2>0. q \in Seq(AppFrame) /\ received'[c] = r
    BY <1>0, <1>1, <1>3 DEF WriteToApp
  <2>1. f \in AppFrame /\ f.dst = pto[1].dst
    <3>1. pdown \in Seq(GatewayFrame) /\ Len(pdown) = 1 /\ pto \in Seq([conn : Conns, dst : Uuids])
          /\ Len(pto) = 1
      BY <1>0 DEF TypeOK
    <3>2. ASSUME NEW T, NEW s \in Seq(T), Len(s) = 1 PROVE s[1] \in T
      BY <3>2
    <3>3. pdown[1] \in GatewayFrame
      BY <3>1, <3>2, Zenon
    <3>4. pto[1] \in [conn : Conns, dst : Uuids]
      BY <3>1, <3>2, Zenon
    <3> QED
      BY <3>3, <3>4 DEF AddressTo, GatewayFrame, AppFrame
  <2>2. ASSUME ~ctx'
        PROVE  OwnFromOneOn(r, c) /\ (uuid'[c] # c => BeforeOwn(r, c, Len(r)))
    <3>1. /\ OwnFromOneOn(q, c)
          /\ uuid[c] # c => BeforeOwn(q, c, Len(q))
          /\ f.dst = c => uuid[c] = c
          /\ f.dst # c => \A k \in 1..Len(q) : IsCopy(q[k]) => BeforeOwn(q, c, k)
      BY <1>0, <1>1, <1>3, <2>1, <2>2 DEF AddressInv
    <3> HIDE DEF q, f
    <3>2. OwnFromOneOn(r, c)
      BY <2>0, <2>1, <3>1, OwnAppended
    <3>3. uuid[c] # c => BeforeOwn(r, c, Len(r))
      BY <2>0, <2>1, <3>1, OwnAppended
    <3> QED
      BY <1>0, <3>2, <3>3
  <2> HIDE DEF r
  <2> QED
    BY <1>0, <2>0, <2>2, AddressPrimed
<1> QED
  BY <1>2, <1>3

LEMMA AddressAddressed ==
  ASSUME TypeOK, NEW c \in Conns, AddressInv(c), NEW d \in Conns, ProxyAddress(d)
  PROVE  AddressInv(c)'
<1>0. /\ UNCHANGED <<received, ctx, uuid>>
      /\ pto' # <<>> /\ pto'[1].conn = d /\ pto'[1].dst = uuid[d]
  BY DEF ProxyAddress, listenerVars, runtimeVars
<1>1. CASE c # d
  BY <1>0, <1>1, AddressStays
<1>2. CASE c = d
  <2> DEFINE q == received[c]
  <2>1. Len(q) \in Nat
    BY ReceivedType
  <2>2. BeforeOwn(q, c, Len(q)) => \A k \in 1..Len(q) : BeforeOwn(q, c, k)
    <3> HIDE DEF q
    <3> QED
      BY <2>1 DEF BeforeOwn
  <2> QED
    BY <1>0, <1>2, <2>2, AddressPrimed DEF AddressInv
<1> QED
  BY <1>1, <1>2

-----------------------------------------------------------------------------
(* The whole proxy *)

Answering == \A c \in Conns : AnswerInv(c) /\ AddressInv(c)

LEMMA ListenerAnswering ==
  ASSUME TypeOK, ReachInv, Running, ListenerNext, UNCHANGED <<ctx, clientVars, proxyVars>>
  PROVE  Answering'
<1> SUFFICES ASSUME NEW c \in Conns PROVE AnswerInv(c)' /\ AddressInv(c)'
  BY DEF Answering
<1>0. /\ UNCHANGED <<gwOut, pdown, pto, todo, visited, ctx>>
      /\ DeliveryInv /\ KnownInv /\ DownInv /\ GatewayPipe /\ AnswerInv(c) /\ AddressInv(c)
  BY DEF clientVars, proxyVars, ReachInv, DownInv
<1>1. Taken' = Taken /\ Through' = Through
  BY <1>0, ListenerDown
<1>2. ~ctx => uuid'[c] = uuid[c] \/ uuid'[c] = c
  <2>1. CASE \E d \in Conns : Handler(d)
    BY <1>0, <2>1, HandlerKnows
  <2>2. CASE ListenerRun \/ \E d \in Conns : App(d) \/ Reader(d)
    BY <2>2 DEF ListenerRun, ListenerShutDown, ListenerDone, ListenerAccepting, AcceptTimeout,
       Accept, App, Reader, ReaderDone, LateReaderDone, ReaderReading, ReaderRead, ReaderTimeout,
       ReaderEof, ReaderPush, appsVars
  <2> QED
    BY <2>1, <2>2 DEF ListenerNext
<1>3. AnswerInv(c)'
  <2>1. closed \subseteq closed'
    BY ListenerWrites
  <2>2. received'[c] = received[c] \/ \E f \in AppFrame : received'[c] = Append(received[c], f)
    BY ListenerWrites
  <2>3. Behind(c) => c \notin visited' \/ (pto' # <<>> /\ pto'[1].conn = c) \/ c \in closed'
    BY <1>0 DEF Behind
  <2>4. ctx' \in BOOLEAN
    BY <1>0 DEF TypeOK, RuntimeTypeOK
  <2>5. \A i \in 1..Len(gwOut) : gwOut'[i] = gwOut[i]
    BY <1>0
  <2> QED
    BY <1>0, <1>1, <2>1, <2>2, <2>3, <2>4, <2>5, AnswerStays
<1>4. AddressInv(c)'
  <2>1. CASE received'[c] = received[c]
    BY <1>0, <1>2, <2>1, AddressStays
  <2>2. CASE received'[c] # received[c]
    <3>1. hpc[c] \in {"handle", "node1", "node2"}
      BY <2>2, ListenerWrites
    <3>2. PICK f \in AppFrame : f.seq = 0 /\ received'[c] = Append(received[c], f)
      BY <2>2, ListenerWrites
    <3>3. ~ctx => uuid[c] = c
      BY <1>0, <3>1 DEF KnownInv, Known
    <3> QED
      BY <1>0, <1>2, <3>2, <3>3, AddressOwn
  <2> QED
    BY <2>1, <2>2
<1> QED
  BY <1>3, <1>4

LEMMA ProxyAnswering ==
  ASSUME TypeOK, ReachInv, Running, ProxyRun
  PROVE  Answering'
<1> SUFFICES ASSUME NEW c \in Conns PROVE AnswerInv(c)' /\ AddressInv(c)'
  BY DEF Answering
<1>0. /\ KnownInv /\ GatewayPipe /\ Ranging /\ CopyInv(c) /\ AnswerInv(c) /\ AddressInv(c)
  BY DEF ReachInv, DownInv
<1>1. CASE RunClient \/ RunListener \/ ProxyShutDown \/ ProxyReturn \/ ProxyTakeUp \/ ProxyForward
  <2>1. /\ UNCHANGED <<gwOut, gwRead, dbuf, fromGateway, pdown, pto, todo, visited>>
        /\ UNCHANGED <<received, closed, ctx, uuid>>
    BY <1>1 DEF RunClient, RunListener, ProxyShutDown, ProxyReturn, ProxyTakeUp, ProxyForward,
       runtimeVars, clientVars, listenerVars, linkVars, socketVars, appsVars
  <2>2. Taken' = Taken /\ Through' = Through /\ ctx' \in BOOLEAN
    BY <2>1 DEF Taken, Through, TypeOK, RuntimeTypeOK
  <2>3. Behind(c) => c \notin visited' \/ (pto' # <<>> /\ pto'[1].conn = c) \/ c \in closed'
    BY <2>1 DEF Behind
  <2> QED
    BY <1>0, <2>1, <2>2, <2>3, AnswerStays, AddressStays
<1>2. CASE ProxyTakeDown \/ ProxyCopied
  <2>1. UNCHANGED <<received, ctx, uuid, pto>>
    BY <1>2 DEF ProxyTakeDown, ProxyCopied, listenerVars, runtimeVars
  <2> QED
    BY <1>0, <1>2, <2>1, AnswerTakesDown, AnswerCopied, AddressStays
<1>3. CASE (\E d \in Conns : ProxyAddress(d)) \/ ProxyWrite
  BY <1>0, <1>3, AnswerAddressed, AddressAddressed, AnswerWrite, AddressWrite
<1> QED
  BY <1>1, <1>2, <1>3 DEF ProxyRun

LEMMA OthersAnswering ==
  ASSUME TypeOK, ReachInv,
         \/ Running /\ ClientNext /\ UNCHANGED <<ctx, listenerVars, proxyVars>>
         \/ Main \/ Throw \/ UNCHANGED vars
  PROVE  Answering'
<1> SUFFICES ASSUME NEW c \in Conns PROVE AnswerInv(c)' /\ AddressInv(c)'
  BY DEF Answering
<1>0. GatewayPipe /\ AnswerInv(c) /\ AddressInv(c)
  BY DEF ReachInv, DownInv
<1>1. /\ UNCHANGED <<received, closed, uuid, pdown, pto, todo, visited>>
      /\ ctx => ctx'
      /\ ctx' = ctx \/ ctx' = TRUE
  BY DEF listenerVars, proxyVars, Main, Interrupt, MainWait, MainExit, Throw, vars, runtimeVars
<1>2. /\ \A i \in 1..Len(gwOut) : gwOut'[i] = gwOut[i]
      /\ \/ Taken' = Taken /\ Through' = Through
         \/ Taken < 2 /\ Taken' = Taken + 1 /\ pdown = <<>>
  <2>1. CASE Running /\ ClientNext /\ UNCHANGED <<ctx, listenerVars, proxyVars>>
    BY <1>0, <2>1, ClientFrames
  <2>2. CASE Main \/ Throw \/ UNCHANGED vars
    <3>1. UNCHANGED <<gwOut, gwRead, dbuf, fromGateway>>
      BY <2>2 DEF Main, Interrupt, MainWait, MainExit, Throw, vars, clientVars
    <3> QED
      BY <1>1, <3>1 DEF Taken, Through
  <2> QED
    BY <2>1, <2>2
<1>3. Behind(c) => c \notin visited' \/ (pto' # <<>> /\ pto'[1].conn = c) \/ c \in closed'
  BY <1>1 DEF Behind
<1>4. ctx' \in BOOLEAN
  BY <1>1 DEF TypeOK, RuntimeTypeOK
<1> QED
  BY <1>0, <1>1, <1>2, <1>3, <1>4, AnswerStays, AddressStays

LEMMA NextReach ==
  ASSUME TypeOK, TypeOK', ReachInv, [Next]_vars
  PROVE  ReachInv'
<1>1. DeliveryInv' /\ DownInv' /\ KnownInv'
  BY NextDelivers, NextDown, NextKnows DEF ReachInv
<1>2. Answering'
  BY ListenerAnswering, ProxyAnswering, OthersAnswering DEF Next, Over
<1> QED
  BY <1>1, <1>2 DEF ReachInv, Answering

LEMMA InitReach == ASSUME Init PROVE ReachInv
<1>0. /\ gwOut = <<>> /\ gwRead = 0 /\ dbuf = <<>> /\ fromGateway = <<>>
      /\ pdown = <<>> /\ pto = <<>> /\ apps = {} /\ toGateway = <<>> /\ pbuf = <<>>
      /\ toClient = <<>> /\ cbuf = <<>> /\ gwIn = <<>>
      /\ received = [c \in Conns |-> <<>>] /\ hpc = [c \in Conns |-> "none"]
      /\ uuid = [c \in Conns |-> NoUuid]
  BY DEF Init, ClientInit, ListenerInit
<1>1. KnownInv
  <2>1. Underway = {}
    BY <1>0, AppsOfNone DEF Underway
  <2> QED
    BY <1>0, <2>1 DEF KnownInv
<1>2. Through = 0
  <2>1. Len(<<>>) = 0 /\ 0 - 0 - 0 = 0 /\ 0 - 0 = 0
    OBVIOUS
  <2> QED
    BY <1>0, <2>1 DEF Through, Taken
<1>3. ASSUME NEW c \in Conns PROVE AnswerInv(c) /\ AddressInv(c)
  <2>1. received[c] = <<>> /\ 1..Len(received[c]) = {}
    BY <1>0
  <2>2. AnswerInv(c)
    BY <1>0, <1>2 DEF AnswerInv
  <2>3. AddressInv(c)
    BY <1>0, <2>1 DEF AddressInv, OwnFromOneOn, BeforeOwn
  <2> QED
    BY <2>2, <2>3
<1> QED
  BY <1>1, <1>3, InitDelivers, InitDown DEF ReachInv

LEMMA AnswersReach == ReachInv => AnswersReachTheirApp
BY DEF ReachInv, AnswerInv, Reaches, AnswersReachTheirApp

LEMMA OwnOnceKnown == TypeOK /\ ReachInv => AddressedOnceKnown
<1> SUFFICES ASSUME TypeOK, ReachInv, ~ctx, NEW c \in Conns,
                    NEW j \in 1..Len(received[c]), NEW k \in 1..Len(received[c]), j < k,
                    IsCopy(received[c][j]), IsCopy(received[c][k]), received[c][k].dst # c
             PROVE  /\ received[c][j].dst # c
                    /\ ~\E i \in 1..(j - 1) : received[c][i].dst = c
  BY DEF AddressedOnceKnown
<1>1. BeforeOwn(received[c], c, j)
  BY DEF ReachInv, AddressInv, OwnFromOneOn
<1>2. j \in 1..j /\ \A i \in 1..(j - 1) : i \in 1..j
  BY ReceivedType
<1> QED
  BY <1>1, <1>2 DEF BeforeOwn

LEMMA Reaching == Spec => [](TypeOK /\ ReachInv)
<1>1. Init => TypeOK /\ ReachInv
  BY InitType, InitReach
<1>2. TypeOK /\ ReachInv /\ [Next]_vars => TypeOK' /\ ReachInv'
  BY NextType, NextReach
<1> QED
  BY <1>1, <1>2, PTL DEF Spec

(* The gateway's answer to a request of an app is copied to that app, and  *)
(* carries its uuid until a shutdown empties the handler's state: the app  *)
(* is in the map and its uuid is set before the gateway hears of it.       *)
THEOREM AnswersArrive == Spec => []AnswersReachTheirApp
<1>1. TypeOK /\ ReachInv => AnswersReachTheirApp
  BY AnswersReach
<1> QED
  BY <1>1, Reaching, PTL

(* A copy with the nil uuid comes at most once after the app has been told *)
(* its uuid, and never after a copy that carries it, although the proxy    *)
(* loop reads the uuid without a lock before a write that may wait.        *)
THEOREM AddressedRight == Spec => []AddressedOnceKnown
<1>1. TypeOK /\ ReachInv => AddressedOnceKnown
  BY OwnOnceKnown
<1> QED
  BY <1>1, Reaching, PTL

-----------------------------------------------------------------------------
(* What the handlers answer themselves *)

(* LocalRepliesInOrder of one app, as a relation between what it got, its  *)
(* log, and how far the handler is: through with h messages, with x of the *)
(* answers to the next one written.                                        *)
Due(s, h, x, n) ==
  IF n <= h THEN Len(Answers(s[n])) ELSE IF n > h + 1 THEN 0 ELSE x

RepliesUpTo(q, s, h, x) ==
  /\ \A k \in Own(q) : q[k].n \in 1..Len(s)
  /\ \A j, k \in Own(q) : j < k => q[j].n <= q[k].n
  /\ \A n \in 1..Len(s) : RepliedWith(q, n, Answers(s[n]), Due(s, h, x, n))

Halfway(c) == IF hpc[c] = "node1" THEN 1 ELSE IF hpc[c] = "node2" THEN 2 ELSE 0

RepliesAt(c) ==
  c \notin closed => RepliesUpTo(received[c], sent[c], Handled(c), Halfway(c))

RepliesInv == \A c \in Conns : RepliesAt(c)

LEMMA SameReplies ==
  ASSUME NEW q, NEW r, Len(q) \in Nat, Len(r) \in Nat, Len(q) <= Len(r),
         \A k \in 1..Len(q) : r[k] = q[k], Own(r) = Own(q),
         NEW n, NEW kinds, NEW w \in Nat, RepliedWith(q, n, kinds, w)
  PROVE  RepliedWith(r, n, kinds, w)
<1>1. PICK at \in [1..w -> 1..Len(q)] :
        /\ RepliesTo(q, n) = {at[i] : i \in 1..w}
        /\ \A i \in 1..w : q[at[i]].kind = kinds[i]
        /\ \A i, j \in 1..w : i < j => at[i] < at[j]
  BY DEF RepliedWith
<1>2. Own(q) \subseteq 1..Len(q)
  BY DEF Own
<1>3. RepliesTo(r, n) = RepliesTo(q, n)
  BY <1>2 DEF RepliesTo
<1>4. at \in [1..w -> 1..Len(r)]
  BY <1>1
<1>5. \A i \in 1..w : r[at[i]].kind = kinds[i]
  BY <1>1
<1> QED
  BY <1>1, <1>3, <1>4, <1>5 DEF RepliedWith

LEMMA DueIsNat ==
  ASSUME NEW s, NEW h, NEW x \in Nat, NEW n
  PROVE  Due(s, h, x, n) \in Nat
<1>1. \A m : Len(Answers(m)) \in Nat
  BY DEF Answers
<1> QED
  BY <1>1 DEF Due

(* A copy of a frame of the gateway is none of them. *)
LEMMA CopyBetween ==
  ASSUME NEW q \in Seq(AppFrame), NEW f, IsCopy(f), NEW s, NEW h, NEW x \in Nat,
         RepliesUpTo(q, s, h, x)
  PROVE  RepliesUpTo(Append(q, f), s, h, x)
<1> DEFINE r == Append(q, f)
<1>1. /\ Len(q) \in Nat /\ Len(r) = Len(q) + 1 /\ r[Len(q) + 1] = f
      /\ \A k \in 1..Len(q) : r[k] = q[k]
      /\ \A k \in 1..(Len(q) + 1) : k \in 1..Len(q) \/ k = Len(q) + 1
  BY Written
<1> HIDE DEF r
<1>2. Own(r) = Own(q) /\ Own(q) \subseteq 1..Len(q)
  BY <1>1 DEF Own
<1>3. ASSUME NEW n \in 1..Len(s) PROVE RepliedWith(r, n, Answers(s[n]), Due(s, h, x, n))
  <2>1. RepliedWith(q, n, Answers(s[n]), Due(s, h, x, n))
    BY DEF RepliesUpTo
  <2>2. Due(s, h, x, n) \in Nat
    BY DueIsNat
  <2> QED
    BY <1>1, <1>2, <2>1, <2>2, SameReplies
<1>4. /\ \A k \in Own(r) : r[k].n \in 1..Len(s)
      /\ \A j, k \in Own(r) : j < k => r[j].n <= r[k].n
  BY <1>1, <1>2 DEF RepliesUpTo
<1> QED
  BY <1>3, <1>4 DEF RepliesUpTo, r

LEMMA NoReplies ==
  ASSUME NEW q, NEW n, NEW kinds, RepliesTo(q, n) = {}
  PROVE  RepliedWith(q, n, kinds, 0)
<1> DEFINE at == [i \in 1..0 |-> 1]
<1>1. 1..0 = {}
  OBVIOUS
<1>2. at \in [1..0 -> 1..Len(q)]
  BY <1>1
<1> QED
  BY <1>1, <1>2 DEF RepliedWith

(* The app writes one more message. *)
LEMMA LogGrows ==
  ASSUME NEW q, NEW s, NEW t, Len(s) \in Nat, Len(t) = Len(s) + 1,
         \A i \in 1..Len(s) : t[i] = s[i],
         NEW h \in Nat, h <= Len(s), NEW x \in Nat, h = Len(s) => x = 0,
         RepliesUpTo(q, s, h, x)
  PROVE  RepliesUpTo(q, t, h, x)
<1>1. ASSUME NEW n \in 1..Len(t) PROVE RepliedWith(q, n, Answers(t[n]), Due(t, h, x, n))
  <2>1. CASE n \in 1..Len(s)
    <3>1. t[n] = s[n]
      BY <2>1
    <3>2. Due(t, h, x, n) = Due(s, h, x, n)
      BY <3>1 DEF Due
    <3> QED
      BY <2>1, <3>1, <3>2 DEF RepliesUpTo
  <2>2. CASE n = Len(s) + 1
    <3>1. Due(t, h, x, n) = 0
      BY <2>2 DEF Due
    <3>2. RepliesTo(q, n) = {}
      BY <2>2 DEF RepliesTo, RepliesUpTo
    <3> QED
      BY <3>1, <3>2, NoReplies
  <2> QED
    BY <2>1, <2>2
<1>2. \A k \in Own(q) : q[k].n \in 1..Len(t)
  BY DEF RepliesUpTo
<1>3. \A j, k \in Own(q) : j < k => q[j].n <= q[k].n
  BY DEF RepliesUpTo
<1> QED
  BY <1>1, <1>2, <1>3 DEF RepliesUpTo

(* The handler writes one more answer to the message it holds. *)
LEMMA OneMoreReply ==
  ASSUME NEW q, NEW r, NEW f, Len(q) \in Nat, Len(r) = Len(q) + 1, r[Len(q) + 1] = f,
         \A k \in 1..Len(q) : r[k] = q[k], ~IsCopy(f),
         NEW kinds, NEW w \in Nat, f.kind = kinds[w + 1], RepliedWith(q, f.n, kinds, w)
  PROVE  RepliedWith(r, f.n, kinds, w + 1)
<1>1. PICK at \in [1..w -> 1..Len(q)] :
        /\ RepliesTo(q, f.n) = {at[i] : i \in 1..w}
        /\ \A i \in 1..w : q[at[i]].kind = kinds[i]
        /\ \A i, j \in 1..w : i < j => at[i] < at[j]
  BY DEF RepliedWith
<1> DEFINE l == Len(q)
           to == [i \in 1..(w + 1) |-> IF i <= w THEN at[i] ELSE l + 1]
<1>2. /\ \A k \in 1..(l + 1) : k \in 1..l \/ k = l + 1
      /\ \A i \in 1..(w + 1) : i \in 1..w \/ i = w + 1
      /\ 1..l \subseteq 1..(l + 1) /\ 1..w \subseteq 1..(w + 1)
      /\ l + 1 \in 1..(l + 1) /\ w + 1 \in 1..(w + 1) /\ l + 1 \notin 1..l /\ ~(w + 1 <= w)
      /\ \A i \in 1..w : i <= w
  OBVIOUS
<1>3. (\A i \in 1..w : to[i] = at[i]) /\ to[w + 1] = l + 1
  BY <1>2
<1>4. to \in [1..(w + 1) -> 1..(l + 1)]
  BY <1>1, <1>2
<1> HIDE DEF to, l
<1>5. RepliesTo(r, f.n) = RepliesTo(q, f.n) \cup {l + 1}
  BY <1>2 DEF RepliesTo, Own, l
<1>6. {to[i] : i \in 1..(w + 1)} = {at[i] : i \in 1..w} \cup {l + 1}
  BY <1>2, <1>3
<1>7. RepliesTo(r, f.n) = {to[i] : i \in 1..(w + 1)}
  BY <1>1, <1>5, <1>6
<1>8. \A i \in 1..(w + 1) : r[to[i]].kind = kinds[i]
  <2>1. \A i \in 1..w : at[i] \in 1..l
    BY <1>1 DEF l
  <2>2. \A i \in 1..w : r[to[i]].kind = kinds[i]
    BY <1>1, <1>3, <2>1 DEF l
  <2>3. r[to[w + 1]].kind = kinds[w + 1]
    BY <1>3 DEF l
  <2> QED
    BY <1>2, <2>2, <2>3
<1>9. \A i, j \in 1..(w + 1) : i < j => to[i] < to[j]
  <2> SUFFICES ASSUME NEW i \in 1..(w + 1), NEW j \in 1..(w + 1), i < j PROVE to[i] < to[j]
    OBVIOUS
  <2>1. i \in 1..w
    OBVIOUS
  <2>2. CASE j \in 1..w
    BY <1>1, <1>3, <2>1, <2>2
  <2>3. CASE j = w + 1
    <3>1. to[i] \in 1..l /\ to[j] = l + 1 /\ l \in Nat
      BY <1>1, <1>3, <2>1, <2>3 DEF l
    <3> QED
      BY <3>1
  <2> QED
    BY <1>2, <2>2, <2>3
<1> QED
  BY <1>4, <1>7, <1>8, <1>9 DEF RepliedWith, l

LEMMA ReplyAdded ==
  ASSUME NEW q \in Seq(AppFrame), NEW f, ~IsCopy(f), NEW s, Len(s) \in Nat,
         NEW h \in Nat, f.n = h + 1, h + 1 <= Len(s), NEW x \in Nat,
         f.kind = Answers(s[h + 1])[x + 1], RepliesUpTo(q, s, h, x)
  PROVE  RepliesUpTo(Append(q, f), s, h, x + 1)
<1> DEFINE r == Append(q, f)
<1>1. /\ Len(q) \in Nat /\ Len(r) = Len(q) + 1 /\ r[Len(q) + 1] = f
      /\ \A k \in 1..Len(q) : r[k] = q[k]
      /\ \A k \in 1..(Len(q) + 1) : k \in 1..Len(q) \/ k = Len(q) + 1
  BY Written
<1> HIDE DEF r
<1>2. \A k \in Own(r) : k = Len(q) + 1 \/ (k \in Own(q) /\ k \in 1..Len(q) /\ r[k] = q[k])
  BY <1>1 DEF Own
<1>3. \A k \in Own(q) : q[k].n \in 1..Len(s) /\ q[k].n <= h + 1
  <2> SUFFICES ASSUME NEW k \in Own(q), q[k].n > h + 1 PROVE FALSE
    BY DEF RepliesUpTo
  <2> DEFINE n == q[k].n
  <2>1. n \in 1..Len(s) /\ Due(s, h, x, n) = 0
    BY DEF RepliesUpTo, Due
  <2>2. RepliedWith(q, n, Answers(s[n]), 0)
    BY <2>1 DEF RepliesUpTo
  <2>3. RepliesTo(q, n) = {}
    <3>1. 1..0 = {}
      OBVIOUS
    <3> QED
      BY <2>2, <3>1 DEF RepliedWith
  <2> QED
    BY <2>3 DEF RepliesTo
<1>4. \A k \in Own(r) : r[k].n \in 1..Len(s)
  BY <1>1, <1>2, <1>3
<1>5. ASSUME NEW j \in Own(r), NEW k \in Own(r), j < k PROVE r[j].n <= r[k].n
  <2>1. j \in Own(q) /\ r[j] = q[j]
    BY <1>1, <1>2, <1>5 DEF Own
  <2>2. CASE k = Len(q) + 1
    BY <1>1, <1>3, <2>1, <2>2
  <2>3. CASE k \in Own(q) /\ r[k] = q[k]
    BY <1>5, <2>1, <2>3 DEF RepliesUpTo
  <2> QED
    BY <1>2, <2>2, <2>3
<1>6. ASSUME NEW n \in 1..Len(s) PROVE RepliedWith(r, n, Answers(s[n]), Due(s, h, x + 1, n))
  <2>0. RepliedWith(q, n, Answers(s[n]), Due(s, h, x, n))
    BY DEF RepliesUpTo
  <2>1. CASE n = h + 1
    <3>1. Due(s, h, x, n) = x /\ Due(s, h, x + 1, n) = x + 1
      BY <2>1 DEF Due
    <3> QED
      BY <1>1, <2>0, <2>1, <3>1, OneMoreReply
  <2>2. CASE n # h + 1
    <3>1. Due(s, h, x, n) = Due(s, h, x + 1, n) /\ Due(s, h, x, n) \in Nat
      BY <2>2, DueIsNat DEF Due
    <3>2. RepliesTo(r, n) = RepliesTo(q, n)
      BY <1>1, <1>2, <2>2 DEF RepliesTo, Own
    <3>3. PICK at \in [1..Due(s, h, x, n) -> 1..Len(q)] :
            /\ RepliesTo(q, n) = {at[i] : i \in 1..Due(s, h, x, n)}
            /\ \A i \in 1..Due(s, h, x, n) : q[at[i]].kind = Answers(s[n])[i]
            /\ \A i, j \in 1..Due(s, h, x, n) : i < j => at[i] < at[j]
      BY <2>0 DEF RepliedWith
    <3>4. at \in [1..Due(s, h, x, n) -> 1..Len(r)]
      BY <1>1, <3>3
    <3>5. \A i \in 1..Due(s, h, x, n) : r[at[i]].kind = Answers(s[n])[i]
      BY <1>1, <3>3
    <3>6. RepliedWith(r, n, Answers(s[n]), Due(s, h, x, n))
      BY <3>2, <3>3, <3>4, <3>5 DEF RepliedWith
    <3> QED
      BY <3>1, <3>6
  <2> QED
    BY <2>1, <2>2
<1> QED
  BY <1>4, <1>5, <1>6 DEF RepliesUpTo, r

(* All answers to the message it holds are written. *)
LEMMA AllReplied ==
  ASSUME NEW q, NEW s, Len(s) \in Nat, NEW h \in Nat, h + 1 <= Len(s), NEW x,
         x = Len(Answers(s[h + 1])), RepliesUpTo(q, s, h, x)
  PROVE  RepliesUpTo(q, s, h + 1, 0)
<1>1. \A n \in 1..Len(s) : Due(s, h + 1, 0, n) = Due(s, h, x, n)
  BY DEF Due
<1> QED
  BY <1>1 DEF RepliesUpTo

LEMMA RepliesPrimed ==
  ASSUME NEW c \in Conns,
         c \notin closed' => RepliesUpTo(received'[c], sent'[c], Handled(c)', Halfway(c)')
  PROVE  RepliesAt(c)'
BY DEF RepliesAt, RepliesUpTo, Own, RepliesTo, RepliedWith, Due, IsCopy, Answers

(* Neither side of the connection writes, and the handler is where it was. *)
LEMMA RepliesStay ==
  ASSUME NEW c \in Conns, RepliesAt(c), closed \subseteq closed',
         received'[c] = received[c], sent'[c] = sent[c],
         Handled(c)' = Handled(c), Halfway(c)' = Halfway(c)
  PROVE  RepliesAt(c)'
<1>1. c \notin closed' => RepliesUpTo(received'[c], sent'[c], Handled(c)', Halfway(c)')
  BY DEF RepliesAt
<1> QED
  BY <1>1, RepliesPrimed

(* A message changes hands between the reader and the handler. *)
LEMMA HandledStays ==
  ASSUME ListenerTypeOK, ListenerTypeOK', NEW c \in Conns,
         \/ /\ got'[c] = got[c] /\ rbuf'[c] = rbuf[c] /\ mch'[c] = mch[c]
            /\ Len(hbuf'[c]) = Len(hbuf[c])
         \/ /\ got'[c] = got[c] + 1 /\ Len(rbuf[c]) = 0 /\ Len(rbuf'[c]) = 1
            /\ mch'[c] = mch[c] /\ hbuf'[c] = hbuf[c]
         \/ /\ got'[c] = got[c] /\ Len(rbuf'[c]) = 0
            /\ Len(mch'[c]) = Len(mch[c]) + Len(rbuf[c]) /\ hbuf'[c] = hbuf[c]
         \/ /\ got'[c] = got[c] /\ rbuf'[c] = rbuf[c] /\ Len(mch[c]) = Len(mch'[c]) + 1
            /\ Len(hbuf[c]) = 0 /\ Len(hbuf'[c]) = 1
  PROVE  Handled(c)' = Handled(c)
<1> DEFINE g == got[c]
           lr == Len(rbuf[c])
           lm == Len(mch[c])
           lh == Len(hbuf[c])
           gn == got'[c]
           rn == Len(rbuf'[c])
           mn == Len(mch'[c])
           hn == Len(hbuf'[c])
<1>0. /\ got[c] \in Nat /\ rbuf[c] \in Seq(Request) /\ mch[c] \in Seq(Request)
      /\ hbuf[c] \in Seq(Request)
  BY DEF ListenerTypeOK
<1>a. /\ got'[c] \in Nat /\ rbuf'[c] \in Seq(Request) /\ mch'[c] \in Seq(Request)
      /\ hbuf'[c] \in Seq(Request)
  BY DEF ListenerTypeOK
<1>1. g \in Nat /\ lr \in Nat /\ lm \in Nat /\ lh \in Nat
  BY <1>0
<1>2. gn \in Nat /\ rn \in Nat /\ mn \in Nat /\ hn \in Nat
  BY <1>a
<1>3. /\ Handled(c) = g - lr - lm - lh
      /\ Handled(c)' = gn - rn - mn - hn
  BY DEF Handled
<1>4. \/ gn = g /\ rn = lr /\ mn = lm /\ hn = lh
      \/ gn = g + 1 /\ lr = 0 /\ rn = 1 /\ mn = lm /\ hn = lh
      \/ gn = g /\ rn = 0 /\ mn = lm + lr /\ hn = lh
      \/ gn = g /\ rn = lr /\ lm = mn + 1 /\ lh = 0 /\ hn = 1
  OBVIOUS
<1> HIDE DEF g, lr, lm, lh, gn, rn, mn, hn
<1>5. g - lr - lm - lh = gn - rn - mn - hn
  BY <1>1, <1>2, <1>4
<1> QED
  BY <1>3, <1>5

(* What the handler holds is the message that is next. *)
LEMMA HoldsNext ==
  ASSUME ListenerTypeOK, NEW c \in Conns, Labelled(c), Hands(c)
  PROVE  /\ Handled(c) \in Nat /\ Handled(c) <= Len(sent[c]) /\ Len(sent[c]) \in Nat
         /\ Len(hbuf[c]) = 1 =>
              /\ Handled(c) + 1 <= Len(sent[c])
              /\ hbuf[c][1] = sent[c][Handled(c) + 1]
              /\ hbuf[c][1].n = Handled(c) + 1
<1> DEFINE q == InHands(c)
           h == Handled(c)
           l == Len(sent[c])
<1>1. /\ q \in Seq(Request) /\ Len(q) \in Nat /\ h \in Int /\ Len(q) = got[c] - h
      /\ l \in Nat /\ got[c] \in Nat
  BY HandsType DEF HandsTypeOK
<1>2. /\ got[c] <= l /\ h >= 0 /\ \A i \in 1..Len(q) : q[i] = sent[c][h + i]
      /\ \A i \in 1..l : sent[c][i].n = i
  BY DEF Hands, Labelled
<1>3. hbuf[c] \in Seq(Request) /\ mch[c] \in Seq(Request) /\ rbuf[c] \in Seq(Request)
  BY DEF ListenerTypeOK
<1>4. ASSUME NEW x \in Seq(Request), NEW y \in Seq(Request), x # <<>>
      PROVE  Len(x \o y) >= 1 /\ (x \o y)[1] = x[1] /\ x \o y # <<>> /\ x \o y \in Seq(Request)
  BY <1>4, ConcatProperties
<1>5. ASSUME Len(hbuf[c]) = 1 PROVE Len(q) >= 1 /\ q[1] = hbuf[c][1]
  <2>1. hbuf[c] # <<>>
    BY <1>5
  <2>2. /\ hbuf[c] \o mch[c] # <<>> /\ hbuf[c] \o mch[c] \in Seq(Request)
        /\ (hbuf[c] \o mch[c])[1] = hbuf[c][1]
    BY <1>3, <1>4, <2>1, Zenon
  <2> QED
    BY <1>3, <1>4, <2>2, Zenon DEF InHands
<1> HIDE DEF q, h, l
<1>6. h \in Nat /\ h <= l
  BY <1>1, <1>2
<1>7. ASSUME Len(q) >= 1 PROVE h + 1 <= l /\ q[1] = sent[c][h + 1] /\ sent[c][h + 1].n = h + 1
  <2>1. 1 \in 1..Len(q) /\ h + 1 \in 1..l
    BY <1>1, <1>2, <1>7
  <2> QED
    BY <1>2, <2>1
<1> QED
  BY <1>1, <1>5, <1>6, <1>7 DEF h, l

(* A step of the app side that neither writes to app c nor to its log *)
Quiet(c) ==
  /\ closed \subseteq closed'
  /\ received'[c] = received[c]
  /\ sent'[c] = sent[c]
  /\ Handled(c)' = Handled(c)
  /\ Halfway(c)' = Halfway(c)

(* The handler of app c advances with the message it holds. *)
Advances(c) == HandleRegister(c) \/ HandleStart(c) \/ NotifyNode(c) \/ HandleForward(c)

LEMMA ReaderQuiet ==
  ASSUME TypeOK, TypeOK', NEW c \in Conns, NEW d \in Conns, Reader(d)
  PROVE  Quiet(c)
<1>0. ListenerTypeOK /\ ListenerTypeOK'
  BY DEF TypeOK
<1>1. UNCHANGED <<closed, received, sent, hpc, hbuf>>
  BY DEF Reader, ReaderDone, LateReaderDone, ReaderReading, ReaderRead, ReaderTimeout, ReaderEof,
     ReaderPush, handlerVars, socketVars
<1>2. Halfway(c)' = Halfway(c)
  BY <1>1 DEF Halfway
<1>3. Handled(c)' = Handled(c)
  <2>1. CASE ReaderDone(d) \/ LateReaderDone(d) \/ ReaderReading(d) \/ ReaderTimeout(d) \/ ReaderEof(d)
    <3>1. UNCHANGED <<got, rbuf, mch, hbuf>>
      BY <2>1 DEF ReaderDone, LateReaderDone, ReaderReading, ReaderTimeout, ReaderEof, handlerVars
    <3> QED
      BY <1>0, <3>1, HandledStays
  <2>2. CASE ReaderRead(d)
    <3>1. /\ rpc[d] = "read" /\ UNCHANGED <<mch, hbuf>>
          /\ rbuf' = [rbuf EXCEPT ![d] = <<sent[d][got[d] + 1]>>]
          /\ got' = [got EXCEPT ![d] = @ + 1]
      BY <2>2 DEF ReaderRead, handlerVars
    <3>2. CASE c # d
      <4>1. got'[c] = got[c] /\ rbuf'[c] = rbuf[c]
        BY <1>0, <3>1, <3>2 DEF ListenerTypeOK
      <4> QED
        BY <1>0, <3>1, <4>1, HandledStays
    <3>3. CASE c = d
      <4>1. got'[c] = got[c] + 1 /\ Len(rbuf[c]) = 0 /\ rbuf'[c] = <<sent[d][got[d] + 1]>>
        BY <1>0, <3>1, <3>3 DEF ListenerTypeOK
      <4>2. Len(rbuf'[c]) = 1
        BY <4>1
      <4> QED
        BY <1>0, <3>1, <4>1, <4>2, HandledStays
    <3> QED
      BY <3>2, <3>3
  <2>3. CASE ReaderPush(d)
    <3>1. /\ UNCHANGED <<got, hbuf>>
          /\ mch' = [mch EXCEPT ![d] = @ \o rbuf[d]]
          /\ rbuf' = [rbuf EXCEPT ![d] = <<>>]
      BY <2>3 DEF ReaderPush
    <3>2. CASE c # d
      <4>1. mch'[c] = mch[c] /\ rbuf'[c] = rbuf[c]
        BY <1>0, <3>1, <3>2 DEF ListenerTypeOK
      <4> QED
        BY <1>0, <3>1, <4>1, HandledStays
    <3>3. CASE c = d
      <4>1. /\ mch'[c] = mch[c] \o rbuf[c] /\ rbuf'[c] = <<>>
            /\ mch[c] \in Seq(Request) /\ rbuf[c] \in Seq(Request)
        BY <1>0, <3>1, <3>3 DEF ListenerTypeOK
      <4>2. Len(mch[c] \o rbuf[c]) = Len(mch[c]) + Len(rbuf[c])
        BY <4>1, ConcatProperties, Zenon
      <4>3. Len(rbuf'[c]) = 0
        BY <4>1
      <4> QED
        BY <1>0, <3>1, <4>1, <4>2, <4>3, HandledStays
    <3> QED
      BY <3>2, <3>3
  <2> QED
    BY <2>1, <2>2, <2>3 DEF Reader
<1> QED
  BY <1>1, <1>2, <1>3 DEF Quiet

(* Steps that leave the hands of the handler as they are *)
LEMMA SameHandsQuiet ==
  ASSUME TypeOK, TypeOK', NEW c \in Conns, closed \subseteq closed',
         received'[c] = received[c], sent'[c] = sent[c], got'[c] = got[c], rbuf'[c] = rbuf[c],
         mch'[c] = mch[c], hbuf'[c] = hbuf[c],
         \/ hpc'[c] = hpc[c]
         \/ hpc[c] \notin {"node1", "node2"} /\ hpc'[c] \notin {"node1", "node2"}
  PROVE  Quiet(c)
<1>1. Handled(c)' = Handled(c)
  BY HandledStays DEF TypeOK
<1>2. Halfway(c)' = Halfway(c)
  BY DEF Halfway
<1> QED
  BY <1>1, <1>2 DEF Quiet

LEMMA HandlerQuiet ==
  ASSUME TypeOK, TypeOK', NEW c \in Conns, NEW d \in Conns, Handler(d), ~(c = d /\ Advances(c))
  PROVE  Quiet(c)
<1>0. ListenerTypeOK /\ ListenerTypeOK'
  BY DEF TypeOK
<1>a. /\ received \in [Conns -> Seq(AppFrame)] /\ hbuf \in [Conns -> Seq(Request)]
      /\ mch \in [Conns -> Seq(Request)] /\ hpc = [b \in Conns |-> hpc[b]]
  BY <1>0 DEF ListenerTypeOK
<1>1. CASE c # d
  <2>1. UNCHANGED <<closed, sent, got, rbuf>>
    BY DEF Handler, InsertBegin, InsertEnd, HandlerDone, HandlerTake, HandlerTakeFrom,
       HandleRegister, HandleStart, NotifyNode, HandleForward, readerVars, socketVars
  <2>2. mch'[c] = mch[c] /\ hbuf'[c] = hbuf[c] /\ hpc'[c] = hpc[c]
    <3>1. CASE InsertBegin(d) \/ InsertEnd(d) \/ HandlerDone(d) \/ HandleStart(d)
      BY <1>a, <1>1, <3>1 DEF InsertBegin, InsertEnd, HandlerDone, HandleStart
    <3>2. CASE HandlerTake(d) \/ HandleRegister(d) \/ HandleForward(d)
      BY <1>a, <1>1, <3>2 DEF HandlerTake, HandlerTakeFrom, HandleRegister, HandleForward
    <3>3. CASE NotifyNode(d)
      BY <1>a, <1>1, <3>3 DEF NotifyNode
    <3> QED
      BY <3>1, <3>2, <3>3 DEF Handler
  <2>3. received'[c] = received[c]
    <3>1. CASE InsertBegin(d) \/ InsertEnd(d) \/ HandlerDone(d) \/ HandlerTake(d) \/ HandleForward(d)
      BY <3>1 DEF InsertBegin, InsertEnd, HandlerDone, HandlerTake, HandlerTakeFrom,
         HandleForward, socketVars
    <3>2. CASE HandleRegister(d) \/ HandleStart(d) \/ NotifyNode(d)
      BY <1>a, <1>1, <3>2 DEF HandleRegister, HandleStart, NotifyNode, WriteToApp
    <3> QED
      BY <3>1, <3>2 DEF Handler
  <2> QED
    BY <2>1, <2>2, <2>3, SameHandsQuiet
<1>2. CASE c = d /\ (InsertBegin(d) \/ InsertEnd(d) \/ HandlerDone(d))
  <2>1. UNCHANGED <<closed, received, sent, got, rbuf, mch, hbuf>>
    BY <1>2 DEF InsertBegin, InsertEnd, HandlerDone, readerVars, socketVars
  <2>2. hpc[c] \notin {"node1", "node2"} /\ hpc'[c] \notin {"node1", "node2"}
    BY <1>a, <1>2 DEF InsertBegin, InsertEnd, HandlerDone
  <2> QED
    BY <2>1, <2>2, SameHandsQuiet
<1>3. CASE c = d /\ HandlerTake(d)
  <2>1. /\ UNCHANGED <<closed, received, sent, got, rbuf>>
        /\ hpc[c] = "select" /\ mch[c] # <<>>
        /\ hbuf' = [hbuf EXCEPT ![c] = <<Head(mch[c])>>]
        /\ mch' = [mch EXCEPT ![c] = Tail(@)]
        /\ hpc' = [hpc EXCEPT ![c] = "handle"]
    BY <1>3 DEF HandlerTake, HandlerTakeFrom, readerVars, socketVars
  <2>2. /\ Len(hbuf[c]) = 0 /\ hbuf'[c] = <<Head(mch[c])>> /\ mch'[c] = Tail(mch[c])
        /\ hpc'[c] = "handle" /\ mch[c] \in Seq(Request)
    BY <1>0, <2>1 DEF ListenerTypeOK
  <2>3. Len(hbuf'[c]) = 1 /\ Len(mch[c]) = Len(mch'[c]) + 1
    <3>1. \A m : Len(<<m>>) = 1
      OBVIOUS
    <3>2. Len(Tail(mch[c])) = Len(mch[c]) - 1 /\ Len(mch[c]) \in Nat
      BY <2>1, <2>2
    <3>3. Len(mch'[c]) = Len(mch[c]) - 1
      BY <2>2, <3>2, Zenon
    <3> QED
      BY <2>2, <3>1, <3>2, <3>3
  <2>4. Handled(c)' = Handled(c)
    BY <1>0, <2>1, <2>2, <2>3, HandledStays
  <2>5. Halfway(c)' = Halfway(c)
    BY <2>1, <2>2 DEF Halfway
  <2> QED
    BY <2>1, <2>4, <2>5 DEF Quiet
<1> QED
  BY <1>1, <1>2, <1>3 DEF Handler, Advances

LEMMA ListenerQuiet ==
  ASSUME TypeOK, TypeOK', NEW c \in Conns, ListenerNext, ~Advances(c), ~(App(c) /\ AppSend(c))
  PROVE  Quiet(c)
<1>1. CASE ListenerRun
  <2>1. UNCHANGED <<closed, received, sent, got, rbuf, mch, hbuf>>
    BY <1>1 DEF ListenerRun, ListenerShutDown, ListenerDone, ListenerAccepting, AcceptTimeout,
       Accept, readerVars, handlerVars, socketVars
  <2>2. \/ hpc'[c] = hpc[c]
        \/ hpc[c] \notin {"node1", "node2"} /\ hpc'[c] \notin {"node1", "node2"}
    <3>1. /\ \A d \in Conns : net[d] = "dialed" => hpc[d] = "none"
          /\ hpc = [b \in Conns |-> hpc[b]]
      BY DEF TypeOK, ListenerTypeOK
    <3>2. UNCHANGED hpc
          \/ \E d \in Conns : net[d] = "dialed" /\ hpc' = [hpc EXCEPT ![d] = "insert"]
      BY <1>1 DEF ListenerRun, ListenerShutDown, ListenerDone, ListenerAccepting, AcceptTimeout,
         Accept, handlerVars
    <3> QED
      BY <3>1, <3>2
  <2> QED
    BY <2>1, <2>2, SameHandsQuiet
<1>2. ASSUME NEW d \in Conns, App(d) PROVE Quiet(c)
  <2>1. UNCHANGED <<received, got, rbuf, mch, hbuf, hpc>> /\ closed \subseteq closed'
    BY <1>2 DEF App, AppDial, AppSend, AppClose, AppStall, readerVars, handlerVars
  <2>2. sent'[c] = sent[c]
    <3>1. CASE AppSend(d)
      <4>1. c # d /\ sent \in [Conns -> Seq(Request)]
        BY <1>2, <3>1 DEF TypeOK, ListenerTypeOK
      <4> QED
        BY <3>1, <4>1 DEF AppSend
    <3>2. CASE AppDial(d) \/ AppClose(d) \/ AppStall(d)
      BY <3>2 DEF AppDial, AppClose, AppStall
    <3> QED
      BY <1>2, <3>1, <3>2 DEF App
  <2> QED
    BY <2>1, <2>2, SameHandsQuiet
<1> QED
  BY <1>1, <1>2, ReaderQuiet, HandlerQuiet DEF ListenerNext

(* What the handler answers, by the type of the message *)
LEMMA AnswersTo ==
  ASSUME NEW m \in Request
  PROVE  /\ ~IsCopy(CreateResponse(m)) /\ CreateResponse(m).n = m.n
         /\ \A kind : /\ ~IsCopy(CreateCustomResponse(m, kind))
                      /\ CreateCustomResponse(m, kind).n = m.n
                      /\ CreateCustomResponse(m, kind).kind = kind
         /\ m.kind = "RegisterAppRequest" =>
              Len(Answers(m)) = 1 /\ CreateResponse(m).kind = Answers(m)[1]
         /\ m.kind = "StartSessionRequest" =>
              /\ Len(Answers(m)) = 3 /\ CreateResponse(m).kind = Answers(m)[1]
              /\ Answers(m)[2] = "CnNodeNotification" /\ Answers(m)[3] = "CnNodeNotification"
         /\ ~IsLocal(m) => Len(Answers(m)) = 0
<1>1. /\ ~IsCopy(CreateResponse(m)) /\ CreateResponse(m).n = m.n
      /\ CreateResponse(m).kind = ResponseTypeFor(m.kind)
  BY DEF IsCopy, CreateResponse
<1>2. \A kind : /\ ~IsCopy(CreateCustomResponse(m, kind))
                /\ CreateCustomResponse(m, kind).n = m.n
                /\ CreateCustomResponse(m, kind).kind = kind
  BY DEF IsCopy, CreateCustomResponse
<1>3. /\ ResponseTypeFor("RegisterAppRequest") = "RegisterAppConfirm"
      /\ ResponseTypeFor("StartSessionRequest") = "StartSessionConfirm"
  BY DEF ResponseTypeFor
<1>4. m.kind = "RegisterAppRequest" => Len(Answers(m)) = 1 /\ Answers(m)[1] = "RegisterAppConfirm"
  BY DEF Answers
<1>5. m.kind = "StartSessionRequest" =>
        /\ Len(Answers(m)) = 3 /\ Answers(m)[1] = "StartSessionConfirm"
        /\ Answers(m)[2] = "CnNodeNotification" /\ Answers(m)[3] = "CnNodeNotification"
  BY DEF Answers
<1>6. ~IsLocal(m) => Len(Answers(m)) = 0
  BY DEF Answers, IsLocal
<1> QED
  BY <1>1, <1>2, <1>3, <1>4, <1>5, <1>6

LEMMA AdvanceReplies ==
  ASSUME TypeOK, TypeOK', DeliveryInv, NEW c \in Conns, RepliesAt(c), Advances(c)
  PROVE  RepliesAt(c)'
<1> DEFINE q == received[c]
           s == sent[c]
           h == Handled(c)
           m == hbuf[c][1]
<1>0. ListenerTypeOK /\ ListenerTypeOK'
  BY DEF TypeOK
<1>1. /\ closed' = closed /\ sent' = sent
      /\ hpc[c] \in {"handle", "node1", "node2"} /\ UNCHANGED <<mch, rbuf, got>>
  BY DEF Advances, HandleRegister, HandleStart, NotifyNode, HandleForward, readerVars, socketVars
<1>2. /\ received \in [Conns -> Seq(AppFrame)] /\ hbuf \in [Conns -> Seq(Request)]
      /\ hpc = [b \in Conns |-> hpc[b]] /\ Len(hbuf[c]) = 1
  BY <1>0, <1>1 DEF ListenerTypeOK
<1>3. m \in Request /\ q \in Seq(AppFrame)
  BY <1>2, BufferElement
<1>4. Labelled(c) /\ Hands(c)
  BY DEF DeliveryInv, AppSide
<1>5. /\ h \in Nat /\ Len(s) \in Nat /\ h + 1 <= Len(s)
      /\ m = s[h + 1] /\ m.n = h + 1
  BY <1>0, <1>2, <1>4, HoldsNext
<1>6. hbuf'[c] = <<>> => Handled(c)' = h + 1
  BY <1>0, <1>1, <1>2, <1>4, HandsDone
<1>7. hbuf' = hbuf => Handled(c)' = h
  BY <1>0, <1>1, HandledStays
<1>8. SUFFICES ASSUME c \notin closed
               PROVE  RepliesUpTo(received'[c], s, Handled(c)', Halfway(c)')
  BY <1>1, RepliesPrimed
<1>9. RepliesUpTo(q, s, h, Halfway(c))
  BY <1>8 DEF RepliesAt
<1>10. CASE HandleRegister(c)
  <2> DEFINE f == CreateResponse(m)
  <2>1. /\ m.kind = "RegisterAppRequest" /\ hpc[c] = "handle"
        /\ received'[c] = Append(q, f) /\ hbuf'[c] = <<>> /\ hpc'[c] = "select"
    BY <1>2, <1>8, <1>10 DEF HandleRegister, WriteToApp
  <2>2. Halfway(c) = 0 /\ Halfway(c)' = 0
    BY <2>1 DEF Halfway
  <2>3. ~IsCopy(f) /\ f.n = h + 1 /\ Len(Answers(s[h + 1])) = 1 /\ f.kind = Answers(s[h + 1])[0 + 1]
    BY <1>3, <1>5, <2>1, AnswersTo
  <2>4. RepliesUpTo(q, s, h, 0)
    BY <1>9, <2>2
  <2>a. Handled(c)' = h + 1
    BY <1>6, <2>1
  <2> HIDE DEF f, h, m, q, s
  <2>5. RepliesUpTo(Append(q, f), s, h, 0 + 1)
    BY <1>3, <1>5, <2>3, <2>4, ReplyAdded
  <2>6. 0 + 1 = Len(Answers(s[h + 1]))
    BY <2>3
  <2>7. RepliesUpTo(Append(q, f), s, h + 1, 0)
    BY <1>5, <2>5, <2>6, AllReplied, Zenon
  <2> QED
    BY <2>1, <2>2, <2>7, <2>a
<1>11. CASE HandleStart(c)
  <2> DEFINE f == CreateResponse(m)
  <2>1. /\ m.kind = "StartSessionRequest" /\ hpc[c] = "handle"
        /\ received'[c] = Append(q, f) /\ hbuf' = hbuf /\ hpc'[c] = "node1"
    BY <1>2, <1>8, <1>11 DEF HandleStart, WriteToApp
  <2>2. Halfway(c) = 0 /\ Halfway(c)' = 1
    BY <2>1 DEF Halfway
  <2>3. ~IsCopy(f) /\ f.n = h + 1 /\ f.kind = Answers(s[h + 1])[0 + 1]
    BY <1>3, <1>5, <2>1, AnswersTo
  <2>4. RepliesUpTo(q, s, h, 0)
    BY <1>9, <2>2
  <2>a. Handled(c)' = h
    BY <1>7, <2>1
  <2> HIDE DEF f, h, m, q, s
  <2>5. RepliesUpTo(Append(q, f), s, h, 0 + 1)
    BY <1>3, <1>5, <2>3, <2>4, ReplyAdded
  <2> QED
    BY <2>1, <2>2, <2>5, <2>a
<1>12. CASE NotifyNode(c)
  <2> DEFINE f == CreateCustomResponse(m, "CnNodeNotification")
  <2>1. m.kind = "StartSessionRequest" /\ received'[c] = Append(q, f) /\ hpc[c] \in {"node1", "node2"}
    BY <1>2, <1>8, <1>12 DEF NotifyNode, WriteToApp, DeliveryInv, Notifying
  <2>2. /\ ~IsCopy(f) /\ f.n = h + 1 /\ f.kind = "CnNodeNotification"
        /\ Len(Answers(s[h + 1])) = 3
        /\ Answers(s[h + 1])[2] = "CnNodeNotification" /\ Answers(s[h + 1])[3] = "CnNodeNotification"
    BY <1>3, <1>5, <2>1, AnswersTo
  <2>3. CASE hpc[c] = "node1"
    <3>1. hpc'[c] = "node2" /\ hbuf' = hbuf
      BY <1>2, <1>12, <2>3 DEF NotifyNode
    <3>2. Halfway(c) = 1 /\ Halfway(c)' = 2
      BY <2>3, <3>1 DEF Halfway
    <3>3. RepliesUpTo(q, s, h, 1)
      BY <1>9, <3>2
    <3>4. Handled(c)' = h
      BY <1>7, <3>1
    <3> HIDE DEF f, h, m, q, s
    <3>5. f.kind = Answers(s[h + 1])[1 + 1]
      BY <2>2
    <3>6. RepliesUpTo(Append(q, f), s, h, 1 + 1)
      BY <1>3, <1>5, <2>2, <3>3, <3>5, ReplyAdded
    <3> QED
      BY <2>1, <3>2, <3>4, <3>6
  <2>4. CASE hpc[c] = "node2"
    <3>1. hpc'[c] = "select" /\ hbuf'[c] = <<>>
      BY <1>2, <1>12, <2>4 DEF NotifyNode
    <3>2. Halfway(c) = 2 /\ Halfway(c)' = 0
      BY <2>4, <3>1 DEF Halfway
    <3>3. RepliesUpTo(q, s, h, 2)
      BY <1>9, <3>2
    <3>4. Handled(c)' = h + 1
      BY <1>6, <3>1
    <3> HIDE DEF f, h, m, q, s
    <3>5. f.kind = Answers(s[h + 1])[2 + 1]
      BY <2>2
    <3>6. RepliesUpTo(Append(q, f), s, h, 2 + 1)
      BY <1>3, <1>5, <2>2, <3>3, <3>5, ReplyAdded
    <3>7. 2 + 1 = Len(Answers(s[h + 1]))
      BY <2>2
    <3>8. RepliesUpTo(Append(q, f), s, h + 1, 0)
      BY <1>5, <3>6, <3>7, AllReplied, Zenon
    <3> QED
      BY <2>1, <3>2, <3>4, <3>8
  <2> QED
    BY <2>1, <2>3, <2>4
<1>13. CASE HandleForward(c)
  <2>1. ~IsLocal(m) /\ hpc[c] = "handle" /\ received'[c] = q /\ hbuf'[c] = <<>> /\ hpc'[c] = "select"
    BY <1>2, <1>13 DEF HandleForward, socketVars
  <2>2. Halfway(c) = 0 /\ Halfway(c)' = 0
    BY <2>1 DEF Halfway
  <2>3. Len(Answers(s[h + 1])) = 0
    BY <1>3, <1>5, <2>1, AnswersTo
  <2>4. RepliesUpTo(q, s, h, 0)
    BY <1>9, <2>2
  <2>5. Handled(c)' = h + 1
    BY <1>6, <2>1
  <2> HIDE DEF h, m, q, s
  <2>6. RepliesUpTo(q, s, h + 1, 0)
    BY <1>5, <2>3, <2>4, AllReplied
  <2> QED
    BY <2>1, <2>2, <2>5, <2>6
<1> QED
  BY <1>10, <1>11, <1>12, <1>13 DEF Advances

(* The app sends one more message. *)
LEMMA SendReplies ==
  ASSUME TypeOK, TypeOK', DeliveryInv, NEW c \in Conns, RepliesAt(c), App(c), AppSend(c)
  PROVE  RepliesAt(c)'
<1> DEFINE q == received[c]
           s == sent[c]
           t == sent'[c]
           h == Handled(c)
           x == Halfway(c)
<1>0. ListenerTypeOK /\ ListenerTypeOK' /\ sent \in [Conns -> Seq(Request)]
  BY DEF TypeOK, ListenerTypeOK
<1>1. UNCHANGED <<received, closed, got, rbuf, mch, hbuf, hpc>>
  BY DEF App, AppSend, readerVars, handlerVars
<1>2. Handled(c)' = h /\ Halfway(c)' = x
  BY <1>0, <1>1, HandledStays DEF Halfway
<1>3. Labelled(c) /\ Hands(c)
  BY DEF DeliveryInv, AppSide
<1>4. h \in Nat /\ Len(s) \in Nat /\ h <= Len(s) /\ (Len(hbuf[c]) = 1 => h + 1 <= Len(s))
  BY <1>0, <1>3, HoldsNext
<1>5. x \in Nat /\ (x # 0 => Len(hbuf[c]) = 1)
  BY <1>0 DEF Halfway, ListenerTypeOK
<1>6. Len(t) = Len(s) + 1 /\ \A i \in 1..Len(s) : t[i] = s[i]
  <2>1. PICK m : t = Append(s, m)
    BY <1>0 DEF AppSend
  <2>2. s \in Seq(Request)
    BY <1>0
  <2> HIDE DEF s, t
  <2> QED
    BY <2>1, <2>2
<1>7. h = Len(s) => x = 0
  BY <1>4, <1>5
<1>8. SUFFICES ASSUME c \notin closed PROVE RepliesUpTo(q, t, h, x)
  BY <1>1, <1>2, RepliesPrimed
<1>9. RepliesUpTo(q, s, h, x)
  BY <1>8 DEF RepliesAt
<1> HIDE DEF q, s, t, h, x
<1> QED
  BY <1>4, <1>5, <1>6, <1>7, <1>9, LogGrows

(* The proxy loop writes a copy, or nothing. *)
LEMMA ProxyReplies ==
  ASSUME TypeOK, GatewayPipe, NEW c \in Conns, RepliesAt(c), ProxyRun
  PROVE  RepliesAt(c)'
<1>1. UNCHANGED <<closed, sent, got, rbuf, mch, hbuf, hpc>>
  BY DEF ProxyRun, RunClient, RunListener, ProxyShutDown, ProxyReturn, ProxyTakeUp, ProxyForward,
     ProxyTakeDown, ProxyAddress, ProxyWrite, ProxyCopied, listenerVars, socketVars, readerVars,
     handlerVars
<1>2. Handled(c)' = Handled(c) /\ Halfway(c)' = Halfway(c)
  BY <1>1 DEF Handled, Halfway
<1>3. CASE received'[c] = received[c]
  BY <1>1, <1>2, <1>3, RepliesStay
<1>4. CASE received'[c] # received[c]
  <2>1. ProxyWrite
    BY <1>4 DEF ProxyRun, RunClient, RunListener, ProxyShutDown, ProxyReturn, ProxyTakeUp,
       ProxyForward, ProxyTakeDown, ProxyAddress, ProxyCopied, listenerVars, socketVars
  <2>2. received[c] \in Seq(AppFrame) /\ received \in [Conns -> Seq(AppFrame)]
    BY DEF TypeOK, ListenerTypeOK
  <2> DEFINE f == AddressTo(pdown[1], pto[1].dst)
  <2>3. received'[c] = Append(received[c], f)
    BY <1>4, <2>1, <2>2 DEF ProxyWrite, WriteToApp
  <2>4. IsCopy(f)
    <3>1. pdown # <<>>
      BY <2>1 DEF ProxyWrite, TypeOK
    <3>2. Taken >= 3 /\ pdown[1] = gwOut[Taken] /\ \A i \in 1..Len(gwOut) : gwOut[i].seq = i
      BY <3>1 DEF GatewayPipe
    <3>3. Taken \in Nat /\ Taken <= Len(gwOut) /\ Len(gwOut) \in Nat
      BY TakenBound
    <3>4. Taken \in 1..Len(gwOut)
      BY <3>2, <3>3
    <3>5. pdown[1].seq = Taken
      BY <3>2, <3>4
    <3> QED
      BY <3>2, <3>3, <3>5 DEF AddressTo, IsCopy
  <2>5. ASSUME c \notin closed' PROVE RepliesUpTo(received'[c], sent'[c], Handled(c)', Halfway(c)')
    <3>1. RepliesUpTo(received[c], sent[c], Handled(c), Halfway(c))
      BY <1>1, <2>5 DEF RepliesAt
    <3>2. Halfway(c) \in Nat
      BY DEF Halfway
    <3> HIDE DEF f
    <3>3. RepliesUpTo(Append(received[c], f), sent[c], Handled(c), Halfway(c))
      BY <2>2, <2>4, <3>1, <3>2, CopyBetween
    <3> QED
      BY <1>1, <1>2, <2>3, <3>3
  <2> QED
    BY <2>5, RepliesPrimed
<1> QED
  BY <1>3, <1>4

LEMMA NextReplies ==
  ASSUME TypeOK, TypeOK', ReachInv, RepliesInv, [Next]_vars
  PROVE  RepliesInv'
<1> SUFFICES ASSUME NEW c \in Conns PROVE RepliesAt(c)'
  BY DEF RepliesInv
<1>0. DeliveryInv /\ GatewayPipe /\ RepliesAt(c)
  BY DEF ReachInv, DownInv, RepliesInv
<1>1. CASE ListenerNext
  <2>1. CASE Quiet(c)
    BY <1>0, <2>1, RepliesStay DEF Quiet
  <2> QED
    BY <1>0, <1>1, <2>1, ListenerQuiet, AdvanceReplies, SendReplies
<1>2. CASE ProxyRun
  BY <1>0, <1>2, ProxyReplies
<1>3. CASE UNCHANGED listenerVars
  <2>1. UNCHANGED <<closed, received, sent, got, rbuf, mch, hbuf, hpc>>
    BY <1>3 DEF listenerVars
  <2>2. Handled(c)' = Handled(c) /\ Halfway(c)' = Halfway(c)
    BY <2>1 DEF Handled, Halfway
  <2> QED
    BY <1>0, <2>1, <2>2, RepliesStay
<1> QED
  BY <1>1, <1>2, <1>3 DEF Next, Main, Interrupt, MainWait, MainExit, Throw, Over, vars

LEMMA InitReplies == ASSUME Init PROVE RepliesInv
<1> SUFFICES ASSUME NEW c \in Conns
             PROVE  RepliesUpTo(received[c], sent[c], Handled(c), Halfway(c))
  BY DEF RepliesInv, RepliesAt
<1>1. received[c] = <<>> /\ sent[c] = <<>>
  BY DEF Init, ListenerInit
<1>2. Len(received[c]) = 0 /\ Len(sent[c]) = 0 /\ 1..0 = {}
  BY <1>1
<1> QED
  BY <1>2 DEF RepliesUpTo, Own

LEMMA RepliesOrdered == RepliesInv => LocalRepliesInOrder
<1> SUFFICES ASSUME RepliesInv, NEW c \in Conns \ closed
             PROVE  LET q == received[c]
                    IN /\ \A k \in Own(q) : q[k].n \in 1..Len(sent[c])
                       /\ \A j, k \in Own(q) : j < k => q[j].n <= q[k].n
                       /\ \A n \in 1..Len(sent[c]) :
                            RepliedWith(q, n, Answers(sent[c][n]), Replied(c, n))
  BY DEF LocalRepliesInOrder
<1>1. RepliesUpTo(received[c], sent[c], Handled(c), Halfway(c))
  BY DEF RepliesInv, RepliesAt
<1>2. \A n : Replied(c, n) = Due(sent[c], Handled(c), Halfway(c), n)
  BY DEF Replied, Due, Halfway
<1> QED
  BY <1>1, <1>2 DEF RepliesUpTo

(* What a handler answers itself, it answers in the order of the requests, *)
(* completely and with their references, also while the proxy loop writes  *)
(* copies of the gateway's frames to the same connection.                  *)
THEOREM RepliedInOrder == Spec => []LocalRepliesInOrder
<1>1. Init => RepliesInv
  BY InitReplies
<1>2. /\ TypeOK /\ ReachInv /\ (TypeOK /\ ReachInv)'
      /\ RepliesInv /\ [Next]_vars
      => RepliesInv'
  BY NextReplies
<1>3. RepliesInv => LocalRepliesInOrder
  BY RepliesOrdered
<1> QED
  BY <1>1, <1>2, <1>3, Reaching, PTL DEF Spec
=============================================================================
