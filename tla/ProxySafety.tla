----------------------------- MODULE ProxySafety -----------------------------
(***************************************************************************)
(* What the proxy promises the gateway and the apps, whatever order its    *)
(* goroutines run in.                                                      *)
(***************************************************************************)
EXTENDS Proxy, FiniteSets

(* From the handlers to the gateway: every message that a handler has      *)
(* forwarded and that is not lost is at one place of this pipeline.        *)
Pending == cbuf \o toClient \o pbuf \o toGateway

Upstream == gwIn \o Pending

(* What the socket reader and the handler of an app have in their hands,   *)
(* and how many messages the handler is through with                       *)
InHands(c) == hbuf[c] \o mch[c] \o rbuf[c]

Handled(c) == got[c] - Len(rbuf[c]) - Len(mch[c]) - Len(hbuf[c])

(* Of one app: in the order in which it wrote, and free of duplicates *)
InOrder(q) ==
  \A i, j \in 1..Len(q) :
    i < j /\ q[i].app = q[j].app /\ q[i].app # Self => q[i].n < q[j].n

(* What of q came from an app is what the app wrote, was handled, and is   *)
(* none of what is answered locally.                                       *)
Genuine(q) ==
  \A i \in 1..Len(q) :
    LET m == q[i]
    IN m.app # Self => /\ m.n \in 1..Handled(m.app)
                       /\ m.kind = sent[m.app][m.n].kind
                       /\ ~IsLocal(m)

(* Nothing is missing of what the handlers have forwarded *)
Complete(q) ==
  \A c \in Conns : \A n \in 1..Handled(c) :
    IsLocal(sent[c][n]) \/ \E i \in 1..Len(q) : q[i].app = c /\ q[i].n = n

(* Every message of an app that the proxy has read from its socket is in   *)
(* exactly one place, in the order in which the app wrote it: what the     *)
(* handler has not finished is in messageChannel or in a goroutine's       *)
(* hands; what it has forwarded is on its way or delivered, once, in order *)
(* and unaltered; and as long as the gateway's connection is up nothing of *)
(* it is missing.  It crosses five goroutines and three bounded channels.  *)
UpstreamFIFO ==
  /\ \A c \in Conns : InHands(c) = SubSeq(sent[c], Handled(c) + 1, got[c])
  /\ InOrder(Upstream)
  /\ Genuine(Upstream)
  /\ link \in {"none", "up"} => Complete(Upstream)

(* Also when the connection is lost or closed under way, with messages of  *)
(* both sides queued, what reaches the gateway of one app is in the app's  *)
(* order and free of duplicates.                                           *)
ForwardedInOrder == InOrder(gwIn)

(* The gateway sees a single client, whatever the apps do: one             *)
(* registration, then one session start, both the proxy's own and before   *)
(* anything of the apps, and the proxy's uuid as the source of every       *)
(* frame.  Apps may send all of this before the session exists.            *)
GatewaySeesOneClient ==
  \A i \in 1..Len(gwIn) :
    /\ gwIn[i].src = Self
    /\ gwIn[i].kind = "RegisterAppRequest" <=> i = 1
    /\ gwIn[i].kind = "StartSessionRequest" <=> i = 2
    /\ i <= 2 => gwIn[i].app = Self

Handshake ==
  {"none", "discover", "dial", "register", "registerConfirm", "start", "startConfirm"}

(* How far the handshake has got on a connection that is up.  The keep-    *)
(* alive and the messages of the apps have to wait for its end.            *)
HandshakeProgress ==
  /\ cpc \in {"none", "discover", "dial"} => gwIn = <<>>
  /\ kpc # "none" => cpc \notin Handshake
  /\ link = "up" =>
       /\ cpc = "register" => Len(gwIn) = 0
       /\ cpc \in {"registerConfirm", "start"} => Len(gwIn) = 1
       /\ cpc = "startConfirm" => Len(gwIn) = 2
       /\ cpc \notin Handshake => Len(gwIn) >= 2

NothingLocal(q) == \A i \in 1..Len(q) : ~IsLocal(q[i])

(* GatewaySeesOneClient, made inductive: what is on its way to the gateway *)
(* is neither a registration nor a session start, it is masqueraded before *)
(* it is sent, and nothing of it is sent before the handshake is through.  *)
OneClientInv ==
  /\ GatewaySeesOneClient
  /\ HandshakeProgress
  /\ NothingLocal(toGateway)
  /\ NothingLocal(pbuf)
  /\ NothingLocal(toClient)
  /\ NothingLocal(cbuf)
  /\ \A i \in 1..Len(cbuf) : cbuf[i].src = Self

(* After the proxy has asked the gateway to close the session it writes    *)
(* nothing of the apps any more; the keep-alive, a goroutine of its own,   *)
(* may still come through.                                                 *)
NothingAfterClose ==
  \A i, j \in 1..Len(gwIn) :
    i < j /\ gwIn[i].app = Self /\ gwIn[i].kind = "CloseSessionRequest"
      => gwIn[j].app = Self /\ gwIn[j].kind = "CnTimeRequest"

-----------------------------------------------------------------------------
(* How many frames of the gateway the proxy loop has taken, and with how   *)
(* many it is through                                                      *)
Taken == gwRead - Len(dbuf) - Len(fromGateway)

Through == Taken - Len(pdown)

(* What the proxy loop has copied to an app; what the handler writes to it *)
(* has no number.                                                          *)
IsCopy(f) == f.seq > 0

Got(c, s) == \E k \in 1..Len(received[c]) : received[c][k].seq = s

(* Once an app has got a frame of the gateway it gets every later one, in  *)
(* order, once, and unaltered; it is behind by at most the frame being     *)
(* copied.  The confirmations of the proxy's own handshake are not copied. *)
(* Apps join while frames are being copied.                                *)
DownstreamContiguous ==
  \A c \in Conns :
    LET q == received[c]
    IN /\ \A k \in 1..Len(q) : IsCopy(q[k]) =>
            /\ q[k].seq \in 3..Taken
            /\ q[k] = AddressTo(gwOut[q[k].seq], q[k].dst)
            /\ c \notin closed => \A s \in q[k].seq..Through : Got(c, s)
       /\ \A j, k \in 1..Len(q) : j < k /\ IsCopy(q[j]) /\ IsCopy(q[k]) =>
            /\ q[j].seq < q[k].seq
            /\ \A s \in q[j].seq..q[k].seq : Got(c, s)

(* The answer of the gateway to a request of an app is copied to that app, *)
(* and (until a shutdown empties the handler's state) it carries the app's *)
(* uuid: the handler enters the app in the map before it reads a message,  *)
(* and sets the uuid before it forwards one.                               *)
AnswersReachTheirApp ==
  \A c \in Conns \ closed : \A i \in 3..Through :
    gwOut[i].app = c =>
      \E k \in 1..Len(received[c]) :
        received[c][k].seq = i /\ (ctx \/ received[c][k].dst = c)

(* The proxy loop reads an app's uuid without a lock and before a write    *)
(* that may wait, so a copy can still carry the nil uuid after the handler *)
(* has answered the app with its uuid; but at most one, and once a copy    *)
(* carries the uuid all later ones do.                                     *)
AddressedOnceKnown ==
  ~ctx =>
    \A c \in Conns :
      LET q == received[c]
          After(k) == \E j \in 1..(k - 1) : q[j].dst = c
      IN \A j, k \in 1..Len(q) : j < k /\ IsCopy(q[j]) /\ IsCopy(q[k]) /\ q[k].dst # c =>
           q[j].dst # c /\ ~After(j)

(* What the handler answers itself to a message *)
Answers(m) ==
  IF m.kind = "RegisterAppRequest" THEN <<"RegisterAppConfirm">>
  ELSE IF m.kind = "StartSessionRequest"
       THEN <<"StartSessionConfirm", "CnNodeNotification", "CnNodeNotification">>
       ELSE <<>>

(* How many of these answers to the n-th message of app c are written *)
Replied(c, n) ==
  IF n <= Handled(c) THEN Len(Answers(sent[c][n]))
  ELSE IF n > Handled(c) + 1 THEN 0
  ELSE IF hpc[c] = "node1" THEN 1
  ELSE IF hpc[c] = "node2" THEN 2
  ELSE 0

(* Where q holds answers of the handler, and where those to message n *)
Own(q) == {k \in 1..Len(q) : ~IsCopy(q[k])}

RepliesTo(q, n) == {k \in Own(q) : q[k].n = n}

(* These are w answers, of these kinds, in this order *)
RepliedWith(q, n, kinds, w) ==
  \E at \in [1..w -> 1..Len(q)] :
    /\ RepliesTo(q, n) = {at[i] : i \in 1..w}
    /\ \A i \in 1..w : q[at[i]].kind = kinds[i]
    /\ \A i, j \in 1..w : i < j => at[i] < at[j]

(* What the handler answers itself, in the order in which it was asked     *)
(* and with the references of the requests: a confirmation, and for a      *)
(* session start two node notifications after it, whatever copies of the   *)
(* gateway's frames the proxy loop writes to the connection in between.    *)
LocalRepliesInOrder ==
  \A c \in Conns \ closed :
    LET q == received[c]
    IN /\ \A k \in Own(q) : q[k].n \in 1..Len(sent[c])
       /\ \A j, k \in Own(q) : j < k => q[j].n <= q[k].n
       /\ \A n \in 1..Len(sent[c]) : RepliedWith(q, n, Answers(sent[c][n]), Replied(c, n))

-----------------------------------------------------------------------------
(* The goroutines that the WaitGroup was told about and that still run *)
Tasks ==
  {t \in {"client", "listener", "keepAlive"} :
     CASE t = "client"    -> cpc \notin {"none", "done"}
       [] t = "listener"  -> lpc \notin {"none", "done"}
       [] t = "keepAlive" -> kpc = "select"}

NoAppAccepted == \A c \in Conns : hpc[c] = "none"

(* The shared WaitGroup never counts more than the goroutines it was told  *)
(* about.  It counts exactly those until a connection is accepted: the     *)
(* handler and the reader call Done without an Add, and take away what     *)
(* the others have added.                                                  *)
WaitGroupCountsTasks ==
  Running => /\ wg <= Cardinality(Tasks)
             /\ NoAppAccepted => wg = Cardinality(Tasks)

(* main exits the process only when every goroutine it started is through  *)
(* and the session with the gateway is closed, if no app ever connected.   *)
(* An interrupt may come at any time: before the goroutines are started,   *)
(* during the handshake (which adds to the WaitGroup that main already     *)
(* waits for), or after the session was lost.                              *)
CleanExit ==
  status = "exited" /\ NoAppAccepted => Tasks = {} /\ link \in {"none", "closed"}

-----------------------------------------------------------------------------
(* A request that an app sends is answered, or the process crashes: while  *)
(* the session lasts, apps read what they are sent, and the channels can   *)
(* take the traffic.  The request passes both directions of the proxy.     *)
Answered(c, n) ==
  \E k \in 1..Len(received[c]) :
    received[c][k].seq > 0 /\ received[c][k].app = c /\ received[c][k].n = n

RequestsAnswered ==
  \A c \in Conns : \A n \in 1..MaxUp :
    n <= Len(sent[c]) /\ ~IsLocal(sent[c][n]) ~> Answered(c, n) \/ ~Running

(* After an interrupt the process ends, unless the session was lost (the   *)
(* client's loop is then gone without a Done).  With apps connected it     *)
(* ends only because their goroutines call Done without an Add.            *)
InterruptEnds == ctx ~> ~Running \/ cpc = "lost"

-----------------------------------------------------------------------------
(* What the code's comments say and the code does not do. *)

(* client.go:130: Session.Receive has a deadline, so the client's loop     *)
(* keeps running.                                                          *)
LoopKeepsRunning == cpc = "receive" ~> cpc \in {"select", "lost"} \/ ~Running

(* comfoconnect.go:312: what packMessage makes is ready to send.  It is as *)
(* long as its header says.                                                *)
ReadyToSend ==
  \A c \in Conns : \A k \in 1..Len(received[c]) :
    WireLength(received[c][k].dst) = HeaderLength
=============================================================================
