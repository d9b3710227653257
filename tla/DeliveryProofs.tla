---------------------------- MODULE DeliveryProofs ----------------------------
(***************************************************************************)
(* What the proxy delivers, for every set of apps, every number of         *)
(* messages and every capacity of the channels: the messages of the apps   *)
(* reach the gateway in order, once and unaltered.                         *)
(*                                                                         *)
(* The argument follows a message: from the app's log through the reader   *)
(* and the handler (Hands), whose steps change what lies behind them in    *)
(* one of three ways (Effect), and through the pipeline to the gateway, as *)
(* one sequence that the steps append to, delete from or leave alone.      *)
(***************************************************************************)
EXTENDS ProxyProofs

-----------------------------------------------------------------------------
(* From the app's log to the handler *)

(* The i-th message of an app's log says so *)
Labelled(c) ==
  \A i \in 1..Len(sent[c]) : sent[c][i].app = c /\ sent[c][i].n = i /\ sent[c][i].src = c

(* What the reader and the handler hold continues what is handled *)
Hands(c) ==
  /\ got[c] <= Len(sent[c])
  /\ Handled(c) >= 0
  /\ \A i \in 1..Len(InHands(c)) : InHands(c)[i] = sent[c][Handled(c) + i]

AppSide == \A c \in Conns : Labelled(c) /\ Hands(c)

(* The node notifications belong to a session start *)
Notifying ==
  \A c \in Conns :
    hpc[c] \in {"node1", "node2"} => hbuf[c][1].kind = "StartSessionRequest"

(* Logs are only appended to *)
SentGrows ==
  \A c \in Conns :
    /\ Len(sent[c]) <= Len(sent'[c])
    /\ \A i \in 1..Len(sent[c]) : sent'[c][i] = sent[c][i]

(* The handler of app c is through with one more message, the others are not *)
OneMore(c) ==
  /\ Handled(c) < got[c]
  /\ \A d \in Conns : Handled(d)' = IF d = c THEN Handled(d) + 1 ELSE Handled(d)

(* What a step of the app side does to the pipeline: nothing, or a handler *)
(* is through with a message, which it has answered itself or forwarded.   *)
Effect ==
  \/ (\A d \in Conns : Handled(d)' = Handled(d)) /\ toGateway' = toGateway
  \/ \E c \in Conns :
       /\ OneMore(c)
       /\ IF IsLocal(sent[c][Handled(c) + 1])
            THEN toGateway' = toGateway
            ELSE toGateway' = Append(toGateway, sent[c][Handled(c) + 1])

LEMMA Associative ==
  ASSUME NEW s \in Seq(Request), NEW t \in Seq(Request), NEW u \in Seq(Request)
  PROVE  (s \o t) \o u = s \o (t \o u)
OBVIOUS

(* The types of what the reader and the handler of app c hold *)
HandsTypeOK(c) ==
  /\ InHands(c) \in Seq(Request)
  /\ Len(InHands(c)) \in Nat
  /\ Handled(c) \in Int
  /\ Len(InHands(c)) = got[c] - Handled(c)
  /\ sent[c] \in Seq(Request)
  /\ Len(sent[c]) \in Nat
  /\ got[c] \in Nat

LEMMA HandsType == ListenerTypeOK => \A c \in Conns : HandsTypeOK(c)
<1> SUFFICES ASSUME ListenerTypeOK, NEW c \in Conns PROVE HandsTypeOK(c)
  OBVIOUS
<1>1. /\ hbuf[c] \in Seq(Request) /\ mch[c] \in Seq(Request) /\ rbuf[c] \in Seq(Request)
      /\ got[c] \in Nat /\ sent[c] \in Seq(Request)
  BY DEF ListenerTypeOK
<1>2. hbuf[c] \o mch[c] \in Seq(Request) /\ Len(hbuf[c] \o mch[c]) = Len(hbuf[c]) + Len(mch[c])
  BY <1>1, ConcatProperties, Zenon
<1>3. /\ InHands(c) \in Seq(Request)
      /\ Len(InHands(c)) = Len(hbuf[c] \o mch[c]) + Len(rbuf[c])
  BY <1>1, <1>2, ConcatProperties, Zenon DEF InHands
<1> DEFINE lh == Len(hbuf[c])
           lm == Len(mch[c])
           lr == Len(rbuf[c])
           lq == Len(InHands(c))
<1>4. lh \in Nat /\ lm \in Nat /\ lr \in Nat /\ Len(sent[c]) \in Nat
  BY <1>1
<1>5. Handled(c) = got[c] - lr - lm - lh
  BY DEF Handled
<1>6. lq = lh + lm + lr
  BY <1>2, <1>3
<1>7. lq \in Nat /\ Handled(c) \in Int /\ lq = got[c] - Handled(c)
  <2> HIDE DEF lh, lm, lr, lq
  <2> QED
    BY <1>1, <1>4, <1>5, <1>6
<1> QED
  BY <1>1, <1>3, <1>4, <1>7 DEF HandsTypeOK

LEMMA HandsTypePrimed == (ListenerTypeOK => \A c \in Conns : HandsTypeOK(c))'
BY HandsType, PTL

(* A message is handed on, or nothing happens *)
LEMMA HandsMoved ==
  ASSUME ListenerTypeOK, ListenerTypeOK', SentGrows, NEW c \in Conns, Hands(c),
         InHands(c)' = InHands(c), got'[c] = got[c]
  PROVE  Hands(c)' /\ Handled(c)' = Handled(c)
<1> DEFINE q == InHands(c)
           h == Handled(c)
<1>1. /\ Len(q) \in Nat /\ h \in Int /\ Len(q) = got[c] - h
      /\ Len(sent[c]) \in Nat /\ got[c] \in Nat
  BY HandsType DEF HandsTypeOK
<1>2. h' \in Int /\ Len(q) = got[c] - h' /\ Len(sent'[c]) \in Nat
  BY HandsTypePrimed DEF HandsTypeOK
<1>3. h' = h
  BY <1>1, <1>2
<1>4. /\ got[c] <= Len(sent[c]) /\ h >= 0
      /\ \A i \in 1..Len(q) : q[i] = sent[c][h + i]
  BY DEF Hands
<1>5. Len(sent[c]) <= Len(sent'[c]) /\ \A i \in 1..Len(sent[c]) : sent'[c][i] = sent[c][i]
  BY DEF SentGrows
<1>6. \A i \in 1..Len(q) : q[i] = sent'[c][h + i]
  <2> SUFFICES ASSUME NEW i \in 1..Len(q) PROVE q[i] = sent'[c][h + i]
    OBVIOUS
  <2>1. h + i \in 1..Len(sent[c])
    <3> HIDE DEF q, h
    <3> QED
      BY <1>1, <1>4
  <2> QED
    BY <1>4, <1>5, <2>1
<1>7. got'[c] <= Len(sent'[c])
  BY <1>1, <1>2, <1>4, <1>5
<1> QED
  BY <1>3, <1>4, <1>6, <1>7 DEF Hands

(* The reader takes the next message from the socket *)
LEMMA HandsRead ==
  ASSUME ListenerTypeOK, ListenerTypeOK', NEW c \in Conns, Hands(c), sent' = sent,
         got[c] < Len(sent[c]), got'[c] = got[c] + 1,
         InHands(c)' = Append(InHands(c), sent[c][got[c] + 1])
  PROVE  Hands(c)' /\ Handled(c)' = Handled(c)
<1> DEFINE q == InHands(c)
           h == Handled(c)
<1>1. /\ Len(q) \in Nat /\ h \in Int /\ Len(q) = got[c] - h
      /\ Len(sent[c]) \in Nat /\ got[c] \in Nat /\ q \in Seq(Request) /\ sent[c] \in Seq(Request)
  BY HandsType DEF HandsTypeOK
<1>2. sent[c][got[c] + 1] \in Request
  <2>1. got[c] + 1 \in 1..Len(sent[c])
    BY <1>1
  <2> QED
    BY <1>1, <2>1, ElementOfSeq, Zenon
<1>a. q' = Append(q, sent[c][got[c] + 1])
  OBVIOUS
<1>b. Len(q') = Len(q) + 1
  <2> HIDE DEF q
  <2> QED
    BY <1>1, <1>2, <1>a
<1>3. /\ Len(q') = Len(q) + 1
      /\ \A i \in 1..Len(q) : q'[i] = q[i]
      /\ q'[Len(q) + 1] = sent[c][got[c] + 1]
  <2> HIDE DEF q
  <2> QED
    BY <1>1, <1>2, <1>a
<1>4. h' \in Int /\ Len(q') = got'[c] - h'
  BY HandsTypePrimed DEF HandsTypeOK
<1>5. h' = h
  <2> HIDE DEF q, h
  <2> QED
    BY <1>1, <1>3, <1>4
<1>6. h >= 0 /\ \A i \in 1..Len(q) : q[i] = sent[c][h + i]
  BY DEF Hands
<1>7. ASSUME NEW i \in 1..Len(q') PROVE q'[i] = sent[c][h + i]
  <2>1. i \in 1..Len(q) \/ (i = Len(q) + 1 /\ h + i = got[c] + 1)
    <3> HIDE DEF q, h
    <3> QED
      BY <1>1, <1>b
  <2> QED
    BY <1>3, <1>6, <2>1
<1>8. got'[c] <= Len(sent'[c])
  BY <1>1
<1> QED
  BY <1>5, <1>6, <1>7, <1>8 DEF Hands

(* The handler is through with the message it holds *)
LEMMA HandsDone ==
  ASSUME ListenerTypeOK, ListenerTypeOK', NEW c \in Conns, Hands(c), sent' = sent,
         Len(hbuf[c]) = 1, hbuf'[c] = <<>>, mch'[c] = mch[c], rbuf'[c] = rbuf[c],
         got'[c] = got[c]
  PROVE  /\ Hands(c)'
         /\ Handled(c)' = Handled(c) + 1
         /\ Handled(c) < got[c]
         /\ hbuf[c][1] = sent[c][Handled(c) + 1]
<1> DEFINE q == InHands(c)
           h == Handled(c)
<1>1. /\ Len(q) \in Nat /\ h \in Int /\ Len(q) = got[c] - h
      /\ Len(sent[c]) \in Nat /\ got[c] \in Nat /\ q \in Seq(Request)
  BY HandsType DEF HandsTypeOK
<1>2. h' \in Int /\ Len(q') \in Nat /\ Len(q') = got[c] - h'
  BY HandsTypePrimed DEF HandsTypeOK
<1>3. /\ hbuf[c] \in Seq(Request) /\ mch[c] \in Seq(Request) /\ rbuf[c] \in Seq(Request)
      /\ Len(mch[c]) \in Nat /\ Len(rbuf[c]) \in Nat
  BY DEF ListenerTypeOK
<1>4. h' = h + 1
  <2>1. h = got[c] - Len(rbuf[c]) - Len(mch[c]) - 1
    BY DEF Handled
  <2>2. h' = got[c] - Len(rbuf[c]) - Len(mch[c]) - 0
    BY DEF Handled
  <2> HIDE DEF h
  <2> QED
    BY <1>1, <1>3, <2>1, <2>2
<1>5. q = <<hbuf[c][1]>> \o q'
  <2>1. hbuf[c] = <<hbuf[c][1]>>
    BY <1>3
  <2>2. q' = mch[c] \o rbuf[c]
    <3>1. <<>> \o mch[c] = mch[c]
      BY <1>3, ConcatEmptySeq, Zenon
    <3> QED
      BY <3>1 DEF InHands
  <2>3. (hbuf[c] \o mch[c]) \o rbuf[c] = hbuf[c] \o (mch[c] \o rbuf[c])
    BY <1>3, Associative
  <2> QED
    BY <2>1, <2>2, <2>3 DEF InHands
<1>6. Len(q) = Len(q') + 1
  <2> HIDE DEF q, h
  <2> QED
    BY <1>1, <1>2, <1>4
<1>7. q' \in Seq(Request) /\ hbuf[c][1] \in Request
  <2>1. q' \in Seq(Request)
    BY HandsTypePrimed DEF HandsTypeOK
  <2> QED
    BY <1>3, <2>1, BufferElement
<1>8. q[1] = hbuf[c][1] /\ \A i \in 1..Len(q') : q[i + 1] = q'[i]
  <2> HIDE DEF q
  <2> QED
    BY <1>2, <1>5, <1>7
<1>9. /\ got[c] <= Len(sent[c]) /\ h >= 0
      /\ \A i \in 1..Len(q) : q[i] = sent[c][h + i]
  BY DEF Hands
<1>10. 1 \in 1..Len(q) /\ h < got[c]
  <2> HIDE DEF q, h
  <2> QED
    BY <1>1, <1>2, <1>6
<1>11. hbuf[c][1] = sent[c][h + 1]
  BY <1>8, <1>9, <1>10
<1>12. ASSUME NEW i \in 1..Len(q') PROVE q'[i] = sent[c][h' + i]
  <2>1. i + 1 \in 1..Len(q) /\ h + (i + 1) = h' + i
    <3> HIDE DEF q, h
    <3> QED
      BY <1>1, <1>2, <1>4, <1>6
  <2> QED
    BY <1>8, <1>9, <2>1
<1>13. h' >= 0
  <2> HIDE DEF h
  <2> QED
    BY <1>1, <1>4, <1>9
<1> QED
  BY <1>4, <1>9, <1>10, <1>11, <1>12, <1>13 DEF Hands

(* A step of the reader or the handler of app c leaves the other apps alone *)
LEMMA OthersStay ==
  ASSUME ListenerTypeOK, ListenerTypeOK', AppSide, sent' = sent, NEW c \in Conns,
         \A d \in Conns \ {c} : InHands(d)' = InHands(d) /\ got'[d] = got[d],
         Hands(c)'
  PROVE  /\ AppSide'
         /\ SentGrows
         /\ \A d \in Conns \ {c} : Handled(d)' = Handled(d)
<1>1. SentGrows
  <2>1. \A d \in Conns : Len(sent[d]) \in Nat
    BY HandsType DEF HandsTypeOK
  <2> QED
    BY <2>1 DEF SentGrows
<1>2. ASSUME NEW d \in Conns \ {c} PROVE Hands(d)' /\ Handled(d)' = Handled(d)
  BY <1>1, <1>2, HandsMoved DEF AppSide
<1>3. \A d \in Conns : Labelled(d)'
  BY DEF AppSide, Labelled
<1> QED
  BY <1>1, <1>2, <1>3 DEF AppSide

(* ... and when no message is taken up, nothing behind it happens. *)
LEMMA NoEffect ==
  ASSUME ListenerTypeOK, ListenerTypeOK', AppSide, SentGrows,
         \A c \in Conns : Labelled(c)',
         \A c \in Conns : InHands(c)' = InHands(c) /\ got'[c] = got[c],
         toGateway' = toGateway
  PROVE  AppSide' /\ Effect
<1>1. ASSUME NEW c \in Conns PROVE Hands(c)' /\ Handled(c)' = Handled(c)
  BY <1>1, HandsMoved DEF AppSide
<1> QED
  BY <1>1 DEF AppSide, Effect

LEMMA AppSendEffect ==
  ASSUME ListenerTypeOK, ListenerTypeOK', AppSide, NEW c \in Conns, App(c)
  PROVE  AppSide' /\ SentGrows /\ Effect
<1>1. UNCHANGED <<hbuf, mch, rbuf, got, toGateway>>
  BY DEF App, readerVars, handlerVars
<1>2. \A d \in Conns : InHands(d)' = InHands(d) /\ got'[d] = got[d]
  BY <1>1 DEF InHands
<1>3. \A d \in Conns : sent[d] \in Seq(Request) /\ Len(sent[d]) \in Nat
  BY HandsType DEF HandsTypeOK
<1>4. CASE AppSend(c)
  <2> PICK kind \in Kinds : sent' = [sent EXCEPT ![c] =
             Append(@, [app |-> c, n |-> Len(@) + 1, kind |-> kind, src |-> c])]
    <3>1. Len(sent[c]) + 1 \in 1..MaxUp
      BY <1>3, <1>4, ListenerAssumption DEF AppSend
    <3> QED
      BY <1>4, <3>1, ListenerAssumption DEF AppSend
  <2> DEFINE m == [app |-> c, n |-> Len(sent[c]) + 1, kind |-> kind, src |-> c]
  <2>1. sent'[c] = Append(sent[c], m) /\ \A d \in Conns \ {c} : sent'[d] = sent[d]
    BY DEF ListenerTypeOK
  <2>2. /\ Len(sent'[c]) = Len(sent[c]) + 1
        /\ \A i \in 1..Len(sent[c]) : sent'[c][i] = sent[c][i]
        /\ sent'[c][Len(sent[c]) + 1] = m
    <3> HIDE DEF m
    <3> QED
      BY <1>3, <2>1
  <2>3. SentGrows
    BY <1>3, <2>1, <2>2 DEF SentGrows
  <2>4. ASSUME NEW d \in Conns PROVE Labelled(d)'
    <3>1. CASE d # c
      BY <2>1, <3>1 DEF AppSide, Labelled
    <3>2. CASE d = c
      <4>1. ASSUME NEW i \in 1..Len(sent'[c])
            PROVE  sent'[c][i].app = c /\ sent'[c][i].n = i /\ sent'[c][i].src = c
        <5>1. i \in 1..Len(sent[c]) \/ i = Len(sent[c]) + 1
          BY <1>3, <2>2
        <5> QED
          BY <2>2, <5>1 DEF AppSide, Labelled
      <4> QED
        BY <3>2, <4>1 DEF Labelled
    <3> QED
      BY <3>1, <3>2
  <2> QED
    BY <1>1, <1>2, <2>3, <2>4, NoEffect
<1>5. CASE sent' = sent
  <2>1. SentGrows
    BY <1>3, <1>5 DEF SentGrows
  <2>2. \A d \in Conns : Labelled(d)'
    BY <1>5 DEF AppSide, Labelled
  <2> QED
    BY <1>1, <1>2, <2>1, <2>2, NoEffect
<1> QED
  BY <1>4, <1>5 DEF App, AppDial, AppClose, AppStall

(* Steps that touch neither the logs nor what is in the hands of anyone *)
LEMMA IdleEffect ==
  ASSUME ListenerTypeOK, ListenerTypeOK', AppSide,
         UNCHANGED <<sent, got, rbuf, mch, hbuf, toGateway>>
  PROVE  AppSide' /\ SentGrows /\ Effect
<1>1. \A d \in Conns : InHands(d)' = InHands(d) /\ got'[d] = got[d]
  BY DEF InHands
<1>2. \A d \in Conns : Len(sent[d]) \in Nat
  BY HandsType DEF HandsTypeOK
<1>3. SentGrows
  BY <1>2 DEF SentGrows
<1>4. \A d \in Conns : Labelled(d)'
  BY DEF AppSide, Labelled
<1> QED
  BY <1>1, <1>3, <1>4, NoEffect

(* The handler is through with a message, which it has forwarded or answered *)
LEMMA DoneEffect ==
  ASSUME ListenerTypeOK, ListenerTypeOK', AppSide, NEW c \in Conns, sent' = sent,
         Len(hbuf[c]) = 1, hbuf' = [hbuf EXCEPT ![c] = <<>>], UNCHANGED <<mch, rbuf, got>>,
         toGateway' = IF IsLocal(hbuf[c][1]) THEN toGateway ELSE Append(toGateway, hbuf[c][1])
  PROVE  AppSide' /\ SentGrows /\ Effect
<1>1. hbuf'[c] = <<>> /\ \A d \in Conns \ {c} : hbuf'[d] = hbuf[d]
  BY DEF ListenerTypeOK
<1>2. /\ Hands(c)'
      /\ Handled(c)' = Handled(c) + 1
      /\ Handled(c) < got[c]
      /\ hbuf[c][1] = sent[c][Handled(c) + 1]
  BY <1>1, HandsDone DEF AppSide
<1>3. \A d \in Conns \ {c} : InHands(d)' = InHands(d) /\ got'[d] = got[d]
  BY <1>1 DEF InHands
<1>4. /\ AppSide'
      /\ SentGrows
      /\ \A d \in Conns \ {c} : Handled(d)' = Handled(d)
  BY <1>2, <1>3, OthersStay
<1>5. OneMore(c)
  BY <1>2, <1>4 DEF OneMore
<1>6. Effect
  BY <1>2, <1>5 DEF Effect
<1> QED
  BY <1>4, <1>6

LEMMA HandlerEffect ==
  ASSUME ListenerTypeOK, ListenerTypeOK', AppSide, Notifying, NEW c \in Conns, Handler(c)
  PROVE  AppSide' /\ SentGrows /\ Effect
<1>1. CASE InsertBegin(c) \/ InsertEnd(c) \/ HandlerDone(c) \/ HandleStart(c)
  <2>1. UNCHANGED <<sent, got, rbuf, mch, hbuf, toGateway>>
    BY <1>1 DEF InsertBegin, InsertEnd, HandlerDone, HandleStart, readerVars, socketVars, handlerVars
  <2> QED
    BY <2>1, IdleEffect
<1>2. CASE HandlerTake(c)
  <2>1. /\ hpc[c] = "select" /\ mch[c] # <<>>
        /\ hbuf' = [hbuf EXCEPT ![c] = <<Head(mch[c])>>]
        /\ mch' = [mch EXCEPT ![c] = Tail(@)]
        /\ UNCHANGED <<sent, got, rbuf, toGateway>>
    BY <1>2 DEF HandlerTake, HandlerTakeFrom, readerVars, socketVars
  <2>2. /\ hbuf[c] \in Seq(Request) /\ Len(hbuf[c]) = 0
        /\ mch[c] \in Seq(Request)
    BY <2>1 DEF ListenerTypeOK
  <2>3. hbuf'[c] = <<Head(mch[c])>> /\ mch'[c] = Tail(mch[c])
    BY <2>1 DEF ListenerTypeOK
  <2>4. InHands(c)' = InHands(c)
    <3>1. hbuf[c] = <<>>
      BY <2>2
    <3>2. hbuf[c] \o mch[c] = mch[c]
      BY <2>2, <3>1, ConcatEmptySeq, Zenon
    <3>3. <<Head(mch[c])>> \o Tail(mch[c]) = mch[c]
      BY <2>1, <2>2
    <3> QED
      BY <2>1, <2>3, <3>2, <3>3 DEF InHands
  <2>5. \A d \in Conns : InHands(d)' = InHands(d) /\ got'[d] = got[d]
    BY <2>1, <2>4 DEF InHands, ListenerTypeOK
  <2>6. SentGrows /\ \A d \in Conns : Labelled(d)'
    <3>1. \A d \in Conns : Len(sent[d]) \in Nat
      BY HandsType DEF HandsTypeOK
    <3> QED
      BY <2>1, <3>1 DEF SentGrows, AppSide, Labelled
  <2> QED
    BY <2>1, <2>5, <2>6, NoEffect
<1>3. CASE HandleRegister(c) \/ HandleForward(c)
  <2>1. /\ Len(hbuf[c]) = 1
        /\ hbuf' = [hbuf EXCEPT ![c] = <<>>]
        /\ UNCHANGED <<sent, mch, rbuf, got>>
    BY <1>3 DEF HandleRegister, HandleForward, ListenerTypeOK, readerVars, socketVars
  <2>2. toGateway' = IF IsLocal(hbuf[c][1]) THEN toGateway ELSE Append(toGateway, hbuf[c][1])
    BY <1>3 DEF HandleRegister, HandleForward, IsLocal
  <2> QED
    BY <2>1, <2>2, DoneEffect
<1>4. CASE NotifyNode(c)
  <2>1. UNCHANGED <<sent, mch, rbuf, got, toGateway>> /\ Len(hbuf[c]) = 1
    BY <1>4 DEF NotifyNode, ListenerTypeOK, readerVars
  <2>2. CASE hpc[c] = "node1"
    BY <1>4, <2>1, <2>2, IdleEffect DEF NotifyNode
  <2>3. CASE hpc[c] = "node2"
    <3>1. hbuf' = [hbuf EXCEPT ![c] = <<>>]
      BY <1>4, <2>3 DEF NotifyNode
    <3>2. IsLocal(hbuf[c][1])
      BY <2>3 DEF Notifying, IsLocal
    <3> QED
      BY <2>1, <3>1, <3>2, DoneEffect
  <2> QED
    BY <1>4, <2>2, <2>3 DEF NotifyNode
<1> QED
  BY <1>1, <1>2, <1>3, <1>4 DEF Handler

LEMMA ReaderEffect ==
  ASSUME ListenerTypeOK, ListenerTypeOK', AppSide, NEW c \in Conns, Reader(c)
  PROVE  AppSide' /\ SentGrows /\ Effect
<1>1. CASE ReaderDone(c) \/ LateReaderDone(c) \/ ReaderReading(c) \/ ReaderTimeout(c)
           \/ ReaderEof(c)
  <2>1. UNCHANGED <<sent, got, rbuf, mch, hbuf, toGateway>>
    BY <1>1 DEF ReaderDone, LateReaderDone, ReaderReading, ReaderTimeout, ReaderEof,
       handlerVars, socketVars
  <2> QED
    BY <2>1, IdleEffect
<1>2. CASE ReaderRead(c)
  <2>1. /\ rpc[c] = "read"
        /\ got[c] < Len(sent[c])
        /\ rbuf' = [rbuf EXCEPT ![c] = <<sent[c][got[c] + 1]>>]
        /\ got' = [got EXCEPT ![c] = @ + 1]
        /\ UNCHANGED <<sent, mch, hbuf, toGateway>>
    BY <1>2 DEF ReaderRead, handlerVars, socketVars
  <2>2. /\ rbuf'[c] = <<sent[c][got[c] + 1]>>
        /\ got'[c] = got[c] + 1
        /\ \A d \in Conns \ {c} : rbuf'[d] = rbuf[d] /\ got'[d] = got[d]
    BY <2>1 DEF ListenerTypeOK
  <2>3. InHands(c)' = Append(InHands(c), sent[c][got[c] + 1])
    <3>1. /\ hbuf[c] \o mch[c] \in Seq(Request)
          /\ rbuf[c] = <<>>
      BY <2>1 DEF ListenerTypeOK
    <3>2. sent[c][got[c] + 1] \in Request
      <4>1. got[c] + 1 \in 1..Len(sent[c]) /\ sent[c] \in Seq(Request)
        BY <2>1, HandsType DEF HandsTypeOK
      <4> QED
        BY <4>1, ElementOfSeq, Zenon
    <3>3. (hbuf[c] \o mch[c]) \o <<>> = hbuf[c] \o mch[c]
      BY <3>1, ConcatEmptySeq, Zenon
    <3>4. Append(hbuf[c] \o mch[c], sent[c][got[c] + 1])
             = (hbuf[c] \o mch[c]) \o <<sent[c][got[c] + 1]>>
      BY <3>1, <3>2, AppendIsConcat, Zenon
    <3> QED
      BY <2>1, <2>2, <3>1, <3>3, <3>4 DEF InHands
  <2>4. Hands(c)' /\ Handled(c)' = Handled(c)
    BY <2>1, <2>2, <2>3, HandsRead DEF AppSide
  <2>5. \A d \in Conns \ {c} : InHands(d)' = InHands(d) /\ got'[d] = got[d]
    BY <2>1, <2>2 DEF InHands
  <2>6. /\ AppSide'
        /\ SentGrows
        /\ \A d \in Conns \ {c} : Handled(d)' = Handled(d)
    BY <2>1, <2>4, <2>5, OthersStay
  <2> QED
    BY <2>1, <2>4, <2>6 DEF Effect
<1>3. CASE ReaderPush(c)
  <2>1. /\ mch' = [mch EXCEPT ![c] = @ \o rbuf[c]]
        /\ rbuf' = [rbuf EXCEPT ![c] = <<>>]
        /\ UNCHANGED <<sent, got, hbuf, toGateway>>
    BY <1>3 DEF ReaderPush, socketVars
  <2>2. /\ hbuf[c] \in Seq(Request) /\ mch[c] \in Seq(Request) /\ rbuf[c] \in Seq(Request)
        /\ hbuf[c] \o mch[c] \in Seq(Request)
    BY DEF ListenerTypeOK
  <2>3. mch'[c] = mch[c] \o rbuf[c] /\ rbuf'[c] = <<>>
    BY <2>1 DEF ListenerTypeOK
  <2>4. InHands(c)' = InHands(c)
    <3>1. hbuf[c] \o (mch[c] \o rbuf[c]) = InHands(c)
      BY <2>2, Associative DEF InHands
    <3>2. InHands(c) \in Seq(Request)
      BY HandsType DEF HandsTypeOK
    <3>3. InHands(c) \o <<>> = InHands(c)
      BY <3>2, ConcatEmptySeq, Zenon
    <3>4. InHands(c)' = (hbuf[c] \o (mch[c] \o rbuf[c])) \o <<>>
      BY <2>1, <2>3 DEF InHands
    <3> QED
      BY <3>1, <3>3, <3>4
  <2>5. \A d \in Conns : InHands(d)' = InHands(d) /\ got'[d] = got[d]
    BY <2>1, <2>4 DEF InHands, ListenerTypeOK
  <2>6. SentGrows /\ \A d \in Conns : Labelled(d)'
    <3>1. \A d \in Conns : Len(sent[d]) \in Nat
      BY HandsType DEF HandsTypeOK
    <3> QED
      BY <2>1, <3>1 DEF SentGrows, AppSide, Labelled
  <2> QED
    BY <2>1, <2>5, <2>6, NoEffect
<1> QED
  BY <1>1, <1>2, <1>3 DEF Reader

LEMMA NotifyingStep ==
  ASSUME ListenerTypeOK, Notifying, ListenerNext
  PROVE  Notifying'
<1>1. CASE ListenerRun
  <2>1. UNCHANGED hbuf /\ \A c \in Conns : hpc'[c] \in {"node1", "node2"} => hpc'[c] = hpc[c]
    BY <1>1 DEF ListenerRun, ListenerShutDown, ListenerDone, ListenerAccepting, AcceptTimeout,
       Accept, handlerVars, ListenerTypeOK
  <2> QED
    BY <2>1 DEF Notifying
<1>2. ASSUME NEW c \in Conns, App(c) PROVE Notifying'
  BY <1>2 DEF App, handlerVars, Notifying
<1>3. ASSUME NEW c \in Conns, Reader(c) PROVE Notifying'
  <2>1. UNCHANGED <<hpc, hbuf>>
    BY <1>3 DEF Reader, ReaderDone, LateReaderDone, ReaderReading, ReaderRead, ReaderTimeout,
       ReaderEof, ReaderPush, handlerVars
  <2> QED
    BY <2>1 DEF Notifying
<1>4. ASSUME NEW c \in Conns, Handler(c) PROVE Notifying'
  <2>1. /\ \A d \in Conns \ {c} : hpc'[d] = hpc[d] /\ hbuf'[d] = hbuf[d]
        /\ hpc'[c] \in {"node1", "node2"} => hbuf'[c][1].kind = "StartSessionRequest"
    BY <1>4 DEF Handler, InsertBegin, InsertEnd, HandlerDone, HandlerTake, HandlerTakeFrom,
       HandleRegister, HandleStart, NotifyNode, HandleForward, ListenerTypeOK, Notifying
  <2> QED
    BY <2>1 DEF Notifying
<1> QED
  BY <1>1, <1>2, <1>3, <1>4 DEF ListenerNext

(* Every step of the app side keeps the logs and the hands in order, and   *)
(* hands at most one message on to the pipeline, the one that is next.     *)
LEMMA ListenerEffect ==
  ASSUME ListenerTypeOK, ListenerTypeOK', AppSide, Notifying, ListenerNext
  PROVE  AppSide' /\ SentGrows /\ Effect
<1>1. CASE ListenerRun
  <2>1. UNCHANGED <<sent, got, rbuf, mch, hbuf, toGateway>>
    BY <1>1 DEF ListenerRun, ListenerShutDown, ListenerDone, ListenerAccepting, AcceptTimeout,
       Accept, handlerVars, readerVars, socketVars
  <2> QED
    BY <2>1, IdleEffect
<1> QED
  BY <1>1, AppSendEffect, HandlerEffect, ReaderEffect DEF ListenerNext

-----------------------------------------------------------------------------
(* The pipeline as one sequence *)

(* The same message, whatever its addresses *)
Alike(m, k) == m.app = k.app /\ m.n = k.n /\ m.kind = k.kind

(* What v has of the apps u has too, in the same order *)
Within(v, u) ==
  \A i, j \in 1..Len(v) :
    i <= j /\ v[i].app # Self /\ v[j].app # Self =>
      \E k, l \in 1..Len(u) :
        k <= l /\ (i < j => k < l) /\ Alike(v[i], u[k]) /\ Alike(v[j], u[l])

(* ... and v has all that u has of the apps *)
Covers(v, u) ==
  \A i \in 1..Len(u) :
    u[i].app # Self => \E k \in 1..Len(v) : Alike(u[i], v[k])

(* A message changes its addresses or nothing *)
LEMMA AlikeWithin ==
  ASSUME NEW u \in Seq(Request), NEW v \in Seq(Request), Len(v) = Len(u),
         \A i \in 1..Len(u) : Alike(v[i], u[i])
  PROVE  Within(v, u) /\ Covers(v, u)
<1>1. Within(v, u)
  BY DEF Within
<1>2. Covers(v, u)
  BY DEF Covers, Alike
<1> QED
  BY <1>1, <1>2

(* The proxy writes a message of its own *)
LEMMA OwnWithin ==
  ASSUME NEW s \in Seq(Request), NEW t \in Seq(Request), NEW m \in Request, m.app = Self
  PROVE  Within(Append(s, m) \o t, s \o t) /\ Covers(Append(s, m) \o t, s \o t)
<1> DEFINE u == s \o t
           v == Append(s, m) \o t
           Place(i) == IF i <= Len(s) THEN i ELSE i - 1
<1>1. /\ Len(s) \in Nat /\ Len(t) \in Nat
      /\ Len(u) = Len(s) + Len(t) /\ Len(v) = Len(s) + Len(t) + 1
  OBVIOUS
<1>2. ASSUME NEW i \in 1..Len(v), v[i].app # Self
      PROVE  i # Len(s) + 1 /\ Place(i) \in 1..Len(u) /\ v[i] = u[Place(i)]
  <2>1. CASE i <= Len(s)
    BY <1>1, <2>1
  <2>2. CASE i = Len(s) + 1
    <3>1. v[i] = m
      BY <1>1, <2>2
    <3> QED
      BY <1>2, <3>1
  <2>3. CASE i > Len(s) + 1
    <3>1. v[i] = t[i - (Len(s) + 1)]
      BY <1>1, <2>3
    <3>2. u[i - 1] = t[(i - 1) - Len(s)]
      BY <1>1, <2>3
    <3> QED
      BY <1>1, <2>3, <3>1, <3>2
  <2> QED
    BY <1>1, <2>1, <2>2, <2>3
<1>3. ASSUME NEW i \in 1..Len(u)
      PROVE  \E k \in 1..Len(v) : v[k] = u[i]
  <2>1. CASE i <= Len(s)
    BY <1>1, <2>1
  <2>2. CASE i > Len(s)
    <3>1. i + 1 \in 1..Len(v) /\ v[i + 1] = u[i]
      BY <1>1, <2>2
    <3> QED
      BY <3>1
  <2> QED
    BY <1>1, <2>1, <2>2
<1> HIDE DEF u, v
<1>4. ASSUME NEW i \in 1..Len(v), NEW j \in 1..Len(v), i <= j, v[i].app # Self, v[j].app # Self
      PROVE  \E k, l \in 1..Len(u) :
               k <= l /\ (i < j => k < l) /\ Alike(v[i], u[k]) /\ Alike(v[j], u[l])
  <2>1. /\ i # Len(s) + 1 /\ Place(i) \in 1..Len(u) /\ v[i] = u[Place(i)]
        /\ j # Len(s) + 1 /\ Place(j) \in 1..Len(u) /\ v[j] = u[Place(j)]
    BY <1>2, <1>4
  <2>2. Place(i) <= Place(j) /\ (i < j => Place(i) < Place(j))
    BY <1>1, <1>4, <2>1
  <2>3. Alike(v[i], u[Place(i)]) /\ Alike(v[j], u[Place(j)])
    BY <2>1 DEF Alike
  <2> QED
    BY <2>1, <2>2, <2>3
<1>5. Within(v, u)
  BY <1>4 DEF Within
<1>6. Covers(v, u)
  BY <1>3 DEF Covers, Alike
<1> QED
  BY <1>5, <1>6 DEF u, v

(* A message is lost between the two parts *)
LEMMA LossWithin ==
  ASSUME NEW s \in Seq(Request), NEW t \in Seq(Request), t # <<>>
  PROVE  Within(s \o Tail(t), s \o t)
<1> DEFINE u == s \o t
           v == s \o Tail(t)
           Place(i) == IF i <= Len(s) THEN i ELSE i + 1
<1>1. /\ Len(s) \in Nat /\ Len(t) \in Nat /\ Len(t) > 0
      /\ Len(Tail(t)) = Len(t) - 1
      /\ Len(u) = Len(s) + Len(t) /\ Len(v) = Len(s) + Len(t) - 1
  OBVIOUS
<1>2. ASSUME NEW i \in 1..Len(v)
      PROVE  Place(i) \in 1..Len(u) /\ v[i] = u[Place(i)]
  <2>1. CASE i <= Len(s)
    BY <1>1, <2>1
  <2>2. CASE i > Len(s)
    <3>1. v[i] = t[i - Len(s) + 1]
      BY <1>1, <2>2
    <3>2. u[i + 1] = t[i + 1 - Len(s)]
      BY <1>1, <2>2
    <3> QED
      BY <1>1, <2>2, <3>1, <3>2
  <2> QED
    BY <1>1, <2>1, <2>2
<1> HIDE DEF u, v
<1>3. ASSUME NEW i \in 1..Len(v), NEW j \in 1..Len(v), i <= j
      PROVE  \E k, l \in 1..Len(u) :
               k <= l /\ (i < j => k < l) /\ Alike(v[i], u[k]) /\ Alike(v[j], u[l])
  <2>1. /\ Place(i) \in 1..Len(u) /\ v[i] = u[Place(i)]
        /\ Place(j) \in 1..Len(u) /\ v[j] = u[Place(j)]
    BY <1>2
  <2>2. Place(i) <= Place(j) /\ (i < j => Place(i) < Place(j))
    BY <1>1, <1>3
  <2>3. Alike(v[i], u[Place(i)]) /\ Alike(v[j], u[Place(j)])
    BY <2>1 DEF Alike
  <2> QED
    BY <2>1, <2>2, <2>3
<1> QED
  BY <1>3 DEF Within, u, v

-----------------------------------------------------------------------------
(* The pipeline's part of the invariant: order and origin always, nothing  *)
(* missing while the connection is up; the proxy's own messages skip the   *)
(* queues; the handshake is over before a message can be lost.             *)
Travelling ==
  /\ InOrder(Upstream)
  /\ Genuine(Upstream)
  /\ link \in {"none", "up"} => Complete(Upstream)
  /\ \A i \in 1..Len(Pending) : Pending[i].app \in Conns
  /\ link = "none" <=> cpc \in {"none", "discover", "dial"}

PipelineTypeOK ==
  /\ gwIn \in Seq(Request)
  /\ cbuf \in Seq(Request)
  /\ toClient \in Seq(Request)
  /\ pbuf \in Seq(Request)
  /\ toGateway \in Seq(Request)
  /\ Pending \in Seq(Request)
  /\ Upstream \in Seq(Request)

LEMMA PipelineType == TypeOK => PipelineTypeOK
<1> SUFFICES ASSUME TypeOK PROVE PipelineTypeOK
  OBVIOUS
<1>1. /\ gwIn \in Seq(Request) /\ cbuf \in Seq(Request) /\ toClient \in Seq(Request)
      /\ pbuf \in Seq(Request) /\ toGateway \in Seq(Request)
  BY DEF TypeOK, ClientTypeOK, ListenerTypeOK
<1>2. cbuf \o toClient \in Seq(Request)
  BY <1>1, ConcatProperties, Zenon
<1>3. (cbuf \o toClient) \o pbuf \in Seq(Request)
  BY <1>1, <1>2, ConcatProperties, Zenon
<1>4. Pending \in Seq(Request)
  BY <1>1, <1>3, ConcatProperties, Zenon DEF Pending
<1>5. Upstream \in Seq(Request)
  BY <1>1, <1>4, ConcatProperties, Zenon DEF Upstream
<1> QED
  BY <1>1, <1>4, <1>5 DEF PipelineTypeOK

LEMMA PipelineTypePrimed == (TypeOK => PipelineTypeOK)'
BY PipelineType, PTL

(* What was handled stays handled, and what was written stays written *)
LEMMA Settled ==
  ASSUME ListenerTypeOK, AppSide, SentGrows, NEW c \in Conns, NEW n \in 1..Handled(c)
  PROVE  n \in 1..Len(sent[c]) /\ sent'[c][n] = sent[c][n]
<1>1. Handled(c) <= got[c]
  BY HandsType DEF HandsTypeOK
<1>2. n \in 1..Len(sent[c])
  BY <1>1, HandsType DEF HandsTypeOK, AppSide, Hands
<1> QED
  BY <1>2 DEF SentGrows

HandledGrows == \A c \in Conns : Handled(c)' \in Int /\ Handled(c) <= Handled(c)'

LEMMA WithinKeeps ==
  ASSUME ListenerTypeOK, PipelineTypeOK, PipelineTypeOK', AppSide, SentGrows, HandledGrows,
         Within(Upstream', Upstream), InOrder(Upstream), Genuine(Upstream)
  PROVE  InOrder(Upstream)' /\ Genuine(Upstream)'
<1> DEFINE u == Upstream
<1>0. u \in Seq(Request) /\ u' \in Seq(Request)
  BY DEF PipelineTypeOK
<1>1. ASSUME NEW i \in 1..Len(u'), NEW j \in 1..Len(u'), i < j,
             u'[i].app = u'[j].app, u'[i].app # Self
      PROVE  u'[i].n < u'[j].n
  <2>1. PICK k \in 1..Len(u), l \in 1..Len(u) :
          k < l /\ Alike(u'[i], u[k]) /\ Alike(u'[j], u[l])
    <3>1. i <= j
      BY <1>0, <1>1
    <3> QED
      BY <1>1, <3>1 DEF Within
  <2>2. u[k].app = u[l].app /\ u[k].app # Self
    BY <1>1, <2>1 DEF Alike
  <2>3. u[k].n < u[l].n
    BY <2>1, <2>2 DEF InOrder
  <2> QED
    BY <2>1, <2>3 DEF Alike
<1>2. InOrder(Upstream)'
  BY <1>1 DEF InOrder
<1>3. ASSUME NEW i \in 1..Len(u'), NEW c \in Conns, u'[i].app = c
      PROVE  /\ u'[i].n \in 1..Handled(c)'
             /\ u'[i].kind = sent'[c][u'[i].n].kind
             /\ ~IsLocal(u'[i])
  <2>0. c # Self
    BY ActorsAssumption
  <2>1. PICK k \in 1..Len(u) : Alike(u'[i], u[k])
    <3>1. i <= i
      BY <1>0
    <3> QED
      BY <1>3, <2>0, <3>1 DEF Within
  <2>2. u[k].app = c
    BY <1>3, <2>1 DEF Alike
  <2>3. u[k].n \in 1..Handled(c) /\ u[k].kind = sent[c][u[k].n].kind /\ ~IsLocal(u[k])
    BY <2>0, <2>2 DEF Genuine
  <2>4. sent'[c][u[k].n] = sent[c][u[k].n]
    BY <2>3, Settled
  <2>5. u[k].n \in 1..Handled(c)'
    <3>1. Handled(c) \in Int /\ Handled(c)' \in Int /\ Handled(c) <= Handled(c)'
      BY HandsType DEF HandsTypeOK, HandledGrows
    <3> QED
      BY <2>3, <3>1
  <2>6. u'[i].n = u[k].n /\ u'[i].kind = u[k].kind
    BY <2>1 DEF Alike
  <2> QED
    BY <2>3, <2>4, <2>5, <2>6 DEF IsLocal
<1>4. \A i \in 1..Len(u') : u'[i].app # Self => u'[i].app \in Conns
  <2> SUFFICES ASSUME NEW i \in 1..Len(u') PROVE u'[i].app \in Actors
    BY DEF Actors
  <2>1. u'[i] \in Request
    BY <1>0, ElementOfSeq, Zenon
  <2> QED
    BY <2>1 DEF Request
<1>5. Genuine(Upstream)'
  BY <1>3, <1>4 DEF Genuine, Handled
<1> QED
  BY <1>2, <1>5

LEMMA CoversKeeps ==
  ASSUME ListenerTypeOK, PipelineTypeOK, AppSide, SentGrows,
         \A c \in Conns : Handled(c)' = Handled(c),
         Covers(Upstream', Upstream), Complete(Upstream)
  PROVE  Complete(Upstream)'
<1> SUFFICES ASSUME NEW c \in Conns, NEW n \in 1..Handled(c), ~IsLocal(sent'[c][n])
             PROVE  \E k \in 1..Len(Upstream') : Upstream'[k].app = c /\ Upstream'[k].n = n
  BY DEF Complete
<1>1. ~IsLocal(sent[c][n])
  BY Settled
<1>2. PICK i \in 1..Len(Upstream) : Upstream[i].app = c /\ Upstream[i].n = n
  BY <1>1 DEF Complete
<1>3. c # Self
  BY ActorsAssumption
<1> QED
  BY <1>2, <1>3 DEF Covers, Alike

(* The message that the handler of app c is through with is app c's next *)
LEMMA NextHandled ==
  ASSUME ListenerTypeOK, ListenerTypeOK', AppSide, SentGrows, NEW c \in Conns, OneMore(c)
  PROVE  /\ HandledGrows
         /\ Handled(c) \in Nat /\ Handled(c)' = Handled(c) + 1
         /\ Handled(c) + 1 \in 1..Len(sent[c])
         /\ sent[c][Handled(c) + 1] \in Request
         /\ sent[c][Handled(c) + 1].app = c
         /\ sent[c][Handled(c) + 1].n = Handled(c) + 1
         /\ sent'[c][Handled(c) + 1] = sent[c][Handled(c) + 1]
<1>1. HandledGrows
  <2> SUFFICES ASSUME NEW d \in Conns PROVE Handled(d)' \in Int /\ Handled(d) <= Handled(d)'
    BY DEF HandledGrows
  <2>1. Handled(d) \in Int /\ Handled(d)' \in Int
    BY HandsType, HandsTypePrimed DEF HandsTypeOK
  <2>2. Handled(d)' = Handled(d) \/ Handled(d)' = Handled(d) + 1
    BY DEF OneMore
  <2> QED
    BY <2>1, <2>2
<1>2. Handled(c)' = Handled(c) + 1 /\ Handled(c) < got[c]
  BY DEF OneMore
<1>3. Handled(c) \in Int /\ got[c] \in Nat /\ Len(sent[c]) \in Nat /\ sent[c] \in Seq(Request)
  BY HandsType DEF HandsTypeOK
<1>4. Handled(c) >= 0 /\ got[c] <= Len(sent[c])
  BY DEF AppSide, Hands
<1>5. Handled(c) \in Nat /\ Handled(c) + 1 \in 1..Len(sent[c])
  BY <1>2, <1>3, <1>4
<1>6. sent[c][Handled(c) + 1] \in Request
  BY <1>3, <1>5, ElementOfSeq, Zenon
<1>7. /\ sent[c][Handled(c) + 1].app = c
      /\ sent[c][Handled(c) + 1].n = Handled(c) + 1
  BY <1>5 DEF AppSide, Labelled
<1>8. sent'[c][Handled(c) + 1] = sent[c][Handled(c) + 1]
  BY <1>5 DEF SentGrows
<1> QED
  BY <1>1, <1>2, <1>5, <1>6, <1>7, <1>8

(* A message that was answered locally leaves the pipeline alone *)
LEMMA SkipKeeps ==
  ASSUME ListenerTypeOK, ListenerTypeOK', PipelineTypeOK, PipelineTypeOK', AppSide, SentGrows,
         NEW c \in Conns, OneMore(c), IsLocal(sent[c][Handled(c) + 1]), Upstream' = Upstream,
         InOrder(Upstream), Genuine(Upstream)
  PROVE  /\ InOrder(Upstream)' /\ Genuine(Upstream)'
         /\ Complete(Upstream) => Complete(Upstream)'
<1>1. Within(Upstream', Upstream)
  BY AlikeWithin DEF PipelineTypeOK, Alike
<1>2. InOrder(Upstream)' /\ Genuine(Upstream)'
  BY <1>1, NextHandled, WithinKeeps
<1>3. ASSUME Complete(Upstream), NEW d \in Conns, NEW n \in 1..Handled(d)',
             ~IsLocal(sent'[d][n])
      PROVE  \E k \in 1..Len(Upstream') : Upstream'[k].app = d /\ Upstream'[k].n = n
  <2>1. Handled(d) \in Int
    BY HandsType DEF HandsTypeOK
  <2>2. n \in 1..Handled(d) \/ (d = c /\ n = Handled(c) + 1)
    BY <2>1 DEF OneMore
  <2>3. n \in 1..Handled(d)
    BY <1>3, <2>2, NextHandled
  <2>4. ~IsLocal(sent[d][n])
    BY <1>3, <2>3, Settled
  <2> QED
    BY <1>3, <2>3, <2>4 DEF Complete
<1>4. Complete(Upstream) => Complete(Upstream)'
  BY <1>3 DEF Complete, Handled, IsLocal
<1> QED
  BY <1>2, <1>4

(* ... and one that was forwarded is at its end. *)
LEMMA ForwardKeeps ==
  ASSUME ListenerTypeOK, ListenerTypeOK', PipelineTypeOK, PipelineTypeOK', AppSide, SentGrows,
         NEW c \in Conns, OneMore(c), ~IsLocal(sent[c][Handled(c) + 1]),
         Upstream' = Append(Upstream, sent[c][Handled(c) + 1]),
         InOrder(Upstream), Genuine(Upstream)
  PROVE  /\ InOrder(Upstream)' /\ Genuine(Upstream)'
         /\ Complete(Upstream) => Complete(Upstream)'
<1> DEFINE u == Upstream
           h == Handled(c)
           m == sent[c][h + 1]
<1>0. /\ HandledGrows
      /\ h \in Nat /\ h' = h + 1 /\ h + 1 \in 1..Len(sent[c])
      /\ m \in Request /\ m.app = c /\ m.n = h + 1
      /\ sent'[c][h + 1] = m
  BY NextHandled
<1>a. u \in Seq(Request) /\ u' \in Seq(Request) /\ u' = Append(u, m) /\ ~IsLocal(m)
  BY DEF PipelineTypeOK
<1>b. c # Self
  BY ActorsAssumption
<1>1. /\ Len(u) \in Nat /\ Len(u') = Len(u) + 1
      /\ \A i \in 1..Len(u) : u'[i] = u[i]
      /\ u'[Len(u) + 1] = m
  <2> HIDE DEF u, h, m
  <2> QED
    BY <1>0, <1>a
<1>2. ASSUME NEW i \in 1..Len(u) PROVE u[i].app = c => u[i].n \in 1..h
  BY <1>b DEF Genuine
<1>3. ASSUME NEW i \in 1..Len(u'), NEW j \in 1..Len(u'), i < j,
             u'[i].app = u'[j].app, u'[i].app # Self
      PROVE  u'[i].n < u'[j].n
  <2>1. i \in 1..Len(u) /\ (j \in 1..Len(u) \/ j = Len(u) + 1)
    <3> HIDE DEF u
    <3> QED
      BY <1>1, <1>3
  <2>2. CASE j \in 1..Len(u)
    BY <1>1, <1>3, <2>1, <2>2 DEF InOrder
  <2>3. CASE j = Len(u) + 1
    <3>1. u'[i] = u[i] /\ u'[j] = m
      BY <1>1, <2>1, <2>3
    <3>2. u[i].n \in 1..h
      BY <1>0, <1>2, <1>3, <2>1, <3>1
    <3> HIDE DEF h, m, u
    <3> QED
      BY <1>0, <3>1, <3>2
  <2> QED
    BY <2>1, <2>2, <2>3
<1>4. InOrder(Upstream)'
  BY <1>3 DEF InOrder
<1>5. ASSUME NEW i \in 1..Len(u'), NEW d \in Conns, u'[i].app = d
      PROVE  /\ u'[i].n \in 1..Handled(d)'
             /\ u'[i].kind = sent'[d][u'[i].n].kind
             /\ ~IsLocal(u'[i])
  <2>0. d # Self
    BY ActorsAssumption
  <2>1. i \in 1..Len(u) \/ i = Len(u) + 1
    <3> HIDE DEF u
    <3> QED
      BY <1>1
  <2>2. CASE i = Len(u) + 1
    <3>1. u'[i] = m /\ d = c
      BY <1>0, <1>1, <1>5, <2>2
    <3>2. m.n \in 1..h'
      <4> HIDE DEF h, m
      <4> QED
        BY <1>0
    <3> QED
      BY <1>0, <1>a, <3>1, <3>2
  <2>3. CASE i \in 1..Len(u)
    <3>1. u'[i] = u[i]
      BY <1>1, <2>3
    <3>3. u[i].n \in 1..Handled(d) /\ u[i].kind = sent[d][u[i].n].kind /\ ~IsLocal(u[i])
      BY <1>5, <2>0, <2>3, <3>1 DEF Genuine
    <3>4. sent'[d][u[i].n] = sent[d][u[i].n]
      BY <3>3, Settled
    <3>5. u[i].n \in 1..Handled(d)'
      <4>1. Handled(d) \in Int /\ Handled(d)' \in Int /\ Handled(d) <= Handled(d)'
        BY <1>0, HandsType DEF HandsTypeOK, HandledGrows
      <4> QED
        BY <3>3, <4>1
    <3> QED
      BY <3>1, <3>3, <3>4, <3>5
  <2> QED
    BY <2>1, <2>2, <2>3
<1>6. \A i \in 1..Len(u') : u'[i].app # Self => u'[i].app \in Conns
  <2> SUFFICES ASSUME NEW i \in 1..Len(u') PROVE u'[i].app \in Actors
    BY DEF Actors
  <2>1. u'[i] \in Request
    BY <1>a, ElementOfSeq, Zenon
  <2> QED
    BY <2>1 DEF Request
<1>7. Genuine(Upstream)'
  BY <1>5, <1>6 DEF Genuine, Handled
<1>8. ASSUME Complete(u), NEW d \in Conns, NEW n \in 1..Handled(d)', ~IsLocal(sent'[d][n])
      PROVE  \E k \in 1..Len(u') : u'[k].app = d /\ u'[k].n = n
  <2>1. Handled(d) \in Int
    BY HandsType DEF HandsTypeOK
  <2>2. n \in 1..Handled(d) \/ (d = c /\ n = h + 1)
    BY <2>1 DEF OneMore
  <2>3. CASE n \in 1..Handled(d)
    <3>1. ~IsLocal(sent[d][n])
      BY <1>8, <2>3, Settled
    <3>2. PICK k \in 1..Len(u) : u[k].app = d /\ u[k].n = n
      BY <1>8, <2>3, <3>1 DEF Complete
    <3>3. k \in 1..Len(u') /\ u'[k] = u[k]
      <4> HIDE DEF u
      <4> QED
        BY <1>1
    <3> QED
      BY <3>2, <3>3
  <2>4. CASE d = c /\ n = h + 1
    <3>1. Len(u) + 1 \in 1..Len(u')
      <4> HIDE DEF u
      <4> QED
        BY <1>1
    <3> QED
      BY <1>0, <1>1, <2>4, <3>1
  <2> QED
    BY <2>2, <2>3, <2>4
<1>9. Complete(Upstream) => Complete(Upstream)'
  BY <1>8 DEF Complete, Handled, IsLocal
<1> QED
  BY <1>4, <1>7, <1>9

-----------------------------------------------------------------------------
(* The steps of the pipeline *)

LEMMA AppendMoves ==
  ASSUME NEW s \in Seq(Request), NEW t \in Seq(Request), NEW m \in Request
  PROVE  s \o Append(t, m) = Append(s \o t, m)
OBVIOUS

(* The pipeline, bracketed from its end *)
LEMMA PendingSplit ==
  TypeOK => /\ Pending = cbuf \o (toClient \o (pbuf \o toGateway))
            /\ pbuf \o toGateway \in Seq(Request)
            /\ toClient \o (pbuf \o toGateway) \in Seq(Request)
<1> SUFFICES ASSUME TypeOK
             PROVE  /\ Pending = cbuf \o (toClient \o (pbuf \o toGateway))
                    /\ pbuf \o toGateway \in Seq(Request)
                    /\ toClient \o (pbuf \o toGateway) \in Seq(Request)
  OBVIOUS
<1>1. /\ cbuf \in Seq(Request) /\ toClient \in Seq(Request)
      /\ pbuf \in Seq(Request) /\ toGateway \in Seq(Request)
  BY PipelineType DEF PipelineTypeOK
<1>2. pbuf \o toGateway \in Seq(Request)
  BY <1>1, ConcatProperties, Zenon
<1>3. cbuf \o toClient \in Seq(Request) /\ toClient \o (pbuf \o toGateway) \in Seq(Request)
  BY <1>1, <1>2, ConcatProperties, Zenon
<1>4. Pending = (cbuf \o toClient) \o (pbuf \o toGateway)
  <2> DEFINE front == cbuf \o toClient
  <2>1. Pending = (front \o pbuf) \o toGateway
    BY DEF Pending
  <2> HIDE DEF front
  <2>2. (front \o pbuf) \o toGateway = front \o (pbuf \o toGateway)
    <3>1. front \in Seq(Request)
      BY <1>3 DEF front
    <3> QED
      BY <1>1, <3>1, Associative
  <2> QED
    BY <2>1, <2>2 DEF front
<1>5. (cbuf \o toClient) \o (pbuf \o toGateway) = cbuf \o (toClient \o (pbuf \o toGateway))
  BY <1>1, <1>2, Associative
<1> QED
  BY <1>2, <1>3, <1>4, <1>5

LEMMA PendingSplitPrimed ==
  (TypeOK => /\ Pending = cbuf \o (toClient \o (pbuf \o toGateway))
             /\ pbuf \o toGateway \in Seq(Request)
             /\ toClient \o (pbuf \o toGateway) \in Seq(Request))'
BY PendingSplit, PTL

(* Everything that the proof of the delivery keeps *)
DeliveryInv == AppSide /\ Notifying /\ Travelling

(* A step that leaves the app side alone *)
LEMMA AppSideStays ==
  ASSUME ListenerTypeOK, AppSide, Notifying,
         UNCHANGED <<sent, got, rbuf, mch, hbuf, hpc>>
  PROVE  /\ AppSide' /\ Notifying' /\ SentGrows /\ HandledGrows
         /\ \A c \in Conns : Handled(c)' = Handled(c)
<1>1. SentGrows
  BY HandsType DEF HandsTypeOK, SentGrows
<1>2. \A c \in Conns : Handled(c)' = Handled(c)
  BY DEF Handled
<1>3. HandledGrows
  BY <1>2, HandsType DEF HandsTypeOK, HandledGrows
<1>4. AppSide'
  BY DEF AppSide, Labelled, Hands, Handled, InHands
<1>5. Notifying'
  BY DEF Notifying
<1> QED
  BY <1>1, <1>2, <1>3, <1>4, <1>5

(* A step of the pipeline only: what it does to the sequence as a whole *)
LEMMA PipelineStep ==
  ASSUME TypeOK, TypeOK', DeliveryInv, UNCHANGED <<sent, got, rbuf, mch, hbuf, hpc>>,
         Within(Upstream', Upstream),
         link' \in {"none", "up"} => link \in {"none", "up"} /\ Covers(Upstream', Upstream),
         \A i \in 1..Len(Pending') : Pending'[i].app \in Conns,
         link' = "none" <=> cpc' \in {"none", "discover", "dial"}
  PROVE  DeliveryInv'
<1>1. ListenerTypeOK /\ PipelineTypeOK /\ PipelineTypeOK'
  BY PipelineType, PipelineTypePrimed DEF TypeOK
<1>2. /\ AppSide' /\ Notifying' /\ SentGrows /\ HandledGrows
      /\ \A c \in Conns : Handled(c)' = Handled(c)
  BY <1>1, AppSideStays DEF DeliveryInv
<1>3. InOrder(Upstream)' /\ Genuine(Upstream)'
  BY <1>1, <1>2, WithinKeeps DEF DeliveryInv, Travelling
<1>4. link' \in {"none", "up"} => Complete(Upstream)'
  BY <1>1, <1>2, CoversKeeps DEF DeliveryInv, Travelling
<1>5. Travelling'
  BY <1>3, <1>4 DEF Travelling
<1> QED
  BY <1>2, <1>5 DEF DeliveryInv

LEMMA SameWithin ==
  ASSUME NEW u \in Seq(Request) PROVE Within(u, u) /\ Covers(u, u)
BY AlikeWithin DEF Alike

(* ... in particular one that moves a message along, or none *)
LEMMA PendingStays ==
  ASSUME TypeOK, TypeOK', DeliveryInv, UNCHANGED <<sent, got, rbuf, mch, hbuf, hpc, gwIn>>,
         Pending' = Pending,
         link' \in {"none", "up"} => link \in {"none", "up"},
         link' = "none" <=> cpc' \in {"none", "discover", "dial"}
  PROVE  DeliveryInv'
<1>1. Upstream' = Upstream /\ Upstream \in Seq(Request)
  BY PipelineType DEF Upstream, PipelineTypeOK
<1>2. Within(Upstream', Upstream) /\ Covers(Upstream', Upstream)
  BY <1>1, SameWithin
<1> QED
  BY <1>2, PipelineStep DEF DeliveryInv, Travelling

(* The proxy writes a message of its own to the gateway *)
LEMMA OwnWrite ==
  ASSUME TypeOK, TypeOK', DeliveryInv, UNCHANGED <<sent, got, rbuf, mch, hbuf, hpc, link>>,
         Pending' = Pending, NEW m \in Request, m.app = Self, WriteToGateway(m),
         link' = "none" <=> cpc' \in {"none", "discover", "dial"}
  PROVE  DeliveryInv'
<1>1. CASE link # "up"
  BY <1>1, PendingStays DEF WriteToGateway
<1>2. CASE link = "up"
  <2>1. gwIn \in Seq(Request) /\ Pending \in Seq(Request)
    BY PipelineType DEF PipelineTypeOK
  <2>2. Upstream' = Append(gwIn, m) \o Pending
    BY <1>2 DEF WriteToGateway, Upstream
  <2>3. Within(Upstream', Upstream) /\ Covers(Upstream', Upstream)
    BY <2>1, <2>2, OwnWithin DEF Upstream
  <2> QED
    BY <2>3, PipelineStep DEF DeliveryInv, Travelling
<1> QED
  BY <1>1, <1>2

LEMMA NewSessionDelivers ==
  ASSUME TypeOK, TypeOK', DeliveryInv, NewSession, UNCHANGED <<listenerVars, proxyVars>>
  PROVE  DeliveryInv'
<1>1. UNCHANGED <<sent, got, rbuf, mch, hbuf, hpc, toGateway, pbuf>>
  BY DEF listenerVars, proxyVars
<1>2. Pending' = Pending
  BY <1>1 DEF Pending, NewSession, Discover, Dial, Register, RegisterConfirm, Start, StartConfirm
<1>3. link = "none" <=> cpc \in {"none", "discover", "dial"}
  BY DEF DeliveryInv, Travelling
<1>4. CASE Discover
  BY <1>1, <1>2, <1>3, <1>4, PendingStays DEF Discover, linkVars
<1>5. CASE Dial
  BY <1>1, <1>2, <1>3, <1>5, PendingStays DEF Dial
<1>6. CASE RegisterConfirm \/ StartConfirm
  BY <1>1, <1>2, <1>3, <1>6, PendingStays DEF RegisterConfirm, StartConfirm
<1>7. CASE Register
  <2>1. OwnRequest("RegisterAppRequest", 1) \in Request
    BY OwnRequestType DEF Kinds
  <2> QED
    BY <1>1, <1>2, <1>3, <1>7, <2>1, OwnWrite DEF Register, OwnRequest
<1>8. CASE Start
  <2>1. OwnRequest("StartSessionRequest", 2) \in Request
    BY OwnRequestType DEF Kinds
  <2> QED
    BY <1>1, <1>2, <1>3, <1>8, <2>1, OwnWrite DEF Start, OwnRequest
<1> QED
  BY <1>4, <1>5, <1>6, <1>7, <1>8 DEF NewSession

(* A message changes its addresses where it is *)
LEMMA HeadMasqueraded ==
  ASSUME NEW s \in Seq(Request), NEW r \in Seq(Request), NEW m \in Request,
         NEW k \in Request, Alike(k, m)
  PROVE  /\ Len(s \o (<<k>> \o r)) = Len(s \o (<<m>> \o r))
         /\ \A i \in 1..Len(s \o (<<m>> \o r)) :
              Alike((s \o (<<k>> \o r))[i], (s \o (<<m>> \o r))[i])
<1> DEFINE t == <<m>> \o r
           v == <<k>> \o r
<1>1. t \in Seq(Request) /\ v \in Seq(Request) /\ Len(t) = Len(r) + 1 /\ Len(v) = Len(r) + 1
  OBVIOUS
<1>2. ASSUME NEW i \in 1..Len(t) PROVE Alike(v[i], t[i])
  <2>1. CASE i = 1
    <3>1. v[1] = k /\ t[1] = m
      OBVIOUS
    <3> QED
      BY <2>1, <3>1
  <2>2. CASE i > 1
    <3>1. v[i] = r[i - 1] /\ t[i] = r[i - 1]
      BY <1>1, <2>2
    <3> QED
      BY <3>1 DEF Alike
  <2> QED
    BY <1>1, <2>1, <2>2
<1> HIDE DEF t, v
<1>3. Len(s \o v) = Len(s \o t) /\ Len(s \o t) = Len(s) + Len(t)
  BY <1>1
<1>4. ASSUME NEW i \in 1..Len(s \o t) PROVE Alike((s \o v)[i], (s \o t)[i])
  <2>1. CASE i <= Len(s)
    <3>1. (s \o v)[i] = s[i] /\ (s \o t)[i] = s[i]
      BY <1>1, <1>3, <2>1
    <3> QED
      BY <3>1 DEF Alike
  <2>2. CASE i > Len(s)
    <3>1. (s \o v)[i] = v[i - Len(s)] /\ (s \o t)[i] = t[i - Len(s)] /\ i - Len(s) \in 1..Len(t)
      BY <1>1, <1>3, <2>2
    <3> QED
      BY <1>2, <3>1
  <2> QED
    BY <1>1, <1>3, <2>1, <2>2
<1> QED
  BY <1>3, <1>4 DEF t, v

LEMMA TailInside ==
  ASSUME NEW r \in Seq(Request), NEW m \in Request
  PROVE  /\ <<m>> \o r # <<>> /\ Tail(<<m>> \o r) = r
         /\ Len(<<m>> \o r) = Len(r) + 1
         /\ (<<m>> \o r)[1] = m
         /\ \A i \in 1..Len(r) : (<<m>> \o r)[i + 1] = r[i]
         /\ <<m>> \o r \in Seq(Request)
OBVIOUS

LEMMA ClientTakeDelivers ==
  ASSUME TypeOK, TypeOK', DeliveryInv, ClientTake, UNCHANGED <<listenerVars, proxyVars>>
  PROVE  DeliveryInv'
<1> DEFINE m == Head(toClient)
           k == Masquerade(m)
           rest == Tail(toClient) \o (pbuf \o toGateway)
<1>1. UNCHANGED <<sent, got, rbuf, mch, hbuf, hpc, toGateway, pbuf, link, gwIn>>
  BY DEF listenerVars, proxyVars, ClientTake, linkVars
<1>2. /\ toClient \in Seq(Request) /\ pbuf \o toGateway \in Seq(Request)
      /\ gwIn \in Seq(Request) /\ toClient # <<>> /\ cpc = "select" /\ cpc' = "send"
      /\ toClient' = Tail(toClient) /\ cbuf' = <<k>>
  BY PipelineType, PendingSplit DEF PipelineTypeOK, ClientTake
<1>3. /\ m \in Request /\ Tail(toClient) \in Seq(Request) /\ toClient = <<m>> \o Tail(toClient)
  BY <1>2
<1>4. k \in Request /\ Alike(k, m) /\ k.app = m.app
  BY <1>3 DEF Masquerade, Request, Alike, Uuids, Actors
<1>5. rest \in Seq(Request)
  BY <1>2, <1>3, ConcatProperties, Zenon
<1>6. Pending = <<m>> \o rest
  <2>1. cbuf = <<>>
    BY <1>2 DEF TypeOK, ClientTypeOK
  <2>2. <<>> \o (toClient \o (pbuf \o toGateway)) = toClient \o (pbuf \o toGateway)
    BY PendingSplit, ConcatEmptySeq, Zenon
  <2>3. <<m>> \in Seq(Request)
    BY <1>3
  <2>4. (<<m>> \o Tail(toClient)) \o (pbuf \o toGateway) = <<m>> \o rest
    BY <1>2, <1>3, <2>3, Associative
  <2>5. toClient \o (pbuf \o toGateway) = (<<m>> \o Tail(toClient)) \o (pbuf \o toGateway)
    BY <1>3
  <2> QED
    BY <2>1, <2>2, <2>4, <2>5, PendingSplit
<1>7. Pending' = <<k>> \o rest
  BY <1>1, <1>2, PendingSplitPrimed
<1>8. Upstream = gwIn \o (<<m>> \o rest) /\ Upstream' = gwIn \o (<<k>> \o rest)
  BY <1>1, <1>6, <1>7 DEF Upstream
<1> HIDE DEF m, k, rest
<1>9. Within(Upstream', Upstream) /\ Covers(Upstream', Upstream)
  <2>1. /\ Len(Upstream') = Len(Upstream)
        /\ \A i \in 1..Len(Upstream) : Alike(Upstream'[i], Upstream[i])
    BY <1>2, <1>3, <1>4, <1>5, <1>8, HeadMasqueraded
  <2>2. Upstream \in Seq(Request) /\ Upstream' \in Seq(Request)
    BY PipelineType, PipelineTypePrimed DEF PipelineTypeOK
  <2> QED
    BY <2>1, <2>2, AlikeWithin
<1>10. \A i \in 1..Len(Pending') : Pending'[i].app \in Conns
  <2>1. /\ Len(Pending') = Len(Pending)
        /\ \A i \in 1..Len(Pending) : Alike(Pending'[i], Pending[i])
    <3>1. <<>> \in Seq(Request) /\ <<m>> \o rest \in Seq(Request) /\ <<k>> \o rest \in Seq(Request)
      BY <1>3, <1>4, <1>5, TailInside
    <3>2. <<>> \o (<<m>> \o rest) = <<m>> \o rest /\ <<>> \o (<<k>> \o rest) = <<k>> \o rest
      BY <3>1, ConcatEmptySeq, Zenon
    <3>3. /\ Len(<<>> \o (<<k>> \o rest)) = Len(<<>> \o (<<m>> \o rest))
          /\ \A i \in 1..Len(<<>> \o (<<m>> \o rest)) :
               Alike((<<>> \o (<<k>> \o rest))[i], (<<>> \o (<<m>> \o rest))[i])
      BY <1>3, <1>4, <1>5, <3>1, HeadMasqueraded, Zenon
    <3> QED
      BY <1>6, <1>7, <3>2, <3>3, Zenon
  <2> QED
    BY <2>1 DEF DeliveryInv, Travelling, Alike
<1> QED
  BY <1>1, <1>2, <1>9, <1>10, PipelineStep DEF DeliveryInv, Travelling

LEMMA ClientSendDelivers ==
  ASSUME TypeOK, TypeOK', DeliveryInv, ClientSend, UNCHANGED <<listenerVars, proxyVars>>
  PROVE  DeliveryInv'
<1> DEFINE m == cbuf[1]
           rest == toClient \o (pbuf \o toGateway)
<1>1. UNCHANGED <<sent, got, rbuf, mch, hbuf, hpc, toGateway, pbuf, toClient, link>>
  BY DEF listenerVars, proxyVars, ClientSend
<1>2. /\ cpc = "send" /\ cpc' = "select" /\ cbuf' = <<>>
      /\ gwIn' = IF link = "up" THEN Append(gwIn, m) ELSE gwIn
  BY DEF ClientSend, WriteToGateway
<1>3. cbuf \in Seq(Request) /\ Len(cbuf) = 1 /\ gwIn \in Seq(Request)
  BY <1>2 DEF TypeOK, ClientTypeOK
<1>4. m \in Request /\ cbuf = <<m>>
  BY <1>3
<1>5. rest \in Seq(Request) /\ Pending = <<m>> \o rest
  BY <1>4, PendingSplit
<1>6. Pending' = rest
  <2>1. <<>> \o rest = rest
    BY <1>5, ConcatEmptySeq, Zenon
  <2> QED
    BY <1>1, <1>2, <2>1, PendingSplitPrimed
<1> HIDE DEF m, rest
<1>7. \A i \in 1..Len(Pending') : Pending'[i].app \in Conns
  <2> SUFFICES ASSUME NEW i \in 1..Len(rest) PROVE rest[i].app \in Conns
    BY <1>6
  <2>1. i + 1 \in 1..Len(Pending) /\ Pending[i + 1] = rest[i]
    BY <1>4, <1>5, TailInside
  <2> QED
    BY <2>1 DEF DeliveryInv, Travelling
<1>8. link # "none"
  BY <1>2 DEF DeliveryInv, Travelling
<1>9. CASE link = "up"
  <2>1. Upstream' = Upstream
    <3>1. gwIn' = gwIn \o <<m>>
      BY <1>2, <1>3, <1>4, <1>9, AppendIsConcat, Zenon
    <3>2. (gwIn \o <<m>>) \o rest = gwIn \o (<<m>> \o rest)
      <4>1. <<m>> \in Seq(Request)
        BY <1>4
      <4> QED
        BY <1>3, <1>5, <4>1, Associative
    <3> QED
      BY <1>5, <1>6, <3>1, <3>2 DEF Upstream
  <2>2. Within(Upstream', Upstream) /\ Covers(Upstream', Upstream)
    BY <2>1, PipelineType, SameWithin DEF PipelineTypeOK
  <2> QED
    BY <1>1, <1>2, <1>7, <1>8, <2>2, PipelineStep
<1>10. CASE link # "up"
  <2>1. Upstream = gwIn \o (<<m>> \o rest) /\ Upstream' = gwIn \o rest
    BY <1>2, <1>5, <1>6, <1>10 DEF Upstream
  <2>2. /\ <<m>> \o rest \in Seq(Request) /\ <<m>> \o rest # <<>>
        /\ Tail(<<m>> \o rest) = rest
    BY <1>4, <1>5, TailInside
  <2>3. Within(Upstream', Upstream)
    BY <1>3, <2>1, <2>2, LossWithin
  <2> QED
    BY <1>1, <1>2, <1>7, <1>8, <1>10, <2>3, PipelineStep
<1> QED
  BY <1>9, <1>10

LEMMA ClientNextDelivers ==
  ASSUME TypeOK, TypeOK', DeliveryInv, ClientNext, UNCHANGED <<listenerVars, proxyVars>>
  PROVE  DeliveryInv'
<1>1. UNCHANGED <<sent, got, rbuf, mch, hbuf, hpc, toGateway, pbuf>>
  BY DEF listenerVars, proxyVars
<1>2. link = "none" <=> cpc \in {"none", "discover", "dial"}
  BY DEF DeliveryInv, Travelling
<1>3. CASE ClientDone \/ ClientReceiving \/ ClientReceive \/ ClientTimeout \/ ClientLost \/ ClientPush
  <2>1. Pending' = Pending /\ gwIn' = gwIn
    BY <1>1, <1>3 DEF Pending, ClientDone, ClientReceiving, ClientReceive, ClientTimeout,
       ClientLost, ClientPush, linkVars
  <2>2. /\ cpc \notin {"none", "discover", "dial"} /\ cpc' \notin {"none", "discover", "dial"}
        /\ link' \in {"none", "up"} => link' = link
    BY <1>3 DEF ClientDone, ClientReceiving, ClientReceive, ClientTimeout, ClientLost,
       ClientPush, linkVars
  <2>3. link' # "none"
    BY <1>2, <2>2
  <2> QED
    BY <1>1, <2>1, <2>2, <2>3, PendingStays
<1>4. CASE ClientClosing
  <2>1. OwnRequest("CloseSessionRequest", 1) \in Request
    BY OwnRequestType DEF Kinds
  <2>2. Pending' = Pending
    BY <1>1, <1>4 DEF Pending, ClientClosing
  <2> QED
    BY <1>1, <1>2, <1>4, <2>1, <2>2, OwnWrite DEF ClientClosing, OwnRequest
<1>5. CASE KeepAliveTick
  <2>1. OwnRequest("CnTimeRequest", kref) \in Request
    <3>1. kref \in Nat
      BY ClientAssumption DEF TypeOK, ClientTypeOK
    <3> QED
      BY <3>1, OwnRequestType DEF Kinds
  <2>2. Pending' = Pending
    BY <1>1, <1>5 DEF Pending, KeepAliveTick
  <2> QED
    BY <1>1, <1>2, <1>5, <2>1, <2>2, OwnWrite DEF KeepAliveTick, OwnRequest
<1>6. CASE KeepAliveDone
  <2>1. Pending' = Pending
    BY <1>1, <1>6 DEF Pending, KeepAliveDone
  <2> QED
    BY <1>1, <1>2, <1>6, <2>1, PendingStays DEF KeepAliveDone, linkVars
<1>7. CASE Gateway
  <2>1. Pending' = Pending
    BY <1>1, <1>7 DEF Pending, Gateway
  <2>2. gwIn' = gwIn /\ cpc' = cpc /\ (link' = link \/ (link = "up" /\ link' \in {"fin", "rst"}))
    BY <1>7 DEF Gateway, GatewayAnswer, GatewayNotify, GatewayDrop
  <2> QED
    BY <1>1, <1>2, <2>1, <2>2, PendingStays
<1> QED
  BY <1>3, <1>4, <1>5, <1>6, <1>7, NewSessionDelivers, ClientTakeDelivers, ClientSendDelivers
     DEF ClientNext, ClientLoop, KeepAlive

LEMMA ProxyRunDelivers ==
  ASSUME TypeOK, TypeOK', DeliveryInv, ProxyRun
  PROVE  DeliveryInv'
<1>0. link = "none" <=> cpc \in {"none", "discover", "dial"}
  BY DEF DeliveryInv, Travelling
<1>1. CASE ProxyTakeUp
  <2>1. UNCHANGED <<sent, got, rbuf, mch, hbuf, hpc, cbuf, toClient, gwIn, link, cpc>>
    BY <1>1 DEF ProxyTakeUp, socketVars, readerVars, handlerVars, clientVars
  <2>2. pbuf' \o toGateway' = pbuf \o toGateway
    <3>1. toGateway \in Seq(Request) /\ toGateway # <<>> /\ pbuf = <<>>
      BY <1>1 DEF ProxyTakeUp, TypeOK, ListenerTypeOK
    <3>2. <<Head(toGateway)>> \o Tail(toGateway) = toGateway
      BY <3>1
    <3>3. <<>> \o toGateway = toGateway
      BY <3>1, ConcatEmptySeq, Zenon
    <3> QED
      BY <1>1, <3>1, <3>2, <3>3 DEF ProxyTakeUp
  <2>3. Pending' = Pending
    BY <2>1, <2>2, PendingSplit, PendingSplitPrimed
  <2> QED
    BY <1>0, <2>1, <2>3, PendingStays
<1>2. CASE ProxyForward
  <2>1. /\ UNCHANGED <<sent, got, rbuf, mch, hbuf, hpc, cbuf, toGateway, gwIn, link, cpc>>
        /\ toClient' = toClient \o pbuf /\ pbuf' = <<>>
    BY <1>2 DEF ProxyForward, listenerVars, linkVars
  <2>2. toClient' \o (pbuf' \o toGateway') = toClient \o (pbuf \o toGateway)
    <3>1. toClient \in Seq(Request) /\ pbuf \in Seq(Request) /\ toGateway \in Seq(Request)
      BY PipelineType DEF PipelineTypeOK
    <3>2. (toClient \o pbuf) \o toGateway = toClient \o (pbuf \o toGateway)
      BY <3>1, Associative
    <3>3. <<>> \o toGateway = toGateway
      BY <3>1, ConcatEmptySeq, Zenon
    <3> QED
      BY <2>1, <3>2, <3>3
  <2>3. Pending' = Pending
    BY <2>1, <2>2, PendingSplit, PendingSplitPrimed
  <2> QED
    BY <1>0, <2>1, <2>3, PendingStays
<1>3. CASE \/ RunClient \/ RunListener \/ ProxyShutDown \/ ProxyReturn \/ ProxyTakeDown
           \/ \E c \in Conns : ProxyAddress(c)
           \/ ProxyWrite \/ ProxyCopied
  <2>1. UNCHANGED <<sent, got, rbuf, mch, hbuf, hpc, cbuf, toClient, pbuf, toGateway, gwIn, link>>
    BY <1>3 DEF RunClient, RunListener, ProxyShutDown, ProxyReturn, ProxyTakeDown,
       ProxyAddress, ProxyWrite, ProxyCopied, listenerVars, clientVars, linkVars, socketVars,
       readerVars, handlerVars
  <2>2. cpc' \in {"none", "discover", "dial"} <=> cpc \in {"none", "discover", "dial"}
    <3>1. CASE RunClient
      BY <3>1 DEF RunClient, TypeOK
    <3>2. CASE ~RunClient
      BY <1>3, <3>2 DEF RunListener, ProxyShutDown, ProxyReturn, ProxyTakeDown,
         ProxyAddress, ProxyWrite, ProxyCopied, clientVars
    <3> QED
      BY <3>1, <3>2
  <2>3. Pending' = Pending
    BY <2>1 DEF Pending
  <2> QED
    BY <1>0, <2>1, <2>2, <2>3, PendingStays
<1> QED
  BY <1>1, <1>2, <1>3 DEF ProxyRun

(* What a handler hands on is appended to the pipeline *)
LEMMA ListenerDelivers ==
  ASSUME TypeOK, TypeOK', DeliveryInv, ListenerNext, UNCHANGED <<clientVars, proxyVars>>
  PROVE  DeliveryInv'
<1>1. /\ ListenerTypeOK /\ ListenerTypeOK' /\ PipelineTypeOK /\ PipelineTypeOK'
      /\ AppSide /\ Notifying
  BY PipelineType, PipelineTypePrimed DEF TypeOK, DeliveryInv
<1>2. AppSide' /\ SentGrows /\ Effect /\ Notifying'
  BY <1>1, ListenerEffect, NotifyingStep
<1>3. UNCHANGED <<gwIn, cbuf, toClient, pbuf, link, cpc>>
  BY DEF clientVars, proxyVars
<1>4. /\ InOrder(Upstream) /\ Genuine(Upstream)
      /\ link \in {"none", "up"} => Complete(Upstream)
      /\ \A i \in 1..Len(Pending) : Pending[i].app \in Conns
      /\ link = "none" <=> cpc \in {"none", "discover", "dial"}
  BY DEF DeliveryInv, Travelling
<1>5. ASSUME toGateway' = toGateway PROVE Pending' = Pending /\ Upstream' = Upstream
  BY <1>3, <1>5 DEF Pending, Upstream
<1>6. CASE (\A d \in Conns : Handled(d)' = Handled(d)) /\ toGateway' = toGateway
  <2>1. HandledGrows
    BY <1>1, <1>6, HandsType DEF HandsTypeOK, HandledGrows
  <2>2. Within(Upstream', Upstream) /\ Covers(Upstream', Upstream)
    BY <1>1, <1>5, <1>6, SameWithin DEF PipelineTypeOK
  <2>3. InOrder(Upstream)' /\ Genuine(Upstream)'
    BY <1>1, <1>2, <1>4, <2>1, <2>2, WithinKeeps
  <2>4. link' \in {"none", "up"} => Complete(Upstream)'
    BY <1>1, <1>2, <1>3, <1>4, <1>6, <2>2, CoversKeeps
  <2>5. Travelling'
    BY <1>3, <1>4, <1>5, <1>6, <2>3, <2>4 DEF Travelling
  <2> QED
    BY <1>2, <2>5 DEF DeliveryInv
<1>7. ASSUME NEW c \in Conns, OneMore(c), IsLocal(sent[c][Handled(c) + 1]),
             toGateway' = toGateway
      PROVE  DeliveryInv'
  <2>1. /\ InOrder(Upstream)' /\ Genuine(Upstream)'
        /\ Complete(Upstream) => Complete(Upstream)'
    BY <1>1, <1>2, <1>4, <1>5, <1>7, SkipKeeps
  <2>2. Travelling'
    BY <1>3, <1>4, <1>5, <1>7, <2>1 DEF Travelling
  <2> QED
    BY <1>2, <2>2 DEF DeliveryInv
<1>8. ASSUME NEW c \in Conns, OneMore(c), ~IsLocal(sent[c][Handled(c) + 1]),
             toGateway' = Append(toGateway, sent[c][Handled(c) + 1])
      PROVE  DeliveryInv'
  <2> DEFINE m == sent[c][Handled(c) + 1]
  <2>1. m \in Request /\ m.app = c
    BY <1>1, <1>2, <1>8, NextHandled
  <2>2. Pending' = Append(Pending, m)
    <3> DEFINE front == (cbuf \o toClient) \o pbuf
    <3>1. cbuf \o toClient \in Seq(Request)
      BY <1>1, ConcatProperties, Zenon DEF PipelineTypeOK
    <3>2. front \in Seq(Request)
      BY <1>1, <3>1, ConcatProperties, Zenon DEF PipelineTypeOK
    <3>3. Pending = front \o toGateway /\ Pending' = front \o Append(toGateway, m)
      BY <1>3, <1>8 DEF Pending
    <3> HIDE DEF front, m
    <3> QED
      BY <1>1, <2>1, <3>2, <3>3, AppendMoves DEF PipelineTypeOK
  <2>3. Upstream' = Append(Upstream, m)
    <3> HIDE DEF m
    <3> QED
      BY <1>1, <1>3, <2>1, <2>2, AppendMoves DEF Upstream, PipelineTypeOK
  <2>4. /\ InOrder(Upstream)' /\ Genuine(Upstream)'
        /\ Complete(Upstream) => Complete(Upstream)'
    BY <1>1, <1>2, <1>4, <1>8, <2>3, ForwardKeeps
  <2>5. \A i \in 1..Len(Pending') : Pending'[i].app \in Conns
    <3>1. Pending \in Seq(Request)
      BY <1>1 DEF PipelineTypeOK
    <3> HIDE DEF m
    <3>2. Len(Pending') = Len(Pending) + 1 /\ Len(Pending) \in Nat
      BY <2>1, <2>2, <3>1
    <3>3. /\ \A i \in 1..Len(Pending) : Pending'[i] = Pending[i]
          /\ Pending'[Len(Pending) + 1] = m
      BY <2>1, <2>2, <3>1
    <3> QED
      BY <1>4, <2>1, <3>2, <3>3
  <2>6. Travelling'
    BY <1>3, <1>4, <2>4, <2>5 DEF Travelling
  <2> QED
    BY <1>2, <2>6 DEF DeliveryInv
<1> QED
  BY <1>2, <1>6, <1>7, <1>8 DEF Effect

-----------------------------------------------------------------------------
(* The whole proxy *)

LEMMA InitDelivers == ASSUME Init PROVE DeliveryInv
<1>1. \A c \in Conns : /\ sent[c] = <<>> /\ got[c] = 0 /\ rbuf[c] = <<>> /\ mch[c] = <<>>
                       /\ hbuf[c] = <<>> /\ hpc[c] = "none"
  BY DEF Init, ListenerInit
<1>2. \A c \in Conns : Handled(c) = 0 /\ InHands(c) = <<>>
  <2>1. (<<>> \o <<>>) \o <<>> = <<>>
    OBVIOUS
  <2>2. Len(<<>>) = 0
    OBVIOUS
  <2>3. 0 - 0 - 0 - 0 = 0
    OBVIOUS
  <2> QED
    BY <1>1, <2>1, <2>2, <2>3 DEF Handled, InHands
<1>3. AppSide /\ Notifying
  BY <1>1, <1>2 DEF AppSide, Labelled, Hands, Notifying
<1>4. Pending = <<>> /\ Upstream = <<>>
  <2>1. ((<<>> \o <<>>) \o <<>>) \o <<>> = <<>> /\ <<>> \o <<>> = <<>>
    OBVIOUS
  <2>2. gwIn = <<>> /\ cbuf = <<>> /\ toClient = <<>> /\ pbuf = <<>> /\ toGateway = <<>>
    BY DEF Init, ListenerInit, ClientInit
  <2>3. Pending = <<>>
    BY <2>1, <2>2 DEF Pending
  <2> QED
    BY <2>1, <2>2, <2>3 DEF Upstream
<1>5. link = "none" /\ cpc = "none"
  BY DEF Init, ClientInit
<1>6. InOrder(<<>>) /\ Genuine(<<>>)
  BY DEF InOrder, Genuine
<1>7. Complete(<<>>)
  BY <1>2 DEF Complete
<1> QED
  BY <1>3, <1>4, <1>5, <1>6, <1>7 DEF DeliveryInv, Travelling

LEMMA NextDelivers ==
  ASSUME TypeOK, TypeOK', DeliveryInv, [Next]_vars
  PROVE  DeliveryInv'
<1>1. CASE ListenerNext /\ UNCHANGED <<ctx, clientVars, proxyVars>>
  BY <1>1, ListenerDelivers
<1>2. CASE ClientNext /\ UNCHANGED <<ctx, listenerVars, proxyVars>>
  BY <1>2, ClientNextDelivers
<1>3. CASE Main \/ Throw \/ UNCHANGED vars
  <2>1. UNCHANGED <<sent, got, rbuf, mch, hbuf, hpc, cbuf, toClient, pbuf, toGateway, gwIn, link, cpc>>
    BY <1>3 DEF Main, Interrupt, MainWait, MainExit, Throw, vars, listenerVars, clientVars, proxyVars
  <2>2. Pending' = Pending
    BY <2>1 DEF Pending
  <2> QED
    BY <2>1, <2>2, PendingStays DEF DeliveryInv, Travelling
<1> QED
  BY <1>1, <1>2, <1>3, ProxyRunDelivers DEF Next, Over

(* The invariant says what UpstreamFIFO says: what the reader and the      *)
(* handler hold is a piece of the app's log, as a sequence.                *)
LEMMA DeliveredFIFO == TypeOK /\ DeliveryInv => UpstreamFIFO
<1> SUFFICES ASSUME TypeOK, DeliveryInv PROVE UpstreamFIFO
  OBVIOUS
<1>1. ASSUME NEW c \in Conns PROVE InHands(c) = SubSeq(sent[c], Handled(c) + 1, got[c])
  <2> DEFINE q == InHands(c)
             h == Handled(c)
             s == sent[c]
             g == got[c]
  <2>1. /\ q \in Seq(Request) /\ Len(q) \in Nat /\ h \in Int /\ Len(q) = g - h
        /\ s \in Seq(Request) /\ Len(s) \in Nat /\ g \in Nat
    BY HandsType DEF HandsTypeOK, TypeOK
  <2>2. /\ g <= Len(s) /\ h >= 0 /\ \A i \in 1..Len(q) : q[i] = s[h + i]
    BY DEF DeliveryInv, AppSide, Hands
  <2> HIDE DEF q, h, s, g
  <2>3. /\ SubSeq(s, h + 1, g) \in Seq(Request)
        /\ Len(SubSeq(s, h + 1, g)) = Len(q)
        /\ \A i \in 1..Len(q) : SubSeq(s, h + 1, g)[i] = s[h + i]
    BY <2>1, <2>2
  <2>4. q = SubSeq(s, h + 1, g)
    BY <2>1, <2>2, <2>3, SeqEqual
  <2> QED
    BY <2>4 DEF q, h, s, g
<1> QED
  BY <1>1 DEF UpstreamFIFO, DeliveryInv, Travelling

(* What an app writes is handled in order and once, and what is not        *)
(* answered by the proxy itself travels to the gateway in order, once and  *)
(* unaltered, through the reader and handler of the app, Proxy.Run and     *)
(* Client.Run and the three channels between them; nothing is missing      *)
(* while the connection to the gateway is up.                              *)
THEOREM Delivered == Spec => []UpstreamFIFO
<1>1. Init => TypeOK /\ DeliveryInv
  BY InitType, InitDelivers
<1>2. TypeOK /\ DeliveryInv /\ [Next]_vars => TypeOK' /\ DeliveryInv'
  BY NextType, NextDelivers
<1>3. TypeOK /\ DeliveryInv => UpstreamFIFO
  BY DeliveredFIFO
<1> QED
  BY <1>1, <1>2, <1>3, PTL DEF Spec

(* What is in the beginning of an ordered pipeline is in order *)
LEMMA FrontInOrder ==
  ASSUME NEW s \in Seq(Request), NEW t \in Seq(Request), InOrder(s \o t)
  PROVE  InOrder(s)
<1>1. \A i \in 1..Len(s) : i \in 1..Len(s \o t) /\ (s \o t)[i] = s[i]
  OBVIOUS
<1> QED
  BY <1>1 DEF InOrder

(* Also when the connection is lost or closed while messages are queued on *)
(* both sides, the gateway sees the messages of each app in the order in   *)
(* which the app wrote them, none of them twice.                           *)
THEOREM Ordered == Spec => []ForwardedInOrder
<1>1. TypeOK /\ UpstreamFIFO => ForwardedInOrder
  BY PipelineType, FrontInOrder DEF PipelineTypeOK, UpstreamFIFO, Upstream, ForwardedInOrder
<1> QED
  BY <1>1, TypeCorrect, Delivered, PTL

-----------------------------------------------------------------------------
(* The end of the session *)

IsClose(m) == m.app = Self /\ m.kind = "CloseSessionRequest"

(* NothingAfterClose, made inductive: once the session's close is written  *)
(* Client.Run is past its loop.                                            *)
CloseInv ==
  /\ NothingAfterClose
  /\ (\E i \in 1..Len(gwIn) : IsClose(gwIn[i])) => cpc \in {"closing", "done"}

(* A frame that is written to the gateway *)
LEMMA CloseWritten ==
  ASSUME gwIn \in Seq(Request), CloseInv, NEW m \in Request, WriteToGateway(m),
         \/ cpc \notin {"closing", "done"} /\ (IsClose(m) => cpc' \in {"closing", "done"})
         \/ cpc' = cpc /\ m.app = Self /\ m.kind = "CnTimeRequest"
  PROVE  CloseInv'
<1>1. CASE gwIn' = gwIn
  BY <1>1 DEF CloseInv, NothingAfterClose, IsClose
<1>2. CASE gwIn' = Append(gwIn, m)
  <2>1. /\ Len(gwIn) \in Nat /\ Len(gwIn') = Len(gwIn) + 1
        /\ \A i \in 1..Len(gwIn) : gwIn'[i] = gwIn[i]
        /\ gwIn'[Len(gwIn) + 1] = m
    BY <1>2
  <2>2. ASSUME NEW i \in 1..Len(gwIn'), NEW j \in 1..Len(gwIn'), i < j, IsClose(gwIn'[i])
        PROVE  gwIn'[j].app = Self /\ gwIn'[j].kind = "CnTimeRequest"
    <3>1. i \in 1..Len(gwIn) /\ (j \in 1..Len(gwIn) \/ j = Len(gwIn) + 1)
      BY <2>1, <2>2
    <3>2. IsClose(gwIn[i])
      BY <2>1, <2>2, <3>1
    <3>3. cpc \in {"closing", "done"}
      BY <3>1, <3>2 DEF CloseInv
    <3> QED
      BY <2>1, <2>2, <3>1, <3>2, <3>3 DEF CloseInv, NothingAfterClose, IsClose
  <2>3. NothingAfterClose'
    BY <2>2 DEF NothingAfterClose, IsClose
  <2>4. ASSUME NEW i \in 1..Len(gwIn'), IsClose(gwIn'[i]) PROVE cpc' \in {"closing", "done"}
    <3>1. i \in 1..Len(gwIn) \/ i = Len(gwIn) + 1
      BY <2>1
    <3>2. CASE i \in 1..Len(gwIn)
      <4>1. cpc \in {"closing", "done"}
        BY <2>1, <2>4, <3>2 DEF CloseInv
      <4> QED
        BY <4>1
    <3>3. CASE i = Len(gwIn) + 1
      BY <2>1, <2>4, <3>3 DEF IsClose
    <3> QED
      BY <3>1, <3>2, <3>3
  <2> QED
    BY <2>3, <2>4 DEF CloseInv, IsClose
<1> QED
  BY <1>1, <1>2 DEF WriteToGateway

LEMMA CloseUnchanged ==
  ASSUME CloseInv, gwIn' = gwIn,
         cpc \in {"closing", "done"} => cpc' \in {"closing", "done"}
  PROVE  CloseInv'
BY DEF CloseInv, NothingAfterClose, IsClose

LEMMA ClientNextCloses ==
  ASSUME TypeOK, DeliveryInv, CloseInv, ClientNext
  PROVE  CloseInv'
<1>0. gwIn \in Seq(Request)
  BY DEF TypeOK, ClientTypeOK
<1>1. CASE Register
  <2>1. OwnRequest("RegisterAppRequest", 1) \in Request
    BY OwnRequestType DEF Kinds
  <2>2. ~IsClose(OwnRequest("RegisterAppRequest", 1))
    BY DEF IsClose, OwnRequest
  <2> QED
    BY <1>0, <1>1, <2>1, <2>2, CloseWritten DEF Register
<1>2. CASE Start
  <2>1. OwnRequest("StartSessionRequest", 2) \in Request
    BY OwnRequestType DEF Kinds
  <2>2. ~IsClose(OwnRequest("StartSessionRequest", 2))
    BY DEF IsClose, OwnRequest
  <2> QED
    BY <1>0, <1>2, <2>1, <2>2, CloseWritten DEF Start
<1>3. CASE ClientClosing
  <2>1. OwnRequest("CloseSessionRequest", 1) \in Request
    BY OwnRequestType DEF Kinds
  <2> QED
    BY <1>0, <1>3, <2>1, CloseWritten DEF ClientClosing
<1>4. CASE KeepAliveTick
  <2>1. OwnRequest("CnTimeRequest", kref) \in Request
    <3>1. kref \in Nat
      BY ClientAssumption DEF TypeOK, ClientTypeOK
    <3> QED
      BY <3>1, OwnRequestType DEF Kinds
  <2> QED
    BY <1>0, <1>4, <2>1, CloseWritten DEF KeepAliveTick, OwnRequest
<1>5. CASE ClientSend
  <2>1. cbuf \in Seq(Request) /\ Len(cbuf) = 1
    BY <1>5 DEF ClientSend, TypeOK, ClientTypeOK
  <2>2. cbuf[1] \in Request
    BY <2>1, BufferElement
  <2>3. ~IsClose(cbuf[1])
    <3> DEFINE rest == toClient \o (pbuf \o toGateway)
    <3>1. cbuf = <<cbuf[1]>>
      BY <2>1
    <3>2. rest \in Seq(Request) /\ Pending = <<cbuf[1]>> \o rest
      BY <3>1, PendingSplit
    <3> HIDE DEF rest
    <3>3. 1 \in 1..Len(Pending) /\ Pending[1] = cbuf[1]
      BY <2>2, <3>2, TailInside
    <3>4. cbuf[1].app \in Conns
      BY <3>3 DEF DeliveryInv, Travelling
    <3> QED
      BY <3>4, ActorsAssumption DEF IsClose
  <2> QED
    BY <1>0, <1>5, <2>2, <2>3, CloseWritten DEF ClientSend
<1>6. CASE Gateway \/ KeepAliveDone
  BY <1>6, CloseUnchanged DEF Gateway, GatewayAnswer, GatewayNotify, GatewayDrop,
     KeepAliveDone, linkVars
<1>7. CASE Discover \/ Dial \/ RegisterConfirm \/ StartConfirm
  BY <1>7, CloseUnchanged DEF Discover, Dial, RegisterConfirm, StartConfirm, linkVars
<1>8. CASE ClientDone \/ ClientTake \/ ClientReceiving \/ ClientReceive \/ ClientTimeout
           \/ ClientLost \/ ClientPush
  BY <1>8, CloseUnchanged DEF ClientDone, ClientTake, ClientReceiving, ClientReceive,
     ClientTimeout, ClientLost, ClientPush, linkVars
<1> QED
  BY <1>1, <1>2, <1>3, <1>4, <1>5, <1>6, <1>7, <1>8 DEF ClientNext, NewSession, ClientLoop, KeepAlive

LEMMA NextCloses ==
  ASSUME TypeOK, DeliveryInv, CloseInv, [Next]_vars
  PROVE  CloseInv'
<1>1. CASE ListenerNext /\ UNCHANGED <<ctx, clientVars, proxyVars>>
  BY <1>1, CloseUnchanged DEF clientVars
<1>2. CASE Main \/ Throw \/ UNCHANGED vars
  BY <1>2, CloseUnchanged DEF Main, Interrupt, MainWait, MainExit, Throw, vars, clientVars
<1>3. CASE ProxyRun
  <2>1. CASE RunClient
    <3>1. cpc = "none"
      BY <2>1 DEF RunClient, TypeOK
    <3> QED
      BY <2>1, <3>1, CloseUnchanged DEF RunClient, linkVars
  <2>2. CASE ~RunClient
    BY <1>3, <2>2, CloseUnchanged DEF ProxyRun, RunListener, ProxyShutDown, ProxyReturn,
       ProxyTakeUp, ProxyForward, ProxyTakeDown, ProxyAddress, ProxyWrite, ProxyCopied,
       clientVars, linkVars
  <2> QED
    BY <2>1, <2>2
<1> QED
  BY <1>1, <1>2, <1>3, ClientNextCloses DEF Next, Over

(* After the proxy has asked the gateway to close the session nothing of   *)
(* the apps follows, whatever is still queued when the context is          *)
(* cancelled; only the keep-alive goroutine may write once more.           *)
THEOREM ClosedQuietly == Spec => []NothingAfterClose
<1>1. Init => TypeOK /\ DeliveryInv /\ CloseInv
  <2>1. Init => CloseInv
    BY DEF Init, ClientInit, CloseInv, NothingAfterClose
  <2> QED
    BY <2>1, InitType, InitDelivers
<1>2. TypeOK /\ DeliveryInv /\ CloseInv /\ [Next]_vars => TypeOK' /\ DeliveryInv' /\ CloseInv'
  BY NextType, NextDelivers, NextCloses
<1>3. CloseInv => NothingAfterClose
  BY DEF CloseInv
<1> QED
  BY <1>1, <1>2, <1>3, PTL DEF Spec
=============================================================================
