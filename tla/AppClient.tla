------------------------------ MODULE AppClient ------------------------------
(***************************************************************************)
(* cmd/client: pkg/client/client.go, a client that opens a session at the  *)
(* gateway, subscribes to sensors, one after the other, and then receives  *)
(* their measurements; when the connection ends it starts again.           *)
(*                                                                         *)
(* One goroutine runs the sessions.  Each session starts a keepAlive       *)
(* goroutine, which writes every five seconds to the client's current      *)
(* connection.  The context is never cancelled: main only does that once   *)
(* Run has returned.                                                       *)
(*                                                                         *)
(* Reference numbers are left out: the client shares one between its       *)
(* goroutines without a lock, and compares it with nothing.  The           *)
(* connection that a new one replaces is neither closed nor used again, so *)
(* that only the current one is modelled.                                  *)
(***************************************************************************)
EXTENDS Integers, Sequences

CONSTANTS
  NSensors,     \* how many sensors the client subscribes to
  MaxReceives,  \* how many frames it waits through for a confirm (10)
  MaxSessions,  \* bound: connections to the gateway
  MaxTicks,     \* bound: keep-alives of all goroutines
  MaxNotes,     \* bound: notifications per connection
  Faults        \* what may go wrong: a subset of {"fin", "rst"}

ASSUME AppClientAssumption ==
  /\ NSensors \in Nat
  /\ MaxReceives \in Nat \ {0}
  /\ MaxSessions \in Nat
  /\ MaxTicks \in Nat
  /\ MaxNotes \in Nat
  /\ Faults \subseteq {"fin", "rst"}

M == INSTANCE Messages WITH Conns <- {}, Self <- "client", NoUuid <- "none"

VARIABLES
  pc,       \* of Run: dial, register, registerConfirm, start, startConfirm,
            \* subscribe, subscribeConfirm, receive, or panicked
  session,  \* the number of the current connection, 0 before the first
  link,     \* that connection: none, up, fin or rst (by the gateway)
  gwIn,     \* the frames the gateway got on it
  gwSeen,   \* how many of them it has answered
  gwOut,    \* the kinds of the frames it has written
  gwRead,   \* how many of them the client has read
  sensor,   \* the sensor that is subscribed next
  tries,    \* i in subscribe: the frames read since the request
  keepers,  \* the sessions whose keepAlive goroutine runs
  ticks     \* how many keep-alives were sent

linkVars == <<link, gwIn, gwSeen, gwOut, gwRead>>
keepAliveVars == <<keepers, ticks>>
subscribeVars == <<sensor, tries>>
vars == <<pc, session, linkVars, subscribeVars, keepAliveVars>>

Request ==
  [kind : {"RegisterAppRequest", "StartSessionRequest", "CnRpdoRequest", "CnTimeRequest"},
   of : 0..NSensors,        \* the sensor of a CnRpdoRequest
   by : 1..MaxSessions]     \* the session whose goroutine has written it

TypeOK ==
  /\ pc \in {"dial", "register", "registerConfirm", "start", "startConfirm",
             "subscribe", "subscribeConfirm", "receive", "panicked"}
  /\ session \in 0..MaxSessions
  /\ link \in {"none", "up", "fin", "rst"}
  /\ gwIn \in Seq(Request)
  /\ gwSeen \in 0..Len(gwIn)
  /\ gwOut \in Seq(M!Kinds)
  /\ gwRead \in 0..Len(gwOut)
  /\ sensor \in 1..(NSensors + 1)
  /\ tries \in 0..(MaxReceives - 1)
  /\ keepers \subseteq 1..MaxSessions
  /\ ticks \in 0..MaxTicks

Init ==
  /\ pc = "dial"
  /\ session = 0
  /\ link = "none"
  /\ gwIn = <<>> /\ gwSeen = 0
  /\ gwOut = <<>> /\ gwRead = 0
  /\ sensor = 1 /\ tries = 0
  /\ keepers = {} /\ ticks = 0

-----------------------------------------------------------------------------
(* The gateway (outside the code): it answers in order, notifies of the    *)
(* sensors it was asked for, and may close or reset the connection.        *)

GatewayAnswer ==
  /\ link = "up"
  /\ gwSeen < Len(gwIn)
  /\ gwOut' = Append(gwOut, M!ResponseTypeFor(gwIn[gwSeen + 1].kind))
  /\ gwSeen' = gwSeen + 1
  /\ UNCHANGED <<pc, session, link, gwIn, gwRead, subscribeVars, keepAliveVars>>

GatewayNotify ==
  /\ link = "up"
  /\ \E i \in 1..Len(gwOut) : gwOut[i] = "CnRpdoConfirm"
  /\ Len(gwOut) - gwSeen < MaxNotes
  /\ gwOut' = Append(gwOut, "CnRpdoNotification")
  /\ UNCHANGED <<pc, session, link, gwIn, gwSeen, gwRead, subscribeVars, keepAliveVars>>

GatewayDrop ==
  /\ link = "up"
  /\ link' \in Faults
  /\ UNCHANGED <<pc, session, gwIn, gwSeen, gwOut, gwRead, subscribeVars, keepAliveVars>>

-----------------------------------------------------------------------------
(* startSession.  A dial that is refused is tried again after five         *)
(* seconds; any error returns, and Run dials again.                        *)

Dial ==
  /\ pc = "dial"
  /\ session < MaxSessions
  /\ session' = session + 1
  /\ link' = "up"
  /\ gwIn' = <<>> /\ gwSeen' = 0
  /\ gwOut' = <<>> /\ gwRead' = 0
  /\ pc' = "register"
  /\ UNCHANGED <<subscribeVars, keepAliveVars>>

(* conn.Write.  On a connection that the gateway has closed the first one  *)
(* may succeed, and what it writes is lost.                                *)
Writes(m) == gwIn' = IF link = "up" THEN Append(gwIn, m) ELSE gwIn

Write(m, next) ==
  /\ Writes(m)
  /\ \/ pc' = next
     \/ link # "up" /\ pc' = "dial"
  /\ UNCHANGED <<session, link, gwSeen, gwOut, gwRead, keepAliveVars>>

NextFrame == gwOut[gwRead + 1]

(* GetMessageFromSocket: the next frame, or, once all are read, the error  *)
(* of a connection that the gateway has ended.  A reset is reported to one *)
(* read or write and may take frames with it that are still unread; after  *)
(* that the connection reads as one that has ended.                        *)

FrameRead ==
  /\ gwRead < Len(gwOut)
  /\ gwRead' = gwRead + 1
  /\ UNCHANGED <<session, link, gwIn, gwSeen, gwOut, keepAliveVars>>

Eof == link \in {"fin", "rst"} /\ gwRead = Len(gwOut)

Failed ==
  /\ pc' = "dial"
  /\ UNCHANGED <<session, linkVars, subscribeVars, keepAliveVars>>

Register ==
  /\ pc = "register"
  /\ Write([kind |-> "RegisterAppRequest", of |-> 0, by |-> session], "registerConfirm")
  /\ UNCHANGED subscribeVars

(* Mutant: whatever comes first is taken for the confirmation. *)
RegisterAnyConfirm ==
  /\ pc = "registerConfirm"
  /\ FrameRead
  /\ pc' = "start"
  /\ UNCHANGED subscribeVars

(* Mutant: after any other frame the client registers again. *)
RegisterConfirmOrRetry ==
  /\ pc = "registerConfirm"
  /\ FrameRead
  /\ pc' = IF NextFrame = "RegisterAppConfirm" THEN "start" ELSE "register"
  /\ UNCHANGED subscribeVars

RegisterConfirm ==
  /\ pc = "registerConfirm"
  /\ FrameRead
  /\ pc' = IF NextFrame = "RegisterAppConfirm" THEN "start" ELSE "dial"
  /\ UNCHANGED subscribeVars

Start ==
  /\ pc = "start"
  /\ Write([kind |-> "StartSessionRequest", of |-> 0, by |-> session], "startConfirm")
  /\ UNCHANGED subscribeVars

(* The confirmation starts keepAlive and the first of the subscriptions. *)
StartConfirm ==
  /\ pc = "startConfirm"
  /\ gwRead < Len(gwOut)
  /\ gwRead' = gwRead + 1
  /\ IF NextFrame = "StartSessionConfirm"
       THEN /\ keepers' = keepers \cup {session}
            /\ pc' = "subscribe"
            /\ sensor' = 1
       ELSE /\ pc' = "dial"
            /\ UNCHANGED <<keepers, sensor>>
  /\ UNCHANGED <<session, link, gwIn, gwSeen, gwOut, tries, ticks>>

(* An error of a read in register or sessionRequest *)
ConfirmFails ==
  /\ pc \in {"registerConfirm", "startConfirm"}
  /\ Eof \/ link = "rst"
  /\ Failed

-----------------------------------------------------------------------------
(* subscribeAll and subscribe *)

Subscribe ==
  /\ pc = "subscribe"
  /\ sensor <= NSensors
  /\ Write([kind |-> "CnRpdoRequest", of |-> sensor, by |-> session], "subscribeConfirm")
  /\ tries' = 0
  /\ UNCHANGED sensor

Subscribed ==
  /\ pc = "subscribe"
  /\ sensor > NSensors
  /\ pc' = "receive"
  /\ UNCHANGED <<session, linkVars, subscribeVars, keepAliveVars>>

(* Mutant: the loop of subscribe makes one round more. *)
LastTryLate == tries = MaxReceives

(* Mutant: the loop of subscribe starts at one. *)
LastTryEarly == tries + 2 = MaxReceives

LastTry == tries + 1 = MaxReceives

SubscribeConfirm ==
  /\ pc = "subscribeConfirm"
  /\ FrameRead
  /\ IF NextFrame = "CnRpdoConfirm"
       THEN pc' = "subscribe" /\ sensor' = sensor + 1 /\ UNCHANGED tries
       ELSE /\ IF LastTry
                 THEN pc' = "dial" /\ UNCHANGED tries
                 ELSE tries' = tries + 1 /\ UNCHANGED pc
            /\ UNCHANGED sensor

(* receive returns the error of an end of file, and of nothing else: after *)
(* a reset it returns an empty message, whose type is a nil pointer.       *)
SubscribeEof ==
  /\ pc = "subscribeConfirm"
  /\ Eof
  /\ Failed

SubscribeReset ==
  /\ pc = "subscribeConfirm"
  /\ link = "rst"
  /\ pc' = "panicked"
  /\ UNCHANGED <<session, linkVars, subscribeVars, keepAliveVars>>

-----------------------------------------------------------------------------
(* The loop that receives measurements: an end of file ends the session,   *)
(* any other error is ignored.                                             *)

Receive ==
  /\ pc = "receive"
  /\ FrameRead
  /\ UNCHANGED <<pc, subscribeVars>>

(* Mutant: an end of file is ignored as the other errors are. *)
ReceiveEofIgnored ==
  /\ pc = "receive"
  /\ Eof
  /\ UNCHANGED vars

ReceiveEof ==
  /\ pc = "receive"
  /\ Eof
  /\ Failed

ReceiveReset ==
  /\ pc = "receive"
  /\ link = "rst"
  /\ link' = "fin"
  /\ gwRead' = Len(gwOut)
  /\ UNCHANGED <<pc, session, gwIn, gwSeen, gwOut, subscribeVars, keepAliveVars>>

-----------------------------------------------------------------------------
(* keepAlive, of session k: it writes to the connection the client has     *)
(* now.  Write never returns io.EOF, so that no error ends it.             *)
KeepAlive(k) ==
  /\ k \in keepers
  /\ ticks < MaxTicks
  /\ Writes([kind |-> "CnTimeRequest", of |-> 0, by |-> k])
  /\ ticks' = ticks + 1
  /\ UNCHANGED <<pc, session, link, gwSeen, gwOut, gwRead, subscribeVars, keepers>>

-----------------------------------------------------------------------------
StartSession ==
  \/ Dial \/ Register \/ RegisterConfirm \/ Start \/ StartConfirm \/ ConfirmFails
  \/ Subscribe \/ Subscribed \/ SubscribeConfirm \/ SubscribeEof \/ SubscribeReset
  \/ Receive \/ ReceiveEof \/ ReceiveReset

Next ==
  /\ pc # "panicked"
  /\ \/ StartSession
     \/ \E k \in 1..MaxSessions : KeepAlive(k)
     \/ GatewayAnswer \/ GatewayNotify \/ GatewayDrop

(* The goroutine of the sessions is scheduled, and the gateway answers.    *)
(* Nothing is assumed of the keep-alives and of the notifications.         *)
Fairness == WF_vars(pc # "panicked" /\ StartSession) /\ WF_vars(pc # "panicked" /\ GatewayAnswer)

Spec == Init /\ [][Next]_vars /\ Fairness

-----------------------------------------------------------------------------
IsKeepAlive(m) == m.kind = "CnTimeRequest"

(* Where the requests of the session itself are among what the gateway got *)
Own == {i \in 1..Len(gwIn) : ~IsKeepAlive(gwIn[i])}

(* What the client asks for in a session that goes well *)
Script ==
  [i \in 1..(NSensors + 2) |->
     [kind |-> CASE i = 1 -> "RegisterAppRequest"
                 [] i = 2 -> "StartSessionRequest"
                 [] OTHER -> "CnRpdoRequest",
      of |-> IF i > 2 THEN i - 2 ELSE 0,
      by |-> session]]

(* The place in the script of a request *)
Place(m) ==
  CASE m.kind = "RegisterAppRequest"  -> 1
    [] m.kind = "StartSessionRequest" -> 2
    [] OTHER -> m.of + 2

(* On every connection the gateway gets the registration, the session      *)
(* start and one subscription per sensor, in the order of the sensors,     *)
(* none twice and none left out, with only keep-alives in between.         *)
FollowsScript ==
  /\ \A i \in Own : gwIn[i] = Script[Place(gwIn[i])]
  /\ \A i, j \in Own : i < j => Place(gwIn[i]) < Place(gwIn[j])
  /\ \A j \in Own : \A n \in 1..(Place(gwIn[j]) - 1) : \E i \in Own : Place(gwIn[i]) = n

(* The client asks for one thing at a time: while the gateway has not      *)
(* answered a request of the session itself, there is no further one.      *)
OneRequestAtATime == \A i, j \in Own : i > gwSeen /\ j > gwSeen => i = j

(* How much of the script the client has written *)
Asked ==
  CASE pc = "register" -> 0
    [] pc \in {"registerConfirm", "start"} -> 1
    [] pc = "startConfirm" -> 2
    [] pc = "subscribe" -> sensor + 1
    [] pc = "subscribeConfirm" -> sensor + 2
    [] OTHER -> NSensors + 2

(* FollowsScript, made inductive: on a connection that is up the gateway   *)
(* has got of the script exactly what Run has written.                     *)
ScriptInv ==
  /\ FollowsScript
  /\ link = "up" /\ pc # "dial" =>
       \A n \in 1..(NSensors + 2) : n <= Asked <=> \E i \in Own : Place(gwIn[i]) = n

(* The gateway's confirmations of the script that the client has not read *)
Unread ==
  {i \in (gwRead + 1)..Len(gwOut) :
     gwOut[i] \in {"RegisterAppConfirm", "StartSessionConfirm", "CnRpdoConfirm"}}

Unanswered == {i \in Own : i > gwSeen}

(* OneRequestAtATime, made inductive: while the connection is up, either   *)
(* one request is unanswered or one confirmation is unread, and neither    *)
(* when the client is about to ask.                                        *)
AskingInv ==
  /\ OneRequestAtATime
  /\ link = "up" =>
       /\ \A i, j \in Unread : i = j
       /\ Unread = {} \/ Unanswered = {}
       /\ pc \in {"register", "start", "subscribe", "receive"} => Unread \cup Unanswered = {}

(* After the gateway has closed or reset the connection the client opens a *)
(* new one, wherever it was in the session, unless a reset comes while it  *)
(* waits for the confirmation of a subscription, which crashes it.         *)
Reconnects ==
  \A s \in 1..(MaxSessions - 1) :
    (session = s /\ link \in {"fin", "rst"}) ~> (session > s \/ pc = "panicked")

(* While the gateway keeps the connection, a session that has started      *)
(* subscribes to all sensors: keep-alives and notifications in between are *)
(* passed over, as long as there are fewer than ten for one confirm.       *)
AllSubscribed ==
  pc = "subscribe" /\ sensor = 1
    ~> pc = "receive" \/ link # "up" \/ tries = MaxReceives - 1

-----------------------------------------------------------------------------
(* "receive the confirmation for the registration": the first frame of the *)
(* gateway on a new connection is the answer to the registration.          *)
ConfirmIsNext ==
  pc = "registerConfirm" /\ gwOut # <<>> => gwOut[1] = "RegisterAppConfirm"
=============================================================================
