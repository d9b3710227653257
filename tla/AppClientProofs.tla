--------------------------- MODULE AppClientProofs ---------------------------
(***************************************************************************)
(* The sessions of cmd/client, for any number of sensors, sessions and     *)
(* keep-alives, and a gateway that closes or resets at any moment: each    *)
(* connection sees the script of a session, one request at a time.         *)
(***************************************************************************)
EXTENDS AppClient, SequenceTheorems, TLAPS

-----------------------------------------------------------------------------
(* The types *)

LEMMA AnswerKind ==
  ASSUME NEW kind
  PROVE  M!ResponseTypeFor(kind) \in M!Kinds
BY SMTT(30) DEF M!ResponseTypeFor, M!Kinds

LEMMA AppendTyped ==
  ASSUME NEW S, NEW q \in Seq(S), NEW m \in S
  PROVE  /\ Append(q, m) \in Seq(S)
         /\ Len(Append(q, m)) = Len(q) + 1
         /\ \A i \in 1..Len(q) : Append(q, m)[i] = q[i]
         /\ Append(q, m)[Len(q) + 1] = m
         /\ Len(q) \in Nat
OBVIOUS

(* Only before the first connection and when one has ended is there none. *)
Connected ==
  /\ session = 0 => pc = "dial"
  /\ pc = "subscribeConfirm" => sensor <= NSensors

TypeInv == TypeOK /\ Connected

(* Every write goes through Writes and leaves the connection as it is. *)
LEMMA WritesTyped ==
  ASSUME TypeOK, NEW m \in Request, Writes(m), UNCHANGED gwSeen
  PROVE  gwIn' \in Seq(Request) /\ gwSeen' \in 0..Len(gwIn')
<1>1. Append(gwIn, m) \in Seq(Request) /\ Len(Append(gwIn, m)) = Len(gwIn) + 1 /\ Len(gwIn) \in Nat
  BY AppendTyped, Zenon DEF TypeOK
<1>2. gwSeen \in 0..Len(gwIn)
  BY DEF TypeOK
<1>3. CASE link = "up"
  <2>1. gwIn' = Append(gwIn, m)
    BY <1>3 DEF Writes
  <2> QED
    BY <1>1, <1>2, <2>1
<1>4. CASE link # "up"
  BY <1>4 DEF Writes, TypeOK
<1> QED
  BY <1>3, <1>4

LEMMA AskTyped ==
  ASSUME TypeInv, pc \notin {"dial", "panicked"}, NEW k \in {"RegisterAppRequest", "StartSessionRequest", "CnRpdoRequest"},
         NEW s \in 0..NSensors
  PROVE  [kind |-> k, of |-> s, by |-> session] \in Request
BY AppClientAssumption DEF TypeInv, TypeOK, Connected, Request

LEMMA TypeStep == TypeInv /\ [Next]_vars => TypeInv'
<1> USE AppClientAssumption
<1> SUFFICES ASSUME TypeInv, [Next]_vars PROVE TypeInv'
  OBVIOUS
<1>t. TypeOK /\ Connected
  BY DEF TypeInv
<1>u. ASSUME UNCHANGED vars PROVE TypeInv'
  BY <1>t, <1>u DEF TypeInv, TypeOK, Connected, vars, linkVars, subscribeVars, keepAliveVars
<1>1. ASSUME GatewayAnswer PROVE TypeInv'
  <2>0. gwOut \in Seq(M!Kinds) /\ gwOut' = Append(gwOut, M!ResponseTypeFor(gwIn[gwSeen + 1].kind))
    BY <1>1, <1>t DEF GatewayAnswer, TypeOK
  <2>1. M!ResponseTypeFor(gwIn[gwSeen + 1].kind) \in M!Kinds
    BY AnswerKind, Zenon
  <2>2. /\ gwOut' \in Seq(M!Kinds)
        /\ Len(gwOut') = Len(gwOut) + 1
        /\ Len(gwOut) \in Nat
    BY <2>0, <2>1, AppendTyped, Zenon
  <2>3. Len(gwIn) \in Nat
    BY <1>t DEF TypeOK
  <2> QED
    BY <1>1, <1>t, <2>2, <2>3 DEF GatewayAnswer, TypeInv, TypeOK, Connected, subscribeVars, keepAliveVars
<1>2. ASSUME GatewayNotify PROVE TypeInv'
  <2>0. gwOut \in Seq(M!Kinds) /\ gwOut' = Append(gwOut, "CnRpdoNotification")
    BY <1>2, <1>t DEF GatewayNotify, TypeOK
  <2>1. "CnRpdoNotification" \in M!Kinds
    BY DEF M!Kinds
  <2>2. /\ gwOut' \in Seq(M!Kinds)
        /\ Len(gwOut') = Len(gwOut) + 1
        /\ Len(gwOut) \in Nat
    BY <2>0, <2>1, AppendTyped, Zenon
  <2> QED
    BY <1>2, <1>t, <2>2 DEF GatewayNotify, TypeInv, TypeOK, Connected, subscribeVars, keepAliveVars
<1>3. ASSUME GatewayDrop PROVE TypeInv'
  BY <1>3, <1>t DEF GatewayDrop, TypeInv, TypeOK, Connected, subscribeVars, keepAliveVars
<1>4. ASSUME Dial PROVE TypeInv'
  <2>1. <<>> \in Seq(Request) /\ <<>> \in Seq(M!Kinds) /\ Len(<<>>) = 0
    BY EmptySeq
  <2> QED
    BY <1>4, <1>t, <2>1 DEF Dial, TypeInv, TypeOK, Connected, subscribeVars, keepAliveVars
<1>5. ASSUME Register PROVE TypeInv'
  <2>1. [kind |-> "RegisterAppRequest", of |-> 0, by |-> session] \in Request
    BY <1>5, AskTyped DEF Register
  <2>2. gwIn' \in Seq(Request) /\ gwSeen' \in 0..Len(gwIn')
    BY <1>5, <1>t, <2>1, WritesTyped DEF Register, Write
  <2> QED
    BY <1>5, <1>t, <2>2 DEF Register, Write, TypeInv, TypeOK, Connected, subscribeVars, keepAliveVars
<1>6. ASSUME Start PROVE TypeInv'
  <2>1. [kind |-> "StartSessionRequest", of |-> 0, by |-> session] \in Request
    BY <1>6, AskTyped DEF Start
  <2>2. gwIn' \in Seq(Request) /\ gwSeen' \in 0..Len(gwIn')
    BY <1>6, <1>t, <2>1, WritesTyped DEF Start, Write
  <2> QED
    BY <1>6, <1>t, <2>2 DEF Start, Write, TypeInv, TypeOK, Connected, subscribeVars, keepAliveVars
<1>7. ASSUME Subscribe PROVE TypeInv'
  <2>0. sensor \in 0..NSensors
    BY <1>7, <1>t DEF Subscribe, TypeOK
  <2>1. [kind |-> "CnRpdoRequest", of |-> sensor, by |-> session] \in Request
    BY <1>7, <2>0, AskTyped DEF Subscribe
  <2>2. gwIn' \in Seq(Request) /\ gwSeen' \in 0..Len(gwIn')
    BY <1>7, <1>t, <2>1, WritesTyped DEF Subscribe, Write
  <2> QED
    BY <1>7, <1>t, <2>2 DEF Subscribe, Write, TypeInv, TypeOK, Connected, subscribeVars, keepAliveVars
<1>8. ASSUME NEW k \in 1..MaxSessions, KeepAlive(k) PROVE TypeInv'
  <2>1. [kind |-> "CnTimeRequest", of |-> 0, by |-> k] \in Request
    BY DEF Request
  <2>2. gwIn' \in Seq(Request) /\ gwSeen' \in 0..Len(gwIn')
    BY <1>8, <1>t, <2>1, WritesTyped DEF KeepAlive
  <2> QED
    BY <1>8, <1>t, <2>2 DEF KeepAlive, TypeInv, TypeOK, Connected, subscribeVars
<1>9. ASSUME RegisterConfirm \/ StartConfirm \/ SubscribeConfirm \/ Receive \/ ReceiveReset PROVE TypeInv'
  <2>1. gwRead' \in 0..Len(gwOut) /\ UNCHANGED <<gwIn, gwSeen, gwOut>>
    BY <1>9, <1>t DEF RegisterConfirm, StartConfirm, SubscribeConfirm, Receive, ReceiveReset, FrameRead, TypeOK
  <2>2. /\ pc' \in {"start", "dial", "subscribe", "subscribeConfirm", "receive"}
        /\ pc' = "subscribeConfirm" => pc = "subscribeConfirm" /\ UNCHANGED sensor
        /\ link' \in {link, "fin"} /\ UNCHANGED <<session, ticks>>
        /\ keepers' \in {keepers, keepers \cup {session}} /\ pc # "dial"
    BY <1>9, <1>t DEF RegisterConfirm, StartConfirm, SubscribeConfirm, Receive, ReceiveReset, FrameRead,
         subscribeVars, keepAliveVars, TypeOK
  <2>3. tries' \in 0..(MaxReceives - 1)
    BY <1>9, <1>t DEF RegisterConfirm, StartConfirm, SubscribeConfirm, Receive, ReceiveReset, LastTry, TypeOK, subscribeVars
  <2>4. sensor' \in 1..(NSensors + 1)
    BY <1>9, <1>t DEF RegisterConfirm, StartConfirm, SubscribeConfirm, Receive, ReceiveReset, TypeOK, Connected, subscribeVars
  <2>5. link' \in {"none", "up", "fin", "rst"} /\ keepers' \subseteq 1..MaxSessions
    BY <1>t, <2>2 DEF TypeOK, Connected
  <2>6. Connected'
    BY <1>t, <2>2 DEF Connected
  <2>7. TypeOK'
    BY <1>t, <2>1, <2>2, <2>3, <2>4, <2>5 DEF TypeOK
  <2> QED
    BY <2>6, <2>7 DEF TypeInv
<1>10. ASSUME ConfirmFails \/ Subscribed \/ SubscribeEof \/ SubscribeReset \/ ReceiveEof PROVE TypeInv'
  BY <1>10, <1>t DEF ConfirmFails, Subscribed, SubscribeEof, SubscribeReset, ReceiveEof, Failed,
       TypeInv, TypeOK, Connected, linkVars, subscribeVars, keepAliveVars
<1> QED
  BY <1>u, <1>1, <1>2, <1>3, <1>4, <1>5, <1>6, <1>7, <1>8, <1>9, <1>10 DEF Next, StartSession

LEMMA Typed == Spec => []TypeInv
<1>1. Init => TypeInv
  BY AppClientAssumption, EmptySeq DEF Init, TypeInv, TypeOK, Connected
<1> QED
  BY <1>1, TypeStep, PTL DEF Spec

(* The variables of the client keep their types, with any number of        *)
(* sessions: the counter of the tries never leaves its loop, a sensor is   *)
(* subscribed only while one is left.                                      *)
THEOREM TypeCorrect == Spec => []TypeOK
<1>1. TypeInv => TypeOK
  BY DEF TypeInv
<1> QED
  BY <1>1, Typed, PTL

-----------------------------------------------------------------------------
(* What the gateway got, when one frame is added to it *)

LEMMA OwnTyped ==
  ASSUME TypeOK, NEW i \in Own
  PROVE  /\ i \in 1..Len(gwIn) /\ gwIn[i] \in Request /\ ~IsKeepAlive(gwIn[i])
         /\ Place(gwIn[i]) \in 1..(NSensors + 2)
<1>1. i \in 1..Len(gwIn) /\ ~IsKeepAlive(gwIn[i]) /\ gwIn \in Seq(Request)
  BY DEF Own, TypeOK
<1>2. gwIn[i] \in Request
  BY <1>1, ElementOfSeq, Zenon
<1> QED
  BY <1>1, <1>2, AppClientAssumption DEF Request, Place, IsKeepAlive

LEMMA Appended ==
  ASSUME TypeOK, NEW m \in Request, gwIn' = Append(gwIn, m)
  PROVE  /\ Len(gwIn) \in Nat /\ Len(gwIn') = Len(gwIn) + 1
         /\ \A i \in 1..Len(gwIn) : gwIn'[i] = gwIn[i]
         /\ gwIn'[Len(gwIn) + 1] = m
         /\ Own' = Own \cup (IF IsKeepAlive(m) THEN {} ELSE {Len(gwIn) + 1})
<1>1. gwIn \in Seq(Request)
  BY DEF TypeOK
<1>2. /\ Len(gwIn) \in Nat /\ Len(gwIn') = Len(gwIn) + 1
      /\ \A i \in 1..Len(gwIn) : gwIn'[i] = gwIn[i]
      /\ gwIn'[Len(gwIn) + 1] = m
  BY <1>1, AppendTyped, Zenon
<1>3. ASSUME NEW i
      PROVE  i \in Own' <=> i \in Own \cup (IF IsKeepAlive(m) THEN {} ELSE {Len(gwIn) + 1})
  <2>1. i \in Own' <=> i \in 1..Len(gwIn') /\ ~IsKeepAlive(gwIn'[i])
    BY Zenon DEF Own
  <2>2. i \in Own <=> i \in 1..Len(gwIn) /\ ~IsKeepAlive(gwIn[i])
    BY Zenon DEF Own
  <2>3. i \in 1..Len(gwIn') <=> i \in 1..Len(gwIn) \/ i = Len(gwIn) + 1
    BY <1>2
  <2>4. Len(gwIn) + 1 \notin 1..Len(gwIn)
    BY <1>2
  <2> QED
    BY <1>2, <2>1, <2>2, <2>3, <2>4
<1> QED
  BY <1>2, <1>3

-----------------------------------------------------------------------------
(* The script *)

LEMMA ScriptPlaces ==
  ASSUME NEW n \in 1..(NSensors + 2)
  PROVE  Place(Script[n]) = n
BY AppClientAssumption DEF Place, Script

(* A frame of a keepAlive goroutine changes nothing. *)
LEMMA KeepAliveKeeps ==
  ASSUME TypeOK, ScriptInv, NEW m \in Request, IsKeepAlive(m), Writes(m),
         UNCHANGED <<session, link, pc, sensor>>
  PROVE  ScriptInv'
<1>1. CASE link = "up"
  <2>1. gwIn' = Append(gwIn, m)
    BY <1>1 DEF Writes
  <2>2. Own' = Own /\ \A i \in Own : gwIn'[i] = gwIn[i]
    BY <2>1, Appended, OwnTyped
  <2>3. Script' = Script /\ Asked' = Asked
    BY DEF Script, Asked
  <2> QED
    BY <2>2, <2>3 DEF ScriptInv, FollowsScript, Place
<1>2. CASE link # "up"
  BY <1>2 DEF Writes, ScriptInv, FollowsScript, Own, Script, Place, IsKeepAlive
<1> QED
  BY <1>1, <1>2

(* A request of the session is the next of the script. *)
LEMMA AskKeeps ==
  ASSUME TypeOK, ScriptInv, pc # "dial", NEW m \in Request, ~IsKeepAlive(m), Writes(m),
         UNCHANGED <<session, link>>,
         Asked \in 0..(NSensors + 1), m = Script[Asked + 1],
         pc' # "dial" => Asked' = Asked + 1
  PROVE  ScriptInv'
<1> DEFINE k == Asked
           l == Len(gwIn) + 1
<1>s. Script' = Script
  BY DEF Script
<1>1. CASE link = "up"
  <2>1. gwIn' = Append(gwIn, m)
    BY <1>1 DEF Writes
  <2>2. Own' = Own \cup {l} /\ gwIn'[l] = m
    BY <2>1, Appended
  <2>3. ASSUME NEW i \in Own
        PROVE  /\ gwIn'[i] = gwIn[i] /\ i < l /\ l \in Nat /\ i \in Nat
               /\ Place(gwIn[i]) \in 1..(NSensors + 2)
    BY <2>1, Appended, OwnTyped
  <2>4. k \in 0..(NSensors + 1) /\ NSensors \in Nat
    BY AppClientAssumption
  <2>p. Place(m) = k + 1
    BY <2>4, ScriptPlaces
  <2>5. \A n \in 1..(NSensors + 2) : n <= k <=> \E i \in Own : Place(gwIn[i]) = n
    BY <1>1 DEF ScriptInv
  <2>f. FollowsScript
    BY DEF ScriptInv
  <2> DEFINE At(i) == Place(gwIn'[i])
  <2>6. /\ At(l) = k + 1
        /\ \A i \in Own : At(i) = Place(gwIn[i])
    BY <2>2, <2>3, <2>p, Zenon
  <2>7. \A i \in Own : At(i) <= k
    BY <2>3, <2>5, <2>6
  <2> HIDE DEF k
  <2>8. \A i \in Own' : gwIn'[i] = Script'[At(i)]
    BY <1>s, <2>2, <2>3, <2>6, <2>f DEF FollowsScript, k
  <2>9. \A i, j \in Own' : i < j => At(i) < At(j)
    <3> SUFFICES ASSUME NEW i \in Own', NEW j \in Own', i < j PROVE At(i) < At(j)
      OBVIOUS
    <3>1. CASE i \in Own /\ j \in Own
      BY <3>1, <2>6, <2>f DEF FollowsScript
    <3>2. CASE i \in Own /\ j = l
      <4>1. At(i) <= k /\ At(i) \in Nat
        BY <3>2, <2>3, <2>6, <2>7
      <4> QED
        BY <3>2, <2>4, <2>6, <4>1
    <3>3. i # l
      BY <2>2, <2>3
    <3> QED
      BY <2>2, <3>1, <3>2, <3>3
  <2>10. \A n \in 1..(NSensors + 2) : n <= k + 1 <=> \E i \in Own' : At(i) = n
    <3> SUFFICES ASSUME NEW n \in 1..(NSensors + 2)
                 PROVE  n <= k + 1 <=> \E i \in Own' : At(i) = n
      OBVIOUS
    <3>1. (\E i \in Own' : At(i) = n) <=> (n = k + 1 \/ \E i \in Own : Place(gwIn[i]) = n)
      BY <2>2, <2>6
    <3>2. n <= k <=> \E i \in Own : Place(gwIn[i]) = n
      BY <2>5
    <3>3. n <= k + 1 <=> n <= k \/ n = k + 1
      BY <2>4
    <3> QED
      BY <3>1, <3>2, <3>3
  <2>11. \A j \in Own' : At(j) \in 1..(NSensors + 2) /\ At(j) <= k + 1
    BY <2>2, <2>3, <2>4, <2>6, <2>7
  <2>12. \A j \in Own' : \A n \in 1..(At(j) - 1) : \E i \in Own' : At(i) = n
    <3> SUFFICES ASSUME NEW j \in Own', NEW n \in 1..(At(j) - 1)
                 PROVE  \E i \in Own' : At(i) = n
      OBVIOUS
    <3>1. At(j) \in 1..(NSensors + 2) /\ At(j) <= k + 1
      BY <2>11
    <3>2. n \in 1..(NSensors + 2) /\ n <= k + 1
      BY <3>1, <2>4
    <3> QED
      BY <2>10, <3>2
  <2>13. FollowsScript'
    BY <2>8, <2>9, <2>12 DEF FollowsScript, Place
  <2>14. pc' # "dial" => Asked' = k + 1
    BY DEF k
  <2>15. pc' # "dial" => \A n \in 1..(NSensors + 2) : n <= Asked' <=> \E i \in Own' : Place(gwIn'[i]) = n
    BY <2>10, <2>14
  <2> QED
    BY <2>13, <2>15 DEF ScriptInv, Place
<1>2. CASE link # "up"
  BY <1>2, <1>s DEF Writes, ScriptInv, FollowsScript, Own, Place, IsKeepAlive
<1> QED
  BY <1>1, <1>2

(* Every other step leaves alone what the gateway got. *)
LEMMA ScriptKept ==
  ASSUME ScriptInv, UNCHANGED <<gwIn, session>>, link' = "up" => link = "up",
         link' = "up" /\ pc' # "dial" => pc # "dial" /\ Asked' = Asked
  PROVE  ScriptInv'
<1>1. Own' = Own /\ Script' = Script
  BY DEF Own, Script, IsKeepAlive
<1>2. FollowsScript'
  BY <1>1 DEF ScriptInv, FollowsScript, Place
<1>3. link' = "up" /\ pc' # "dial" =>
        \A n \in 1..(NSensors + 2) : n <= Asked' <=> \E i \in Own' : Place(gwIn'[i]) = n
  BY <1>1 DEF ScriptInv, Place
<1> QED
  BY <1>2, <1>3 DEF ScriptInv

LEMMA ScriptStep == TypeInv /\ ScriptInv /\ [Next]_vars => ScriptInv'
<1> USE AppClientAssumption
<1> SUFFICES ASSUME TypeInv, ScriptInv, [Next]_vars PROVE ScriptInv'
  OBVIOUS
<1>t. TypeOK /\ Connected
  BY DEF TypeInv
<1>u. ASSUME UNCHANGED vars PROVE ScriptInv'
  BY <1>u, ScriptKept DEF vars, linkVars, subscribeVars, Asked
<1>1. ASSUME GatewayAnswer \/ GatewayNotify PROVE ScriptInv'
  BY <1>1, ScriptKept DEF GatewayAnswer, GatewayNotify, subscribeVars, Asked
<1>2. ASSUME GatewayDrop PROVE ScriptInv'
  BY <1>2, ScriptKept DEF GatewayDrop, subscribeVars, Asked
<1>3. ASSUME Dial PROVE ScriptInv'
  <2>1. gwIn' = <<>> /\ pc' = "register"
    BY <1>3 DEF Dial
  <2>2. Own' = {}
    BY <2>1 DEF Own
  <2>3. Asked' = 0
    BY <2>1 DEF Asked
  <2>4. FollowsScript'
    BY <2>2, Zenon DEF FollowsScript
  <2>5. \A n \in 1..(NSensors + 2) : ~(n <= Asked')
    BY <2>3
  <2> QED
    BY <2>2, <2>4, <2>5 DEF ScriptInv
<1>4. ASSUME Register PROVE ScriptInv'
  <2> DEFINE m == [kind |-> "RegisterAppRequest", of |-> 0, by |-> session]
  <2>1. m \in Request /\ ~IsKeepAlive(m)
    BY <1>4, AskTyped DEF Register, IsKeepAlive
  <2>2. Asked = 0 /\ m = Script[1] /\ (pc' # "dial" => Asked' = 1)
    BY <1>4 DEF Register, Write, Asked, Script
  <2>3. Writes(m) /\ UNCHANGED <<session, link>> /\ pc # "dial"
    BY <1>4 DEF Register, Write
  <2> QED
    BY <1>t, <2>1, <2>2, <2>3, AskKeeps
<1>5. ASSUME Start PROVE ScriptInv'
  <2> DEFINE m == [kind |-> "StartSessionRequest", of |-> 0, by |-> session]
  <2>1. m \in Request /\ ~IsKeepAlive(m)
    BY <1>5, AskTyped DEF Start, IsKeepAlive
  <2>2. Asked = 1 /\ m = Script[2] /\ (pc' # "dial" => Asked' = 2)
    BY <1>5 DEF Start, Write, Asked, Script
  <2>3. Writes(m) /\ UNCHANGED <<session, link>> /\ pc # "dial"
    BY <1>5 DEF Start, Write
  <2> QED
    BY <1>t, <2>1, <2>2, <2>3, AskKeeps
<1>6. ASSUME Subscribe PROVE ScriptInv'
  <2> DEFINE m == [kind |-> "CnRpdoRequest", of |-> sensor, by |-> session]
  <2>0. sensor \in 1..NSensors
    BY <1>6, <1>t DEF Subscribe, TypeOK
  <2>1. m \in Request /\ ~IsKeepAlive(m)
    BY <1>6, <2>0, AskTyped DEF Subscribe, IsKeepAlive
  <2>2. Asked = sensor + 1 /\ m = Script[sensor + 2] /\ (pc' # "dial" => Asked' = sensor + 2)
    BY <1>6, <2>0 DEF Subscribe, Write, Asked, Script
  <2>3. Writes(m) /\ UNCHANGED <<session, link>> /\ pc # "dial"
    BY <1>6 DEF Subscribe, Write
  <2> QED
    BY <1>t, <2>0, <2>1, <2>2, <2>3, AskKeeps
<1>7. ASSUME NEW k \in 1..MaxSessions, KeepAlive(k) PROVE ScriptInv'
  <2> DEFINE m == [kind |-> "CnTimeRequest", of |-> 0, by |-> k]
  <2>1. m \in Request /\ IsKeepAlive(m)
    BY DEF Request, IsKeepAlive
  <2>2. Writes(m) /\ UNCHANGED <<session, link, pc, sensor>>
    BY <1>7 DEF KeepAlive, subscribeVars
  <2> QED
    BY <1>t, <2>1, <2>2, KeepAliveKeeps
<1>8. ASSUME RegisterConfirm \/ StartConfirm \/ SubscribeConfirm \/ Receive \/ ReceiveReset PROVE ScriptInv'
  <2>1. UNCHANGED <<gwIn, session>> /\ (link' = "up" => link = "up")
    BY <1>8 DEF RegisterConfirm, StartConfirm, SubscribeConfirm, Receive, ReceiveReset, FrameRead
  <2>2. pc' # "dial" => pc # "dial" /\ Asked' = Asked
    <3>t. sensor \in Nat
      BY <1>t DEF TypeOK
    <3>1. CASE RegisterConfirm
      BY <3>1 DEF RegisterConfirm, Asked
    <3>2. CASE StartConfirm
      BY <3>2 DEF StartConfirm, Asked
    <3>3. CASE SubscribeConfirm
      BY <3>3, <3>t DEF SubscribeConfirm, Asked
    <3>4. CASE Receive \/ ReceiveReset
      BY <3>4 DEF Receive, ReceiveReset, Asked, subscribeVars
    <3> QED
      BY <1>8, <3>1, <3>2, <3>3, <3>4
  <2> QED
    BY <2>1, <2>2, ScriptKept
<1>9. ASSUME ConfirmFails \/ SubscribeEof \/ ReceiveEof \/ SubscribeReset PROVE ScriptInv'
  <2>1. UNCHANGED <<gwIn, session, link>>
    BY <1>9 DEF ConfirmFails, SubscribeEof, ReceiveEof, SubscribeReset, Failed, linkVars
  <2>2. pc' # "dial" => link' # "up"
    BY <1>9 DEF ConfirmFails, SubscribeEof, ReceiveEof, SubscribeReset, Failed, linkVars
  <2> QED
    BY <2>1, <2>2, ScriptKept
<1>10. ASSUME Subscribed PROVE ScriptInv'
  <2>1. UNCHANGED <<gwIn, session, link>> /\ pc # "dial"
    BY <1>10 DEF Subscribed, linkVars
  <2>2. Asked' = Asked
    BY <1>10, <1>t DEF Subscribed, Asked, TypeOK, subscribeVars
  <2> QED
    BY <2>1, <2>2, ScriptKept
<1> QED
  BY <1>u, <1>1, <1>2, <1>3, <1>4, <1>5, <1>6, <1>7, <1>8, <1>9, <1>10 DEF Next, StartSession

LEMMA ScriptKnown == Spec => []ScriptInv
<1>1. Init => ScriptInv
  BY DEF Init, ScriptInv, FollowsScript, Own
<1> QED
  BY <1>1, Typed, ScriptStep, PTL DEF Spec

(* For any number of sensors and sessions: each connection sees the        *)
(* registration, the session start and the subscriptions in order, with    *)
(* none left out and none twice, whichever keep-alives of earlier sessions *)
(* fall in between and wherever the connection ends.                       *)
THEOREM ScriptFollowed == Spec => []FollowsScript
<1>1. ScriptInv => FollowsScript
  BY DEF ScriptInv
<1> QED
  BY <1>1, ScriptKnown, PTL

-----------------------------------------------------------------------------
(* One request at a time *)

Asking == {"register", "start", "subscribe", "receive"}

(* Nothing more is unanswered or unread than before. *)
LEMMA AskingKept ==
  ASSUME AskingInv, Own' = Own, gwSeen' = gwSeen, link' = "up" => link = "up",
         link' = "up" => Unread' \subseteq Unread,
         link' = "up" /\ pc' \in Asking => pc \in Asking \/ Unread' \cup Unanswered = {}
  PROVE  AskingInv'
<1>1. OneRequestAtATime' /\ Unanswered' = Unanswered
  BY DEF AskingInv, OneRequestAtATime, Unanswered
<1>2. ASSUME link' = "up"
      PROVE  /\ \A i, j \in Unread' : i = j
             /\ Unread' = {} \/ Unanswered' = {}
             /\ pc' \in Asking => Unread' \cup Unanswered' = {}
  <2>1. Unread' \subseteq Unread /\ link = "up"
    BY <1>2
  <2>2. /\ \A i, j \in Unread : i = j
        /\ Unread = {} \/ Unanswered = {}
        /\ pc \in Asking => Unread \cup Unanswered = {}
    BY <2>1 DEF AskingInv, Asking
  <2> QED
    BY <1>1, <1>2, <2>1, <2>2
<1> QED
  BY <1>1, <1>2 DEF AskingInv, Asking

LEMMA NoConfirm ==
  \A kind : M!ResponseTypeFor(kind) \in {"RegisterAppConfirm", "StartSessionConfirm", "CnRpdoConfirm"}
              => kind # "CnTimeRequest"
BY DEF M!ResponseTypeFor

(* The gateway writes a frame of that kind. *)
LEMMA UnreadGrows ==
  ASSUME TypeOK, NEW kind \in M!Kinds, gwOut' = Append(gwOut, kind), gwRead' = gwRead
  PROVE  /\ Unread' \subseteq Unread \cup {Len(gwOut) + 1}
         /\ kind \notin {"RegisterAppConfirm", "StartSessionConfirm", "CnRpdoConfirm"} => Unread' = Unread
<1>1. /\ Len(gwOut) \in Nat /\ Len(gwOut') = Len(gwOut) + 1
      /\ \A i \in 1..Len(gwOut) : gwOut'[i] = gwOut[i]
      /\ gwOut'[Len(gwOut) + 1] = kind
  <2>1. gwOut \in Seq(M!Kinds)
    BY DEF TypeOK
  <2> QED
    BY <2>1, AppendTyped, Zenon
<1>2. gwRead \in 0..Len(gwOut)
  BY DEF TypeOK
<1>3. \A i \in (gwRead + 1)..Len(gwOut') : i = Len(gwOut) + 1 \/ i \in (gwRead + 1)..Len(gwOut)
  BY <1>1, <1>2
<1>4. \A i \in (gwRead + 1)..Len(gwOut) :
        i \in (gwRead + 1)..Len(gwOut') /\ i \in 1..Len(gwOut) /\ i # Len(gwOut) + 1
  BY <1>1, <1>2
<1>5. Unread' \subseteq Unread \cup {Len(gwOut) + 1}
  BY <1>1, <1>3, <1>4 DEF Unread
<1>6. Unread \subseteq Unread'
  BY <1>1, <1>4 DEF Unread
<1>7. kind \notin {"RegisterAppConfirm", "StartSessionConfirm", "CnRpdoConfirm"} => Len(gwOut) + 1 \notin Unread'
  BY <1>1 DEF Unread
<1> QED
  BY <1>5, <1>6, <1>7

(* The client reads a frame; a confirmation was the only one unread, and   *)
(* then nothing is unanswered.                                             *)
LEMMA UnreadShrinks ==
  ASSUME TypeOK, AskingInv, gwRead < Len(gwOut), gwRead' = gwRead + 1,
         UNCHANGED <<link, gwIn, gwSeen, gwOut>>
  PROVE  /\ Own' = Own /\ gwSeen' = gwSeen /\ link' = link
         /\ Unread' \subseteq Unread
         /\ link = "up" /\ NextFrame \in {"RegisterAppConfirm", "StartSessionConfirm", "CnRpdoConfirm"}
              => Unread' \cup Unanswered = {}
<1>1. Own' = Own /\ gwSeen' = gwSeen /\ link' = link /\ gwOut' = gwOut /\ gwRead' = gwRead + 1 /\ gwRead < Len(gwOut)
  BY DEF Own
<1>2. gwRead \in Nat /\ Len(gwOut) \in Nat
  BY DEF TypeOK
<1>3. Unread' \subseteq Unread
  BY <1>1, <1>2 DEF Unread
<1>4. ASSUME link = "up", NextFrame \in {"RegisterAppConfirm", "StartSessionConfirm", "CnRpdoConfirm"}
      PROVE  Unread' \cup Unanswered = {}
  <2>1. gwRead + 1 \in Unread
    BY <1>1, <1>2, <1>4 DEF Unread, NextFrame
  <2>2. gwRead + 1 \notin Unread'
    BY <1>1, <1>2 DEF Unread
  <2>3. Unanswered = {} /\ \A i, j \in Unread : i = j
    BY <1>4, <2>1 DEF AskingInv
  <2> QED
    BY <1>3, <2>1, <2>2, <2>3
<1> QED
  BY <1>1, <1>3, <1>4

LEMMA AskAlone ==
  ASSUME TypeOK, AskingInv, NEW m \in Request, Writes(m), UNCHANGED <<gwSeen, gwOut, gwRead, link>>,
         IsKeepAlive(m) => pc' = pc,
         ~IsKeepAlive(m) => pc \in Asking /\ pc' \notin Asking
  PROVE  AskingInv'
<1>u. Unread' = Unread
  BY DEF Unread
<1>1. CASE link = "up" /\ IsKeepAlive(m)
  <2>1. gwIn' = Append(gwIn, m)
    BY <1>1 DEF Writes
  <2>2. Own' = Own
    BY <1>1, <2>1, Appended
  <2>3. pc' = pc /\ (link = "up" /\ pc \in Asking => Unread \cup Unanswered = {})
    BY <1>1 DEF AskingInv, Asking
  <2> QED
    BY <1>1, <1>u, <2>2, <2>3, AskingKept
<1>2. CASE link = "up" /\ ~IsKeepAlive(m)
  <2> DEFINE l == Len(gwIn) + 1
  <2>1. gwIn' = Append(gwIn, m)
    BY <1>2 DEF Writes
  <2>2. Own' = Own \cup {l}
    BY <1>2, <2>1, Appended
  <2>3. Unread = {} /\ Unanswered = {}
    BY <1>2 DEF AskingInv, Asking
  <2>4. \A i \in Own' : i > gwSeen' => i = l
    BY <2>2, <2>3 DEF Unanswered
  <2>5. OneRequestAtATime'
    BY <2>4 DEF OneRequestAtATime
  <2> QED
    BY <1>u, <1>2, <2>3, <2>5 DEF AskingInv, Asking
<1>3. CASE link # "up"
  <2>1. Own' = Own
    BY <1>3 DEF Writes, Own
  <2> QED
    BY <1>3, <1>u, <2>1, AskingKept
<1> QED
  BY <1>1, <1>2, <1>3

LEMMA AskingStep == TypeInv /\ AskingInv /\ [Next]_vars => AskingInv'
<1> USE AppClientAssumption
<1> SUFFICES ASSUME TypeInv, AskingInv, [Next]_vars PROVE AskingInv'
  OBVIOUS
<1>t. TypeOK /\ Connected
  BY DEF TypeInv
<1>q. link = "up" /\ pc \in Asking => Unread \cup Unanswered = {}
  BY DEF AskingInv, Asking
<1>u. ASSUME UNCHANGED <<link, gwIn, gwSeen, gwOut, gwRead>>, pc' \in Asking => pc \in Asking \/ link # "up" PROVE AskingInv'
  <2>1. Own' = Own /\ Unread' = Unread
    BY <1>u DEF Own, Unread
  <2> QED
    BY <1>u, <2>1, AskingKept
<1>1. ASSUME GatewayAnswer PROVE AskingInv'
  <2> DEFINE a == gwSeen + 1
             kind == M!ResponseTypeFor(gwIn[a].kind)
  <2>1. kind \in M!Kinds /\ gwOut' = Append(gwOut, kind) /\ gwRead' = gwRead
    BY <1>1, AnswerKind DEF GatewayAnswer
  <2>2. /\ Unread' \subseteq Unread \cup {Len(gwOut) + 1}
        /\ kind \notin {"RegisterAppConfirm", "StartSessionConfirm", "CnRpdoConfirm"} => Unread' = Unread
    BY <1>t, <2>1, UnreadGrows
  <2>3. Own' = Own /\ gwSeen' = a /\ link = "up" /\ link' = link /\ pc' = pc /\ gwSeen < Len(gwIn)
    BY <1>1 DEF GatewayAnswer, Own
  <2>4. gwSeen \in Nat /\ Len(gwIn) \in Nat /\ a \in 1..Len(gwIn)
    BY <1>t, <2>3 DEF TypeOK
  <2>5. OneRequestAtATime'
    BY <2>3, <2>4 DEF AskingInv, OneRequestAtATime, Own
  <2>6. Unanswered' = Unanswered \ {a}
    BY <2>3, <2>4 DEF Unanswered, Own
  <2>7. CASE IsKeepAlive(gwIn[a])
    <3>1. a \notin Unanswered
      BY <2>7 DEF Unanswered, Own
    <3>2. kind \notin {"RegisterAppConfirm", "StartSessionConfirm", "CnRpdoConfirm"}
      BY <2>7, NoConfirm DEF IsKeepAlive
    <3>3. Unread' = Unread /\ Unanswered' = Unanswered
      BY <2>2, <2>6, <3>1, <3>2
    <3> QED
      BY <2>3, <2>5, <3>3 DEF AskingInv
  <2>8. CASE ~IsKeepAlive(gwIn[a])
    <3>1. a \in Unanswered
      BY <2>4, <2>8 DEF Unanswered, Own
    <3>2. Unread = {} /\ Unanswered \subseteq {a}
      BY <2>3, <3>1 DEF AskingInv, OneRequestAtATime, Unanswered
    <3>3. Unanswered' = {} /\ \A i, j \in Unread' : i = j
      BY <2>2, <2>6, <3>2
    <3>4. pc' \notin Asking
      BY <1>q, <2>3, <3>1
    <3> QED
      BY <2>5, <3>3, <3>4 DEF AskingInv, Asking
  <2> QED
    BY <2>7, <2>8
<1>2. ASSUME GatewayNotify PROVE AskingInv'
  <2>1. "CnRpdoNotification" \in M!Kinds
    BY DEF M!Kinds
  <2>2. gwOut' = Append(gwOut, "CnRpdoNotification") /\ gwRead' = gwRead
    BY <1>2 DEF GatewayNotify
  <2>3. Unread' = Unread
    BY <1>t, <2>1, <2>2, UnreadGrows
  <2>4. Own' = Own /\ gwSeen' = gwSeen /\ link' = link /\ pc' = pc
    BY <1>2 DEF GatewayNotify, Own
  <2> QED
    BY <2>3, <2>4, AskingKept
<1>3. ASSUME GatewayDrop PROVE AskingInv'
  <2>1. Own' = Own /\ gwSeen' = gwSeen /\ link' # "up"
    BY <1>3 DEF GatewayDrop, Own
  <2> QED
    BY <2>1, AskingKept
<1>4. ASSUME Dial PROVE AskingInv'
  <2>1. gwIn' = <<>> /\ gwOut' = <<>> /\ gwRead' = 0
    BY <1>4 DEF Dial
  <2>2. Own' = {} /\ Unread' = {}
    BY <2>1 DEF Own, Unread
  <2> QED
    BY <2>2 DEF AskingInv, OneRequestAtATime, Unanswered
<1>5. ASSUME Register \/ Start \/ Subscribe PROVE AskingInv'
  <2>1. PICK m \in Request :
          /\ ~IsKeepAlive(m) /\ Writes(m)
          /\ UNCHANGED <<gwSeen, gwOut, gwRead, link>>
          /\ pc \in Asking /\ pc' \notin Asking
    <3>1. CASE Register
      <4>1. [kind |-> "RegisterAppRequest", of |-> 0, by |-> session] \in Request
        BY <3>1, AskTyped DEF Register
      <4> QED
        BY <3>1, <4>1 DEF Register, Write, IsKeepAlive, Asking
    <3>2. CASE Start
      <4>1. [kind |-> "StartSessionRequest", of |-> 0, by |-> session] \in Request
        BY <3>2, AskTyped DEF Start
      <4> QED
        BY <3>2, <4>1 DEF Start, Write, IsKeepAlive, Asking
    <3>3. CASE Subscribe
      <4>0. sensor \in 0..NSensors
        BY <3>3, <1>t DEF Subscribe, TypeOK
      <4>1. [kind |-> "CnRpdoRequest", of |-> sensor, by |-> session] \in Request
        BY <3>3, <4>0, AskTyped DEF Subscribe
      <4> QED
        BY <3>3, <4>1 DEF Subscribe, Write, IsKeepAlive, Asking
    <3> QED
      BY <1>5, <3>1, <3>2, <3>3
  <2> QED
    BY <1>t, <2>1, AskAlone
<1>6. ASSUME NEW k \in 1..MaxSessions, KeepAlive(k) PROVE AskingInv'
  <2> DEFINE m == [kind |-> "CnTimeRequest", of |-> 0, by |-> k]
  <2>1. m \in Request /\ IsKeepAlive(m)
    BY DEF Request, IsKeepAlive
  <2>2. Writes(m) /\ UNCHANGED <<gwSeen, gwOut, gwRead, link, pc>>
    BY <1>6 DEF KeepAlive
  <2> QED
    BY <1>t, <2>1, <2>2, AskAlone
<1>7. ASSUME RegisterConfirm \/ StartConfirm \/ SubscribeConfirm \/ Receive PROVE AskingInv'
  <2>1. gwRead < Len(gwOut) /\ gwRead' = gwRead + 1 /\ UNCHANGED <<link, gwIn, gwSeen, gwOut>>
    BY <1>7 DEF RegisterConfirm, StartConfirm, SubscribeConfirm, Receive, FrameRead
  <2>2. /\ Own' = Own /\ gwSeen' = gwSeen /\ link' = link
        /\ Unread' \subseteq Unread
        /\ link = "up" /\ NextFrame \in {"RegisterAppConfirm", "StartSessionConfirm", "CnRpdoConfirm"}
             => Unread' \cup Unanswered = {}
    BY <1>t, <2>1, UnreadShrinks
  <2>3. pc' \in Asking =>
          \/ pc \in Asking
          \/ NextFrame \in {"RegisterAppConfirm", "StartSessionConfirm", "CnRpdoConfirm"}
    BY <1>7 DEF RegisterConfirm, StartConfirm, SubscribeConfirm, Receive, Asking
  <2> QED
    BY <2>2, <2>3, AskingKept
<1>8. ASSUME ReceiveReset PROVE AskingInv'
  <2>1. Own' = Own /\ gwSeen' = gwSeen /\ link' # "up"
    BY <1>8 DEF ReceiveReset, Own
  <2> QED
    BY <2>1, AskingKept
<1>9. ASSUME ConfirmFails \/ SubscribeEof \/ ReceiveEof \/ SubscribeReset \/ Subscribed \/ UNCHANGED vars
      PROVE  AskingInv'
  BY <1>9, <1>u DEF ConfirmFails, SubscribeEof, ReceiveEof, SubscribeReset, Subscribed, Failed,
       vars, linkVars, Asking
<1> QED
  BY <1>1, <1>2, <1>3, <1>4, <1>5, <1>6, <1>7, <1>8, <1>9 DEF Next, StartSession

(* For any number of sensors, sessions and keep-alives: the client has at  *)
(* most one request of the session at the gateway that is not answered,    *)
(* since it writes the next one only when it has read the confirmation.    *)
THEOREM AskedOneByOne == Spec => []OneRequestAtATime
<1>1. Init => AskingInv
  BY DEF Init, AskingInv, OneRequestAtATime, Own
<1>2. AskingInv => OneRequestAtATime
  BY DEF AskingInv
<1> QED
  BY <1>1, <1>2, Typed, AskingStep, PTL DEF Spec
=============================================================================
