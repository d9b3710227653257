----------------------------- MODULE MockProofs -----------------------------
(***************************************************************************)
(* How the mock gateway ends, for any number of apps and seekers and any   *)
(* messages: type correctness, and the two invariants about main.          *)
(***************************************************************************)
EXTENDS MockMain, SequenceTheorems, TLAPS

-----------------------------------------------------------------------------
(* getResponseTypeForOperationType returns an operation type, and the      *)
(* answers to a message are messages.                                      *)
LEMMA ResponseTypeIsKind == ASSUME NEW kind PROVE ResponseTypeFor(kind) \in Kinds
  BY DEF ResponseTypeFor, Kinds

LEMMA MessageType ==
  ASSUME NEW c \in Conns, NEW i \in 1..Len(Script[c])
  PROVE  Message(c, i).app = c /\ Message(c, i).n \in Nat /\ Message(c, i).src = c
  BY DEF Message

LEMMA AnswersType ==
  ASSUME NEW c \in Conns, NEW i \in 1..Len(Script[c])
  PROVE  Answers(Message(c, i)) \in Seq(AppFrame)
<1> DEFINE m == Message(c, i)
<1>1. m.app \in Actors /\ m.n \in Nat /\ m.src \in Uuids
  BY MessageType DEF Actors, Uuids
<1> HIDE DEF m
<1>2. CreateResponse(m) \in AppFrame
  BY <1>1, ResponseTypeIsKind DEF CreateResponse, AppFrame
<1>3. "CnNodeNotification" \in Kinds /\ Self \in Uuids
  BY DEF Kinds, Uuids, Actors
<1>4. CreateCustomResponse(m, "CnNodeNotification") \in AppFrame
  BY <1>1, <1>3 DEF CreateCustomResponse, AppFrame
<1>5. Answers(m) \in Seq(AppFrame)
  BY <1>2, <1>4 DEF Answers
<1> QED
  BY <1>5 DEF m

-----------------------------------------------------------------------------
(* Type correctness *)

LEMMA EmptySequence == ASSUME NEW S PROVE <<>> \in Seq(S)
  OBVIOUS

LEMMA DiscoveryInitType == DiscoveryInit => DiscoveryTypeOK
<1> SUFFICES ASSUME DiscoveryInit PROVE DiscoveryTypeOK
  OBVIOUS
<1>1. inbox \in Seq(Seekers)
  BY DEF DiscoveryInit
<1>2. bquit \in BOOLEAN
  BY DEF DiscoveryInit
<1> QED
  BY <1>1, <1>2 DEF DiscoveryInit, DiscoveryTypeOK

LEMMA MockInitType == MockInit => MockTypeOK
<1> SUFFICES ASSUME MockInit PROVE MockTypeOK
  OBVIOUS
<1>1. listening \in BOOLEAN /\ mquit \in BOOLEAN
  BY DEF MockInit
<1>2. ASSUME NEW c \in Conns
      PROVE  /\ got[c] <= sent[c] /\ sent[c] <= Len(Script[c])
             /\ handler[c] = "answering" <=> todo[c] # <<>>
  BY ScriptAssumption DEF MockInit
<1> QED
  BY <1>1, <1>2, EmptySequence DEF MockInit, MockTypeOK

(* A step of the listener or of a seeker keeps the listener's types. *)
LEMMA DiscoverType ==
  ASSUME DiscoveryTypeOK, BroadcastRun \/ \E s \in Seekers : HandleConnection(s) \/ Seeker(s)
  PROVE  DiscoveryTypeOK'
<1>0. bquit' \in BOOLEAN
  BY Zenon DEF DiscoveryTypeOK, BroadcastRun, SelectDefault, ReadFails, ReceiveSearch, SelectQuit,
         HandlersGone, HandleConnection, Seeker, Ask, AskInVain, listenerVars
<1>1. CASE SelectDefault \/ ReadFails \/ SelectQuit \/ HandlersGone
  BY <1>0, <1>1 DEF DiscoveryTypeOK, SelectDefault, ReadFails, SelectQuit, HandlersGone
<1>2. CASE ReceiveSearch
  <2>1. Head(inbox) \in Seekers /\ Tail(inbox) \in Seq(Seekers)
    BY <1>2 DEF DiscoveryTypeOK, ReceiveSearch
  <2> QED
    BY <1>0, <1>2, <2>1 DEF DiscoveryTypeOK, ReceiveSearch
<1>3. ASSUME NEW s \in Seekers, HandleConnection(s) PROVE DiscoveryTypeOK'
  BY <1>0, <1>3 DEF DiscoveryTypeOK, HandleConnection
<1>4. ASSUME NEW s \in Seekers, Ask(s) PROVE DiscoveryTypeOK'
  BY <1>0, <1>4 DEF DiscoveryTypeOK, Ask
<1>5. ASSUME NEW s \in Seekers, AskInVain(s) PROVE DiscoveryTypeOK'
  BY <1>0, <1>5 DEF DiscoveryTypeOK, AskInVain, listenerVars
<1> QED
  BY <1>1, <1>2, <1>3, <1>4, <1>5 DEF BroadcastRun, Seeker

(* The calls of main's Stop on the listener *)
LEMMA StopType == DiscoveryTypeOK /\ (CloseSocket \/ CloseQuit) => DiscoveryTypeOK'
<1> SUFFICES ASSUME DiscoveryTypeOK, CloseSocket \/ CloseQuit PROVE DiscoveryTypeOK'
  OBVIOUS
<1>0. bquit' \in BOOLEAN
  BY Zenon DEF DiscoveryTypeOK, CloseSocket, CloseQuit
<1>1. CASE CloseSocket
  <2>1. {inbox[i] : i \in 1..Len(inbox)} \subseteq Seekers
    BY DEF DiscoveryTypeOK
  <2> QED
    BY <1>0, <1>1, <2>1 DEF DiscoveryTypeOK, CloseSocket
<1>2. CASE CloseQuit
  BY <1>0, <1>2 DEF DiscoveryTypeOK, CloseQuit
<1> QED
  BY <1>1, <1>2

(* The mock's types, split: what no goroutine's data is part of, and what  *)
(* one app's goroutine keeps.                                              *)
ControlType ==
  /\ status \in {"running", "exited", "panicked"}
  /\ mrun \in {"select", "accept", "wait", "exited"}
  /\ listening \in BOOLEAN /\ mquit \in BOOLEAN
  /\ conn \in [Conns -> {"none", "up", "fin", "rst", "dead", "closed"}]
  /\ handler \in [Conns -> {"none", "reading", "answering", "done"}]
  /\ sent \in [Conns -> Nat] /\ got \in [Conns -> Nat]
  /\ todo \in [Conns -> Seq(AppFrame)] /\ answers \in [Conns -> Seq(AppFrame)]

DataType(c) ==
  /\ got[c] <= sent[c] /\ sent[c] <= Len(Script[c])
  /\ handler[c] = "answering" <=> todo[c] # <<>>

LEMMA MockTypeSplit == MockTypeOK <=> ControlType /\ \A c \in Conns : DataType(c)
  BY DEF MockTypeOK, ControlType, DataType

(* The length of a script is a number. *)
LEMMA ScriptLength == ASSUME NEW c \in Conns PROVE Script[c] \in Seq(Kinds) /\ Len(Script[c]) \in Nat
  BY ScriptAssumption

LEMMA AppType ==
  ASSUME MockTypeOK, NEW c \in Conns, App(c)
  PROVE  MockTypeOK'
<1>1. ControlType'
  <2>1. listening' \in BOOLEAN /\ mquit' \in BOOLEAN
    BY Zenon DEF MockTypeOK, App, Dial, Send, HangUp
  <2>2. CASE Dial(c)
    BY <2>1, <2>2 DEF MockTypeOK, ControlType, Dial
  <2>3. CASE Send(c)
    BY <2>1, <2>3 DEF MockTypeOK, ControlType, Send
  <2>4. CASE HangUp(c)
    <3> PICK end \in {"fin", "rst"} : conn' = [conn EXCEPT ![c] = end]
      BY <2>4 DEF HangUp
    <3> QED
      BY <2>1, <2>4 DEF MockTypeOK, ControlType, HangUp
  <2> QED
    BY <2>2, <2>3, <2>4 DEF App
<1>2. ASSUME NEW d \in Conns PROVE DataType(d)'
  <2>1. CASE Send(c)
    BY <2>1, ScriptLength DEF MockTypeOK, DataType, Send
  <2>2. CASE Dial(c) \/ HangUp(c)
    BY <2>2 DEF MockTypeOK, DataType, Dial, HangUp
  <2> QED
    BY <2>1, <2>2 DEF App
<1>3. (MockTypeOK <=> ControlType /\ \A d \in Conns : DataType(d))'
  BY DEF MockTypeOK, ControlType, DataType
<1> QED
  BY <1>1, <1>2, <1>3

LEMMA MockRunType == MockTypeOK /\ MockRun => MockTypeOK'
<1> SUFFICES ASSUME MockTypeOK, MockRun PROVE MockTypeOK'
  OBVIOUS
<1>1. listening' \in BOOLEAN /\ mquit' \in BOOLEAN
  BY Zenon DEF MockTypeOK, MockRun, SelectAccept, AcceptTimeout, ShutDown, MockExits, Accept
<1>2. CASE SelectAccept \/ AcceptTimeout \/ MockExits
  BY <1>1, <1>2 DEF MockTypeOK, SelectAccept, AcceptTimeout, MockExits
<1>3. CASE ShutDown
  BY <1>1, <1>3 DEF MockTypeOK, ShutDown
<1>4. ASSUME NEW c \in Conns, Accept(c) PROVE MockTypeOK'
  <2>1. ControlType'
    BY <1>1, <1>4 DEF MockTypeOK, ControlType, Accept
  <2>2. ASSUME NEW d \in Conns PROVE DataType(d)'
    BY <1>4 DEF MockTypeOK, DataType, Accept
  <2>3. (MockTypeOK <=> ControlType /\ \A d \in Conns : DataType(d))'
    BY DEF MockTypeOK, ControlType, DataType
  <2> QED
    BY <2>1, <2>2, <2>3
<1> QED
  BY <1>2, <1>3, <1>4 DEF MockRun

LEMMA HeadTailLength ==
  ASSUME NEW S, NEW s \in Seq(S), s # <<>>
  PROVE  Tail(s) = <<>> <=> Len(s) = 1
<1>1. Tail(s) \in Seq(S) /\ Len(Tail(s)) = Len(s) - 1 /\ Len(s) \in Nat
  BY HeadTailProperties
<1>2. Tail(s) = <<>> <=> Len(Tail(s)) = 0
  BY <1>1, EmptySeq
<1> QED
  BY <1>1, <1>2

LEMMA HandleClientType ==
  ASSUME MockTypeOK, NEW c \in Conns, HandleClient(c)
  PROVE  MockTypeOK'
<1>0. listening' \in BOOLEAN /\ mquit' \in BOOLEAN
  BY Zenon DEF MockTypeOK, HandleClient, ReadMessage, ReadReset, ReadEof, Respond
<1>5. (MockTypeOK <=> ControlType /\ \A d \in Conns : DataType(d))'
  BY DEF MockTypeOK, ControlType, DataType
<1>1. CASE ReadMessage(c)
  <2> DEFINE i == got[c] + 1
             m == Message(c, i)
  <2>1. i \in 1..Len(Script[c])
    BY <1>1, ScriptLength DEF MockTypeOK, ReadMessage
  <2>2. Answers(m) \in Seq(AppFrame)
    BY <2>1, AnswersType
  <2> HIDE DEF m
  <2>3. CASE GetStructForType(m.kind) = "nil"
    BY <1>0, <1>1, <2>3 DEF MockTypeOK, ReadMessage, m
  <2>4. CASE GetStructForType(m.kind) # "nil"
    <3>1. /\ got' = [got EXCEPT ![c] = @ + 1]
          /\ todo' = [todo EXCEPT ![c] = Answers(m)]
          /\ handler' = [handler EXCEPT
                           ![c] = IF Answers(m) = <<>> THEN "reading" ELSE "answering"]
          /\ UNCHANGED <<status, mrun, listening, mquit, conn, sent, answers>>
      BY <1>1, <2>4 DEF ReadMessage, m
    <3>2. ControlType'
      BY <1>0, <2>2, <3>1 DEF MockTypeOK, ControlType
    <3>3. ASSUME NEW d \in Conns, d # c PROVE DataType(d)'
      BY <3>1, <3>3 DEF MockTypeOK, DataType
    <3>5. DataType(c)'
      BY <1>1, <2>2, <3>1 DEF MockTypeOK, DataType, ReadMessage
    <3> QED
      BY <1>5, <3>2, <3>3, <3>5
  <2> QED
    BY <2>3, <2>4
<1>2. CASE ReadReset(c)
  BY <1>0, <1>2 DEF MockTypeOK, ReadReset
<1>3. CASE ReadEof(c)
  <2>1. ControlType'
    BY <1>0, <1>3 DEF MockTypeOK, ControlType, ReadEof
  <2>2. ASSUME NEW d \in Conns PROVE DataType(d)'
    BY <1>3 DEF MockTypeOK, DataType, ReadEof
  <2> QED
    BY <1>5, <2>1, <2>2
<1>4. CASE Respond(c)
  <2>1. ControlType'
    BY <1>0, <1>4 DEF MockTypeOK, ControlType, Respond
  <2>2. ASSUME NEW d \in Conns, d # c PROVE DataType(d)'
    BY <1>4, <2>2 DEF MockTypeOK, DataType, Respond
  <2>3. todo[c] \in Seq(AppFrame) /\ todo[c] # <<>> /\ todo'[c] = Tail(todo[c])
    BY <1>4 DEF MockTypeOK, Respond
  <2>4. Tail(todo[c]) = <<>> <=> Len(todo[c]) = 1
    BY <2>3, HeadTailLength
  <2>5. handler'[c] = IF Len(todo[c]) = 1 THEN "reading" ELSE "answering"
    BY <1>4 DEF MockTypeOK, Respond
  <2>6. DataType(c)'
    BY <1>4, <2>3, <2>4, <2>5 DEF MockTypeOK, DataType, Respond
  <2> QED
    BY <1>5, <2>1, <2>2, <2>6
<1> QED
  BY <1>1, <1>2, <1>3, <1>4 DEF HandleClient

(* TypeOK: what main, the listener, the mock and the peers keep in their   *)
(* variables, for any number of apps and seekers and any messages.         *)
THEOREM TypeCorrect == Spec => []TypeOK
<1>1. Init => TypeOK
  <2> SUFFICES ASSUME Init PROVE TypeOK
    OBVIOUS
  <2>1. signalled \in BOOLEAN
    BY DEF Init
  <2> QED
    BY <2>1, DiscoveryInitType, MockInitType DEF Init, TypeOK
<1>2. TypeOK /\ [Next]_vars => TypeOK'
  <2> SUFFICES ASSUME TypeOK, [Next]_vars PROVE TypeOK'
    OBVIOUS
  <2>0. signalled' \in BOOLEAN
    BY Zenon DEF TypeOK, Next, Interrupt, Main, TakeSignal, StopCloses, StopQuits, StopReturns,
           StopPanics, MockStopQuits, MockStopReturns, Exit, Discover, Mock, mainVars, vars
  <2>1. CASE Interrupt \/ TakeSignal \/ StopReturns
    <3>1. UNCHANGED <<discoveryVars, status, mockVars>>
      BY <2>1 DEF Interrupt, TakeSignal, StopReturns
    <3>2. DiscoveryTypeOK' /\ MockTypeOK'
      BY <3>1 DEF TypeOK, DiscoveryTypeOK, MockTypeOK, discoveryVars, listenerVars, mockVars
    <3>3. main' = main \/ main' \in {<<"second", "close">>, <<"signal", "wait">>, <<"mock", "quit">>}
      BY <2>1 DEF Interrupt, TakeSignal, StopReturns
    <3> QED
      BY <2>0, <3>2, <3>3 DEF TypeOK
  <2>2. CASE StopCloses \/ StopQuits
    <3>1. DiscoveryTypeOK'
      BY <2>2, StopType DEF TypeOK, StopCloses, StopQuits
    <3>2. MockTypeOK'
      BY <2>2 DEF TypeOK, MockTypeOK, mockVars, StopCloses, StopQuits
    <3>3. main[1] \in {"first", "second", "last"}
      BY <2>2 DEF TypeOK, StopCloses, StopQuits
    <3>4. main' \in {"first", "second", "last"} \X {"close", "quit", "await"}
      BY <2>2, <3>3 DEF StopCloses, StopQuits
    <3> QED
      BY <2>0, <3>1, <3>2, <3>4 DEF TypeOK
  <2>3. CASE StopPanics \/ Exit
    <3>1. DiscoveryTypeOK'
      BY <2>3 DEF TypeOK, DiscoveryTypeOK, discoveryVars, listenerVars, StopPanics, Exit
    <3>2. MockTypeOK'
      BY <2>3 DEF TypeOK, MockTypeOK, mockVars, StopPanics, Exit
    <3>3. main' = main \/ main' = <<"defer", "quit">>
      BY <2>3 DEF StopPanics, Exit, mainVars
    <3> QED
      BY <2>0, <3>1, <3>2, <3>3 DEF TypeOK
  <2>4. CASE MockStopQuits \/ MockStopReturns
    <3>1. DiscoveryTypeOK'
      BY <2>4 DEF TypeOK, DiscoveryTypeOK, discoveryVars, listenerVars, MockStopQuits,
                  MockStopReturns
    <3>2. MockTypeOK'
      BY <2>4 DEF TypeOK, MockTypeOK, mockVars, MockStopQuits, MockStopReturns, QuitMock
    <3>3. main' \in {<<"mock", "await">>, <<"defer", "await">>, <<"exit", "wait">>,
                     <<"last", "close">>}
      BY <2>4 DEF MockStopQuits, MockStopReturns
    <3> QED
      BY <2>0, <3>1, <3>2, <3>3 DEF TypeOK
  <2>5. CASE Discover
    <3>1. DiscoveryTypeOK'
      BY <2>5, DiscoverType DEF TypeOK, Discover
    <3>2. MockTypeOK' /\ main' = main
      BY <2>5 DEF TypeOK, MockTypeOK, mockVars, mainVars, Discover
    <3> QED
      BY <2>0, <3>1, <3>2 DEF TypeOK
  <2>6. CASE Mock
    <3>1. MockTypeOK'
      BY <2>6, MockRunType, HandleClientType, AppType DEF TypeOK, Mock
    <3>2. DiscoveryTypeOK' /\ main' = main
      BY <2>6 DEF TypeOK, DiscoveryTypeOK, discoveryVars, listenerVars, mainVars, Mock
    <3> QED
      BY <2>0, <3>1, <3>2 DEF TypeOK
  <2>7. CASE UNCHANGED vars
    BY <2>0, <2>7 DEF TypeOK, DiscoveryTypeOK, MockTypeOK, vars, discoveryVars, listenerVars,
                      mockVars, mainVars
  <2> QED
    BY <2>1, <2>2, <2>3, <2>4, <2>5, <2>6, <2>7 DEF Next, Main
<1> QED
  BY <1>1, <1>2, PTL DEF Spec

-----------------------------------------------------------------------------
(* How main ends.  The first Stop of the listener has closed quit before   *)
(* main waits for a signal, so that no later Stop of it gets past its      *)
(* close and main never reaches b.Stop and os.Exit; the deferred b.Stop    *)
(* returns when the mock has exited, and it exits when all of its          *)
(* goroutines have.                                                        *)

QuitInv ==
  /\ main \notin {<<"first", "close">>, <<"first", "quit">>} => bquit
  /\ main \notin {<<"second", "await">>, <<"last", "await">>}
  /\ main[1] \notin {"mock", "exit"}
  /\ status # "exited"

DrainInv ==
  /\ main[1] = "last" => mrun = "exited"
  /\ mrun = "exited" => \A c \in Conns : handler[c] \in {"none", "done"}
  /\ mrun \in {"wait", "exited"} =>
       /\ ~listening
       /\ \A c \in Conns : handler[c] = "none" => conn[c] \in {"none", "closed"}
  /\ \A c \in Conns : handler[c] = "done" => conn[c] = "closed"

EndInv == TypeOK /\ QuitInv /\ DrainInv

LEMMA QuitStep == TypeOK /\ QuitInv /\ [Next]_vars => QuitInv'
<1> SUFFICES ASSUME TypeOK, QuitInv, [Next]_vars PROVE QuitInv'
  OBVIOUS
<1>1. CASE Interrupt \/ TakeSignal
  BY <1>1 DEF QuitInv, Interrupt, TakeSignal, discoveryVars, listenerVars
<1>2. CASE StopCloses
  BY <1>2 DEF TypeOK, QuitInv, StopCloses, CloseSocket
<1>3. CASE StopQuits
  BY <1>3 DEF TypeOK, QuitInv, StopQuits, CloseQuit
<1>4. CASE StopReturns
  BY <1>4 DEF TypeOK, QuitInv, StopReturns, discoveryVars, listenerVars
<1>5. CASE StopPanics
  BY <1>5 DEF TypeOK, QuitInv, StopPanics, discoveryVars, listenerVars
<1>6. CASE MockStopQuits \/ MockStopReturns \/ Exit
  BY <1>6 DEF QuitInv, MockStopQuits, MockStopReturns, Exit, QuitMock, discoveryVars,
              listenerVars
<1>7. CASE Discover
  <2>1. bquit' = bquit
    BY <1>7 DEF Discover, BroadcastRun, SelectDefault, ReadFails, ReceiveSearch, SelectQuit,
                HandlersGone, HandleConnection, Seeker, Ask, AskInVain, listenerVars
  <2> QED
    BY <1>7, <2>1 DEF QuitInv, Discover, mainVars
<1>8. CASE Mock
  <2>1. status' = status \/ status' = "panicked"
    BY <1>8 DEF Mock, MockRun, SelectAccept, AcceptTimeout, ShutDown, MockExits, Accept,
                HandleClient, ReadMessage, ReadReset, ReadEof, Respond, App, Dial, Send, HangUp
  <2> QED
    BY <1>8, <2>1 DEF QuitInv, Mock, mainVars, discoveryVars, listenerVars
<1>9. CASE UNCHANGED vars
  BY <1>9 DEF QuitInv, vars, discoveryVars, listenerVars, mainVars
<1> QED
  BY <1>1, <1>2, <1>3, <1>4, <1>5, <1>6, <1>7, <1>8, <1>9 DEF Next, Main

(* The steps of the mock *)
LEMMA MockDrains ==
  ASSUME MockTypeOK, DrainInv, Mock
  PROVE  DrainInv'
<1>0. main' = main
  BY DEF Mock, mainVars
<1>1. CASE SelectAccept \/ AcceptTimeout
  BY <1>0, <1>1 DEF DrainInv, SelectAccept, AcceptTimeout
<1>2. CASE ShutDown
  BY <1>0, <1>2 DEF MockTypeOK, DrainInv, ShutDown
<1>3. CASE MockExits
  BY <1>0, <1>3 DEF DrainInv, MockExits
<1>4. ASSUME NEW c \in Conns, Accept(c) PROVE DrainInv'
  BY <1>0, <1>4 DEF MockTypeOK, DrainInv, Accept
<1>5. ASSUME NEW c \in Conns, App(c) PROVE DrainInv'
  <2>1. CASE Dial(c)
    BY <1>0, <2>1 DEF MockTypeOK, DrainInv, Dial
  <2>2. CASE Send(c)
    BY <1>0, <2>2 DEF MockTypeOK, DrainInv, Send
  <2>3. CASE HangUp(c)
    <3>1. handler[c] # "done" /\ ~(mrun \in {"wait", "exited"} /\ handler[c] = "none")
      BY <2>3 DEF DrainInv, HangUp
    <3> PICK end \in {"fin", "rst"} : conn' = [conn EXCEPT ![c] = end]
      BY <2>3 DEF HangUp
    <3> QED
      BY <1>0, <2>3, <3>1 DEF MockTypeOK, DrainInv, HangUp
  <2> QED
    BY <1>5, <2>1, <2>2, <2>3 DEF App
<1>6. ASSUME NEW c \in Conns, HandleClient(c) PROVE DrainInv'
  <2>1. handler[c] \in {"reading", "answering"}
    BY <1>6 DEF HandleClient, ReadMessage, ReadReset, ReadEof, Respond
  <2>2. mrun # "exited" /\ main[1] # "last" /\ UNCHANGED <<mrun, listening>>
    BY <1>6, <2>1 DEF DrainInv, HandleClient, ReadMessage, ReadReset, ReadEof, Respond
  <2>3. handler'[c] # "none" /\ (handler'[c] = "done" => conn'[c] = "closed")
    BY <1>6, <2>1 DEF MockTypeOK, HandleClient, ReadMessage, ReadReset, ReadEof, Respond
  <2>4. \A d \in Conns : d # c => handler'[d] = handler[d] /\ conn'[d] = conn[d]
    BY <1>6 DEF MockTypeOK, HandleClient, ReadMessage, ReadReset, ReadEof, Respond
  <2> QED
    BY <1>0, <2>2, <2>3, <2>4 DEF DrainInv
<1> QED
  BY <1>1, <1>2, <1>3, <1>4, <1>5, <1>6 DEF Mock, MockRun

LEMMA DrainStep == TypeOK /\ DrainInv /\ [Next]_vars => DrainInv'
<1> SUFFICES ASSUME TypeOK, DrainInv, [Next]_vars PROVE DrainInv'
  OBVIOUS
<1>1. CASE Mock
  BY <1>1, MockDrains DEF TypeOK
<1>2. CASE Interrupt \/ TakeSignal \/ StopCloses \/ StopQuits \/ StopReturns \/ StopPanics
             \/ Exit \/ Discover \/ UNCHANGED vars
  <2>1. UNCHANGED mockVars /\ (main'[1] = "last" => main[1] = "last")
    BY <1>2 DEF Interrupt, TakeSignal, StopCloses, StopQuits, StopReturns, StopPanics, Exit,
                Discover, mainVars, vars
  <2> QED
    BY <2>1 DEF DrainInv, mockVars
<1>3. CASE MockStopQuits
  BY <1>3 DEF DrainInv, MockStopQuits, QuitMock
<1>4. CASE MockStopReturns
  BY <1>4 DEF DrainInv, MockStopReturns, mockVars
<1> QED
  BY <1>1, <1>2, <1>3, <1>4 DEF Next, Main

LEMMA EndInvariant == Spec => []EndInv
<1>1. Init => QuitInv /\ DrainInv
  BY DEF Init, DiscoveryInit, MockInit, QuitInv, DrainInv
<1> QED
  BY <1>1, QuitStep, DrainStep, TypeCorrect, PTL DEF Spec, EndInv

(* An interrupt never leads to the os.Exit(0) that main has for it,        *)
(* whatever the apps and the seekers do.                                   *)
THEOREM NeverClean == Spec => []NeverCleanExit
<1>1. EndInv => NeverCleanExit
  BY DEF EndInv, QuitInv, NeverCleanExit
<1> QED
  BY <1>1, EndInvariant, PTL

(* When the deferred b.Stop has returned, every app that was accepted, one *)
(* or many, has been read to its end and its connection is closed.         *)
THEOREM Drained == Spec => []StopDrains
<1>1. EndInv => StopDrains
  <2> SUFFICES ASSUME EndInv, main \in {<<"exit", "wait">>} \cup {"last"} \X {"close", "quit"},
                      NEW c \in Conns
               PROVE  handler[c] \in {"none", "done"} /\ conn[c] \in {"none", "closed"}
    BY DEF StopDrains
  <2>1. main[1] = "last"
    BY DEF EndInv, QuitInv
  <2> QED
    BY <2>1 DEF EndInv, DrainInv
<1> QED
  BY <1>1, EndInvariant, PTL

-----------------------------------------------------------------------------
(* What the goroutine of an app writes *)

(* The answers to a message carry its reference; there are some if it has  *)
(* a response type, and only the first is a confirm.                       *)
LEMMA AnswersShape ==
  ASSUME NEW c \in Conns, NEW k \in 1..Len(Script[c])
  PROVE  LET a == Answers(Message(c, k))
         IN  /\ a \in Seq(AppFrame) /\ Len(a) \in {0, 1, 3}
             /\ Len(a) = 0 <=> ResponseTypeFor(Script[c][k]) = "NoOperation"
             /\ \A i \in 1..Len(a) : a[i].n = k
             /\ \A i \in 1..Len(a) : i = 1 <=> a[i].kind # "CnNodeNotification"
             /\ Len(a) # 0 => a[1].dst = c /\ a[1].kind = ResponseTypeFor(Script[c][k])
             /\ Len(a) = 3 => a[1].kind = "StartSessionConfirm"
<1> DEFINE m == Message(c, k)
           r == ResponseTypeFor(m.kind)
           a == Answers(m)
<1>1. m.n = k /\ m.src = c /\ m.kind = Script[c][k]
  BY DEF Message
<1>2. a \in Seq(AppFrame)
  BY AnswersType
<1> HIDE DEF m
<1>3. r \in Kinds /\ r # "CnNodeNotification"
  BY ResponseTypeIsKind DEF ResponseTypeFor
<1>4. GetStructForType(r) = "nil" <=> r = "NoOperation"
  BY <1>3 DEF GetStructForType, Kinds
<1>5. CASE m.kind = "StartSessionRequest"
  <2>1. r = "StartSessionConfirm"
    BY <1>5 DEF ResponseTypeFor
  <2>2. a = << CreateResponse(m), CreateCustomResponse(m, "CnNodeNotification"),
               CreateCustomResponse(m, "CnNodeNotification") >>
    BY <1>5 DEF Answers
  <2>3. Len(a) = 3 /\ a[1] = CreateResponse(m)
        /\ a[2] = CreateCustomResponse(m, "CnNodeNotification")
        /\ a[3] = CreateCustomResponse(m, "CnNodeNotification")
    BY <2>2
  <2>4. CreateResponse(m).n = k /\ CreateResponse(m).dst = c /\ CreateResponse(m).kind = r
    BY <1>1 DEF CreateResponse
  <2>5. /\ CreateCustomResponse(m, "CnNodeNotification").n = k
        /\ CreateCustomResponse(m, "CnNodeNotification").kind = "CnNodeNotification"
    BY <1>1 DEF CreateCustomResponse
  <2>6. \A i \in 1..Len(a) : i = 1 \/ i = 2 \/ i = 3
    BY <2>3
  <2> HIDE DEF a
  <2>7. \A i \in 1..Len(a) : a[i].n = k /\ (i = 1 <=> a[i].kind # "CnNodeNotification")
    BY <1>3, <2>3, <2>4, <2>5, <2>6
  <2> QED
    BY <1>1, <1>2, <2>1, <2>3, <2>4, <2>7 DEF m, a
<1>6. CASE m.kind # "StartSessionRequest" /\ r = "NoOperation"
  <2>1. a = <<>>
    BY <1>4, <1>6 DEF Answers
  <2> QED
    BY <1>1, <1>2, <1>6, <2>1 DEF m
<1>7. CASE m.kind # "StartSessionRequest" /\ r # "NoOperation"
  <2>1. a = << CreateResponse(m) >>
    BY <1>4, <1>7 DEF Answers
  <2>2. Len(a) = 1 /\ a[1] = CreateResponse(m)
    BY <2>1
  <2>3. CreateResponse(m).n = k /\ CreateResponse(m).dst = c /\ CreateResponse(m).kind = r
    BY <1>1 DEF CreateResponse
  <2> HIDE DEF a
  <2>4. \A i \in 1..Len(a) : i = 1
    BY <2>2
  <2> QED
    BY <1>1, <1>2, <1>3, <1>7, <2>2, <2>3, <2>4 DEF m, a
<1> QED
  BY <1>5, <1>6, <1>7

LEMMA Concatenated ==
  ASSUME NEW S, NEW s \in Seq(S), NEW t \in Seq(S)
  PROVE  /\ s \o t \in Seq(S) /\ Len(s \o t) = Len(s) + Len(t)
         /\ Len(s) \in Nat /\ Len(t) \in Nat
         /\ \A i \in 1..Len(s) : (s \o t)[i] = s[i]
         /\ \A i \in 1..Len(t) : (s \o t)[Len(s) + i] = t[i]
OBVIOUS

(* The answers to the next message behind those to the messages before *)
LEMMA AnswersAppended ==
  ASSUME NEW c \in Conns, NEW n \in Nat, n + 1 \in 1..Len(Script[c]),
         NEW w \in Seq(AppFrame), AnswersInOrder(c, n, w)
  PROVE  AnswersInOrder(c, n + 1, w \o Answers(Message(c, n + 1)))
<1> DEFINE k == n + 1
           a == Answers(Message(c, k))
           v == w \o a
           l == Len(w)
           r == ResponseTypeFor(Script[c][k])
           R(i) == ResponseTypeFor(Script[c][i])
<1>1. /\ a \in Seq(AppFrame) /\ Len(a) \in {0, 1, 3}
      /\ Len(a) = 0 <=> R(k) = "NoOperation"
      /\ \A i \in 1..Len(a) : a[i].n = k
      /\ \A i \in 1..Len(a) : i = 1 <=> a[i].kind # "CnNodeNotification"
      /\ Len(a) # 0 => a[1].dst = c /\ a[1].kind = R(k)
      /\ Len(a) = 3 => a[1].kind = "StartSessionConfirm"
  BY AnswersShape
<1> HIDE DEF a
<1>2. /\ Len(v) = l + Len(a) /\ l \in Nat /\ Len(a) \in Nat
      /\ \A i \in 1..l : v[i] = w[i]
      /\ \A i \in 1..Len(a) : v[l + i] = a[i]
  <2> HIDE DEF R
  <2>1. a \in Seq(AppFrame)
    BY <1>1
  <2> QED
    BY <2>1, Concatenated
<1>3. /\ \A i \in 1..l : w[i].n \in 1..n
      /\ \A j \in 1..l : w[j].kind # "CnNodeNotification" => \A i \in 1..(j - 1) : w[i].n < w[j].n
      /\ \A i \in 1..l : w[i].kind # "CnNodeNotification" =>
           w[i].dst = c /\ w[i].kind = R(w[i].n) /\ w[i].kind # "NoOperation"
      /\ \A i \in 1..l : w[i].kind = "CnNodeNotification" =>
           \E j \in 1..(i - 1) : w[j].kind = "StartSessionConfirm" /\ w[j].n = w[i].n
      /\ \A m \in 1..n : R(m) # "NoOperation" =>
           \E i \in 1..l : w[i].kind # "CnNodeNotification" /\ w[i].n = m
  BY DEF AnswersInOrder, Confirms
<1> HIDE DEF v, l, R
<1>4. \A i \in 1..Len(v) : i \in 1..l \/ \E j \in 1..Len(a) : i = l + j
  <2> SUFFICES ASSUME NEW i \in 1..Len(v), i \notin 1..l PROVE \E j \in 1..Len(a) : i = l + j
    OBVIOUS
  <2>1. i - l \in 1..Len(a) /\ i = l + (i - l)
    BY <1>2
  <2> QED
    BY <2>1
<1>5. \A i \in 1..Len(v) :
        \/ i \in 1..l /\ v[i] = w[i]
        \/ i = l + 1 /\ v[i] = a[1] /\ Len(a) # 0 /\ v[i].kind # "CnNodeNotification"
        \/ i > l + 1 /\ Len(a) = 3 /\ v[i].n = k /\ v[i].kind = "CnNodeNotification"
  <2> SUFFICES ASSUME NEW i \in 1..Len(v), i \notin 1..l
               PROVE  \/ i = l + 1 /\ v[i] = a[1] /\ Len(a) # 0 /\ v[i].kind # "CnNodeNotification"
                      \/ i > l + 1 /\ Len(a) = 3 /\ v[i].n = k /\ v[i].kind = "CnNodeNotification"
    BY <1>2
  <2> PICK j \in 1..Len(a) : i = l + j
    BY <1>4
  <2>1. v[i] = a[j] /\ a[j].n = k /\ (j = 1 <=> a[j].kind # "CnNodeNotification")
    BY <1>1, <1>2
  <2>2. Len(a) # 0 /\ (j # 1 => Len(a) = 3 /\ i > l + 1) /\ (j = 1 => i = l + 1)
    BY <1>1, <1>2
  <2> QED
    BY <2>1, <2>2
<1>6. Len(a) # 0 => l + 1 \in 1..Len(v) /\ v[l + 1] = a[1] /\ a[1].n = k
  BY <1>1, <1>2
<1>7. \A i \in 1..Len(v) : v[i].n \in 1..k
  BY <1>2, <1>3, <1>5, <1>6
<1>8. \A j \in 1..Len(v) : v[j].kind # "CnNodeNotification" => \A i \in 1..(j - 1) : v[i].n < v[j].n
  <2> SUFFICES ASSUME NEW j \in 1..Len(v), v[j].kind # "CnNodeNotification", NEW i \in 1..(j - 1)
               PROVE  v[i].n < v[j].n
    OBVIOUS
  <2>1. CASE j \in 1..l
    BY <1>2, <1>3, <2>1
  <2>2. CASE j = l + 1 /\ v[j] = a[1] /\ Len(a) # 0
    BY <1>2, <1>3, <1>6, <2>2
  <2> QED
    BY <1>5, <2>1, <2>2
<1>9. \A i \in 1..Len(v) : v[i].kind # "CnNodeNotification" =>
        v[i].dst = c /\ v[i].kind = R(v[i].n) /\ v[i].kind # "NoOperation"
  BY <1>1, <1>3, <1>5, <1>6
<1>10. \A i \in 1..Len(v) : v[i].kind = "CnNodeNotification" =>
        \E j \in 1..(i - 1) : v[j].kind = "StartSessionConfirm" /\ v[j].n = v[i].n
  <2> SUFFICES ASSUME NEW i \in 1..Len(v), v[i].kind = "CnNodeNotification"
               PROVE  \E j \in 1..(i - 1) : v[j].kind = "StartSessionConfirm" /\ v[j].n = v[i].n
    OBVIOUS
  <2>1. CASE i \in 1..l /\ v[i] = w[i]
    <3> PICK j \in 1..(i - 1) : w[j].kind = "StartSessionConfirm" /\ w[j].n = w[i].n
      BY <1>3, <2>1
    <3>1. j \in 1..l
      BY <1>2, <2>1
    <3> QED
      BY <1>2, <2>1, <3>1
  <2>2. CASE i > l + 1 /\ Len(a) = 3 /\ v[i].n = k
    <3>1. l + 1 \in 1..(i - 1)
      BY <1>2, <2>2
    <3>2. v[l + 1].kind = "StartSessionConfirm" /\ v[l + 1].n = v[i].n
      BY <1>1, <1>6, <2>2
    <3> QED
      BY <3>1, <3>2
  <2> QED
    BY <1>5, <2>1, <2>2
<1>11. \A m \in 1..k : R(m) # "NoOperation" =>
         \E i \in 1..Len(v) : v[i].kind # "CnNodeNotification" /\ v[i].n = m
  <2> SUFFICES ASSUME NEW m \in 1..k, R(m) # "NoOperation"
               PROVE  \E i \in 1..Len(v) : v[i].kind # "CnNodeNotification" /\ v[i].n = m
    OBVIOUS
  <2>1. CASE m = k
    <3>1. Len(a) # 0
      BY <1>1, <2>1
    <3>2. a[1].kind # "CnNodeNotification"
      BY <1>1, <3>1
    <3> QED
      BY <1>6, <2>1, <3>1, <3>2
  <2>2. CASE m # k
    <3>1. m \in 1..n
      BY <2>2
    <3> PICK i \in 1..l : w[i].kind # "CnNodeNotification" /\ w[i].n = m
      BY <1>3, <3>1
    <3>2. i \in 1..Len(v) /\ v[i] = w[i]
      BY <1>2
    <3> QED
      BY <3>2
  <2> QED
    BY <2>1, <2>2
<1>12. AnswersInOrder(c, k, v)
  BY <1>7, <1>8, <1>9, <1>10, <1>11 DEF AnswersInOrder, Confirms, R
<1> QED
  BY <1>12 DEF v, a

(* What has been written and what has still to be is together unchanged by *)
(* the writing.                                                            *)
LEMMA Written ==
  ASSUME NEW S, NEW s \in Seq(S), NEW t \in Seq(S), t # <<>>
  PROVE  Append(s, Head(t)) \o Tail(t) = s \o t
OBVIOUS

LEMMA AnswersStep == TypeOK /\ AnswersInv /\ [Next]_vars => AnswersInv'
<1> SUFFICES ASSUME TypeOK, AnswersInv, [Next]_vars PROVE AnswersInv'
  OBVIOUS
<1>t. MockTypeOK
  BY DEF TypeOK
<1>u. ASSUME UNCHANGED <<got, answers, todo>>, \A c \in Conns : conn'[c] = "up" => conn[c] = "up",
             \A c \in Conns : conn'[c] = "none" => handler'[c] = "none",
             \A c \in Conns : handler'[c] = "none" => handler[c] = "none"
      PROVE  AnswersInv'
  BY <1>u DEF AnswersInv, ConfirmsInOrder
<1>1. ASSUME NEW c \in Conns, Dial(c) PROVE AnswersInv'
  <2>1. handler[c] = "none" /\ got[c] = 0 /\ answers[c] = <<>> /\ todo[c] = <<>>
    BY <1>1, <1>t DEF Dial, AnswersInv, MockTypeOK
  <2>2. UNCHANGED <<got, answers, todo, handler>> /\ \A d \in Conns : d # c => conn'[d] = conn[d]
    BY <1>1, <1>t DEF Dial, MockTypeOK
  <2>3. conn'[c] = "up"
    BY <1>1, <1>t DEF Dial, MockTypeOK
  <2>4. AnswersInOrder(c, 0, <<>> \o <<>>)
    BY DEF AnswersInOrder, Confirms
  <2> QED
    BY <2>1, <2>2, <2>3, <2>4 DEF AnswersInv, ConfirmsInOrder
<1>2. ASSUME NEW c \in Conns, ReadMessage(c) PROVE AnswersInv'
  <2>0. UNCHANGED <<conn, answers>> /\ handler[c] = "reading" /\ got[c] < sent[c]
    BY <1>2 DEF ReadMessage
  <2>1. CASE GetStructForType(Message(c, got[c] + 1).kind) = "nil"
    BY <1>u, <1>2, <2>0, <2>1 DEF ReadMessage, AnswersInv
  <2>2. CASE GetStructForType(Message(c, got[c] + 1).kind) # "nil"
    <3>1. /\ got' = [got EXCEPT ![c] = @ + 1]
          /\ todo' = [todo EXCEPT ![c] = Answers(Message(c, got[c] + 1))]
          /\ \A d \in Conns : d # c => handler'[d] = handler[d]
          /\ handler'[c] \in {"reading", "answering"}
      BY <1>2, <1>t, <2>2 DEF ReadMessage, MockTypeOK
    <3>2. got[c] \in Nat /\ got[c] + 1 \in 1..Len(Script[c]) /\ todo[c] = <<>> /\ answers[c] \in Seq(AppFrame)
      BY <1>t, <2>0, ScriptLength DEF MockTypeOK
    <3>3. answers[c] \o todo[c] = answers[c]
      BY <3>2, ConcatEmptySeq, Zenon
    <3>4. conn[c] = "up" => AnswersInOrder(c, got[c], answers[c])
      BY <3>3 DEF AnswersInv, ConfirmsInOrder
    <3>5. conn[c] = "up" => AnswersInOrder(c, got[c] + 1, answers[c] \o Answers(Message(c, got[c] + 1)))
      BY <3>2, <3>4, AnswersAppended
    <3>6. /\ got'[c] = got[c] + 1 /\ todo'[c] = Answers(Message(c, got[c] + 1))
          /\ \A d \in Conns : d # c => got'[d] = got[d] /\ todo'[d] = todo[d]
      BY <1>t, <3>1 DEF MockTypeOK
    <3> QED
      BY <2>0, <3>1, <3>5, <3>6 DEF AnswersInv, ConfirmsInOrder
  <2> QED
    BY <2>1, <2>2
<1>3. ASSUME NEW c \in Conns, Respond(c) PROVE AnswersInv'
  <2>1. /\ got' = got /\ handler[c] = "answering" /\ handler'[c] # "none"
        /\ todo[c] # <<>> /\ todo[c] \in Seq(AppFrame) /\ answers[c] \in Seq(AppFrame)
        /\ todo'[c] = Tail(todo[c])
        /\ conn'[c] = "up" => conn[c] = "up" /\ answers'[c] = Append(answers[c], Head(todo[c]))
        /\ conn'[c] = "none" => conn[c] = "none"
    BY <1>3, <1>t DEF Respond, MockTypeOK
  <2>2. \A d \in Conns : d # c =>
          /\ todo'[d] = todo[d] /\ answers'[d] = answers[d]
          /\ conn'[d] = conn[d] /\ handler'[d] = handler[d]
    BY <1>3, <1>t DEF Respond, MockTypeOK
  <2>3. Append(answers[c], Head(todo[c])) \o Tail(todo[c]) = answers[c] \o todo[c]
    BY <2>1, Written, Zenon
  <2> QED
    BY <2>1, <2>2, <2>3 DEF AnswersInv, ConfirmsInOrder
<1>4. ASSUME NEW c \in Conns, Send(c) \/ HangUp(c) \/ ReadReset(c) \/ ReadEof(c) \/ Accept(c) PROVE AnswersInv'
  <2>1. UNCHANGED <<got, answers, todo>>
    BY <1>4 DEF Send, HangUp, ReadReset, ReadEof, Accept
  <2>2. \A d \in Conns : d # c => conn'[d] = conn[d] /\ handler'[d] = handler[d]
    BY <1>4, <1>t DEF Send, HangUp, ReadReset, ReadEof, Accept, MockTypeOK
  <2>3. /\ conn'[c] = "up" => conn[c] = "up"
        /\ conn'[c] = "none" => handler'[c] = "none"
        /\ handler'[c] = "none" => handler[c] = "none"
    BY <1>4, <1>t DEF Send, HangUp, ReadReset, ReadEof, Accept, MockTypeOK, AnswersInv
  <2> QED
    BY <1>u, <2>1, <2>2, <2>3 DEF AnswersInv
<1>5. ASSUME SelectAccept \/ AcceptTimeout \/ ShutDown \/ MockExits \/ QuitMock \/ UNCHANGED mockVars PROVE AnswersInv'
  <2>1. UNCHANGED <<got, answers, todo, handler>>
    BY <1>5 DEF SelectAccept, AcceptTimeout, ShutDown, MockExits, QuitMock, mockVars
  <2>2. \A d \in Conns : conn'[d] = conn[d] \/ (handler[d] = "none" /\ conn'[d] = "closed")
    BY <1>5, <1>t DEF SelectAccept, AcceptTimeout, ShutDown, MockExits, QuitMock, mockVars, MockTypeOK
  <2> QED
    BY <1>u, <2>1, <2>2 DEF AnswersInv
<1>6. ASSUME Mock PROVE AnswersInv'
  BY <1>1, <1>2, <1>3, <1>4, <1>5, <1>6 DEF Mock, MockRun, HandleClient, App
<1>7. ASSUME ~Mock, ~MockStopQuits PROVE UNCHANGED mockVars
  BY <1>7 DEF Next, Interrupt, Main, TakeSignal, StopCloses, StopQuits, StopReturns, StopPanics,
         MockStopReturns, Exit, Discover, vars
<1>8. MockStopQuits => QuitMock
  BY DEF MockStopQuits
<1> QED
  BY <1>5, <1>6, <1>7, <1>8

(* For any number of apps and any messages: while an app is connected it   *)
(* has got, or is going to get, one confirm for each message that has one, *)
(* in order, with its reference and its address; the notifications of a    *)
(* session come after the session's confirm.                               *)
THEOREM AnsweredInOrder == Spec => []ConfirmsInOrder
<1>1. Init => AnswersInv
  BY DEF Init, MockInit, AnswersInv, ConfirmsInOrder
<1>2. AnswersInv => ConfirmsInOrder
  BY DEF AnswersInv
<1> QED
  BY <1>1, <1>2, AnswersStep, TypeCorrect, PTL DEF Spec
=============================================================================
