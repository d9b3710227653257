------------------------------ MODULE MockLanC ------------------------------
(***************************************************************************)
(* pkg/mockLanC/mockLanC.go: a gateway for tests, which answers an app's   *)
(* requests by itself.                                                     *)
(*                                                                         *)
(* Run accepts connections until the channel quit is closed and starts a   *)
(* goroutine for each, which reads one message after the other and writes  *)
(* its answers.  There are no deadlines on the connections: a goroutine    *)
(* ends when its app hangs up, and Run waits for all of them.              *)
(*                                                                         *)
(* An app reads what it is sent, so that no write blocks, and connects     *)
(* once.                                                                   *)
(***************************************************************************)
EXTENDS Messages

CONSTANT Script   \* bound: the kinds of the messages each app sends

ASSUME ScriptAssumption == Script \in [Conns -> Seq(Kinds)]

VARIABLES
  status,      \* of the process: running, exited, panicked
  mrun,        \* Run: select, accept, wait, exited
  listening,   \* is the listener open?
  mquit,       \* TRUE once the channel quit is closed
  conn,        \* none, up, fin or rst (by the app), dead after a reset that
               \* was reported, closed (by the mock)
  handler,     \* none, reading, answering, done
  sent,        \* how many messages of its script each app has written
  got,         \* how many of them were read
  todo,        \* the answers that the goroutine still has to write
  answers      \* what has come back to the app

mockVars == <<mrun, listening, mquit, conn, handler, sent, got, todo, answers>>

MockTypeOK ==
  /\ status \in {"running", "exited", "panicked"}
  /\ mrun \in {"select", "accept", "wait", "exited"}
  /\ listening \in BOOLEAN /\ mquit \in BOOLEAN
  /\ conn \in [Conns -> {"none", "up", "fin", "rst", "dead", "closed"}]
  /\ handler \in [Conns -> {"none", "reading", "answering", "done"}]
  /\ sent \in [Conns -> Nat] /\ got \in [Conns -> Nat]
  /\ todo \in [Conns -> Seq(AppFrame)] /\ answers \in [Conns -> Seq(AppFrame)]
  /\ \A c \in Conns :
       /\ got[c] <= sent[c] /\ sent[c] <= Len(Script[c])
       /\ handler[c] = "answering" <=> todo[c] # <<>>

MockInit ==
  /\ status = "running"
  /\ mrun = "select"
  /\ listening = TRUE
  /\ mquit = FALSE
  /\ conn = [c \in Conns |-> "none"]
  /\ handler = [c \in Conns |-> "none"]
  /\ sent = [c \in Conns |-> 0]
  /\ got = [c \in Conns |-> 0]
  /\ todo = [c \in Conns |-> <<>>]
  /\ answers = [c \in Conns |-> <<>>]

-----------------------------------------------------------------------------
(* The apps (outside the code) *)

Dial(c) ==
  /\ conn[c] = "none"
  /\ listening
  /\ conn' = [conn EXCEPT ![c] = "up"]
  /\ UNCHANGED <<status, mrun, listening, mquit, handler, sent, got, todo, answers>>

Send(c) ==
  /\ conn[c] = "up"
  /\ sent[c] < Len(Script[c])
  /\ sent' = [sent EXCEPT ![c] = @ + 1]
  /\ UNCHANGED <<status, mrun, listening, mquit, conn, handler, got, todo, answers>>

HangUp(c) ==
  /\ conn[c] = "up"
  /\ \E end \in {"fin", "rst"} : conn' = [conn EXCEPT ![c] = end]
  /\ UNCHANGED <<status, mrun, listening, mquit, handler, sent, got, todo, answers>>

-----------------------------------------------------------------------------
(* Run *)

SelectAccept ==
  /\ mrun = "select"
  /\ ~mquit
  /\ mrun' = "accept"
  /\ UNCHANGED <<status, listening, mquit, conn, handler, sent, got, todo, answers>>

AcceptTimeout ==
  /\ mrun = "accept"
  /\ mrun' = "select"
  /\ UNCHANGED <<status, listening, mquit, conn, handler, sent, got, todo, answers>>

(* handlers.Add, and the goroutine.  The app may have hung up by then. *)
Accept(c) ==
  /\ mrun = "accept"
  /\ handler[c] = "none"
  /\ conn[c] # "none"
  /\ handler' = [handler EXCEPT ![c] = "reading"]
  /\ mrun' = "select"
  /\ UNCHANGED <<status, listening, mquit, conn, sent, got, todo, answers>>

(* m.listener.Close, which resets the connections not accepted. *)
ShutDown ==
  /\ mrun = "select"
  /\ mquit
  /\ listening' = FALSE
  /\ conn' = [c \in Conns |-> IF handler[c] = "none" THEN "closed" ELSE conn[c]]
  /\ mrun' = "wait"
  /\ UNCHANGED <<status, mquit, handler, sent, got, todo, answers>>

(* Mutant: the shutdown does not wait for the goroutines. *)
MockExitsAtOnce ==
  /\ mrun = "wait"
  /\ mrun' = "exited"
  /\ UNCHANGED <<status, listening, mquit, conn, handler, sent, got, todo, answers>>

(* handlers.Wait, close(exited) *)
MockExits ==
  /\ mrun = "wait"
  /\ \A c \in Conns : handler[c] \in {"none", "done"}
  /\ mrun' = "exited"
  /\ UNCHANGED <<status, listening, mquit, conn, handler, sent, got, todo, answers>>

-----------------------------------------------------------------------------
(* handleClient *)

(* A type without a response type is answered with nothing: respond writes *)
(* zero bytes.  The two notifications differ only in their nodes.          *)
Answers(m) ==
  IF m.kind = "StartSessionRequest"
    THEN << CreateResponse(m), CreateCustomResponse(m, "CnNodeNotification"),
            CreateCustomResponse(m, "CnNodeNotification") >>
    ELSE IF GetStructForType(ResponseTypeFor(m.kind)) = "nil" THEN <<>>
                                                              ELSE << CreateResponse(m) >>

Message(c, i) == [app |-> c, n |-> i, kind |-> Script[c][i], src |-> c]

(* GetMessageFromSocket panics on a message whose type has no struct. *)
ReadMessage(c) ==
  /\ handler[c] = "reading"
  /\ conn[c] # "dead"
  /\ got[c] < sent[c]
  /\ LET m == Message(c, got[c] + 1) IN
       IF GetStructForType(m.kind) = "nil"
         THEN status' = "panicked" /\ UNCHANGED <<handler, got, todo>>
         ELSE /\ got' = [got EXCEPT ![c] = @ + 1]
              /\ todo' = [todo EXCEPT ![c] = Answers(m)]
              /\ handler' = [handler EXCEPT
                               ![c] = IF Answers(m) = <<>> THEN "reading" ELSE "answering"]
              /\ UNCHANGED status
  /\ UNCHANGED <<mrun, listening, mquit, conn, sent, answers>>

(* Any error but the end of file is logged and the read tried again.  A    *)
(* reset is such an error; after it the connection reads as ended.         *)
ReadReset(c) ==
  /\ handler[c] = "reading"
  /\ conn[c] = "rst"
  /\ conn' = [conn EXCEPT ![c] = "dead"]
  /\ UNCHANGED <<status, mrun, listening, mquit, handler, sent, got, todo, answers>>

(* Mutant: the end of file is an error like the others. *)
ReadEofAgain(c) ==
  /\ handler[c] = "reading"
  /\ (conn[c] = "dead" \/ (conn[c] = "fin" /\ got[c] = sent[c]))
  /\ UNCHANGED <<status, mockVars>>

(* The end of file closes the connection and ends the goroutine. *)
ReadEof(c) ==
  /\ handler[c] = "reading"
  /\ (conn[c] = "dead" \/ (conn[c] = "fin" /\ got[c] = sent[c]))
  /\ handler' = [handler EXCEPT ![c] = "done"]
  /\ conn' = [conn EXCEPT ![c] = "closed"]
  /\ UNCHANGED <<status, mrun, listening, mquit, sent, got, todo, answers>>

(* Mutant: the next message is read after the first of the answers. *)
RespondOnce(c) ==
  /\ handler[c] = "answering"
  /\ answers' = IF conn[c] = "up" THEN [answers EXCEPT ![c] = Append(@, Head(todo[c]))]
                                  ELSE answers
  /\ conn' = IF conn[c] = "rst" THEN [conn EXCEPT ![c] = "dead"] ELSE conn
  /\ todo' = [todo EXCEPT ![c] = Tail(@)]
  /\ handler' = [handler EXCEPT ![c] = "reading"]
  /\ UNCHANGED <<status, mrun, listening, mquit, sent, got>>

(* respond; nobody looks at its error, which reports a reset too. *)
Respond(c) ==
  /\ handler[c] = "answering"
  /\ answers' = IF conn[c] = "up" THEN [answers EXCEPT ![c] = Append(@, Head(todo[c]))]
                                  ELSE answers
  /\ conn' = IF conn[c] = "rst" THEN [conn EXCEPT ![c] = "dead"] ELSE conn
  /\ todo' = [todo EXCEPT ![c] = Tail(@)]
  /\ handler' = [handler EXCEPT ![c] = IF Len(todo[c]) = 1 THEN "reading" ELSE @]
  /\ UNCHANGED <<status, mrun, listening, mquit, sent, got>>

-----------------------------------------------------------------------------
(* Stop, but for the wait for exited: close(quit), which panics when quit  *)
(* is closed already.                                                      *)
QuitMock ==
  /\ mquit' = TRUE
  /\ UNCHANGED <<status, mrun, listening, conn, handler, sent, got, todo, answers>>

-----------------------------------------------------------------------------
App(c) == Dial(c) \/ Send(c) \/ HangUp(c)

MockRun ==
  \/ SelectAccept \/ AcceptTimeout \/ ShutDown \/ MockExits
  \/ \E c \in Conns : Accept(c)

HandleClient(c) == ReadMessage(c) \/ ReadReset(c) \/ ReadEof(c) \/ Respond(c)

-----------------------------------------------------------------------------
(* The frames w answer the first n messages of an app: a confirm for each  *)
(* message that has one, in the order of the messages and behind whatever  *)
(* belongs to earlier ones, with the message's reference and addressed to  *)
(* the app; the notifications of a session behind its confirm.             *)
Confirms(w) == {i \in 1..Len(w) : w[i].kind # "CnNodeNotification"}

AnswersInOrder(c, n, w) ==
  /\ \A i \in 1..Len(w) : w[i].n \in 1..n
  /\ \A j \in Confirms(w) : \A i \in 1..(j - 1) : w[i].n < w[j].n
  /\ \A i \in Confirms(w) :
       /\ w[i].dst = c
       /\ w[i].kind = ResponseTypeFor(Script[c][w[i].n])
       /\ w[i].kind # "NoOperation"
  /\ \A i \in 1..Len(w) : i \notin Confirms(w) =>
       \E j \in 1..(i - 1) : w[j].kind = "StartSessionConfirm" /\ w[j].n = w[i].n
  /\ \A k \in 1..n : ResponseTypeFor(Script[c][k]) # "NoOperation" =>
       \E i \in Confirms(w) : w[i].n = k

(* While an app is connected, what it was sent and what the goroutine has  *)
(* still to write answers every message that was read, in order.           *)
ConfirmsInOrder ==
  \A c \in {d \in Conns : conn[d] = "up"} :
    AnswersInOrder(c, got[c], answers[c] \o todo[c])

(* ConfirmsInOrder, made inductive: an app that was not accepted has got   *)
(* nothing, and one that did not connect is not accepted.                  *)
AnswersInv ==
  /\ ConfirmsInOrder
  /\ \A c \in Conns :
       /\ conn[c] = "none" => handler[c] = "none"
       /\ handler[c] = "none" => got[c] = 0 /\ answers[c] = <<>>
=============================================================================
