------------------------------ MODULE Listener ------------------------------
(***************************************************************************)
(* The app side of the proxy: pkg/proxy/listener.go.                       *)
(*                                                                         *)
(* Listener.Run accepts connections; each one gets a handler goroutine     *)
(* that registers the app in the apps map and loops over HandleConnection, *)
(* and HandleConnection starts a socket reader goroutine that feeds it     *)
(* through a channel.  The handler answers RegisterApp and StartSession    *)
(* itself and forwards everything else to the proxy loop.                  *)
(*                                                                         *)
(* A socket is the log of what was written to it and the number of         *)
(* messages read from it: sent[c] and got[c] towards the proxy,            *)
(* received[c] towards the app.                                            *)
(***************************************************************************)
EXTENDS Messages, Runtime

CONSTANTS
  Cap,        \* the capacity of every message channel (500 in the code)
  MaxUp,      \* bound: messages each app sends
  AppKinds,   \* AppKinds[n]: the types the n-th message of an app may have
  MayClose,   \* the apps that may close their connection
  MayStall    \* the apps that may stop reading from their connection

ASSUME ListenerAssumption ==
  /\ Cap \in Nat \ {0}
  /\ MaxUp \in Nat
  /\ AppKinds \in [1..MaxUp -> SUBSET Kinds]
  /\ MayClose \subseteq Conns
  /\ MayStall \subseteq Conns

VARIABLES
  net,        \* net[c]: idle, dialed (in the kernel's backlog) or open
  closed,     \* the apps that have closed their end
  stalled,    \* the apps whose receive window is full
  sent,       \* sent[c]: the messages app c has written, in order
  received,   \* received[c]: the frames written to app c, in order
  lpc,        \* Listener.Run
  rpc,        \* rpc[c]: the socket reader of c's first HandleConnection
  got,        \* got[c]: how many messages of sent[c] it has read
  rbuf,       \* rbuf[c]: the message it holds, <<>> when none
  mch,        \* mch[c]: messageChannel
  hpc,        \* hpc[c]: the handler
  hbuf,       \* hbuf[c]: the message it handles, <<>> when none
  late,       \* late[c]: readers started after the cancellation, not done yet
  apps,       \* the keys of the map Listener.apps
  uuid,       \* uuid[c]: the uuid field of the App that apps[c] points to
  toGateway   \* the channel listenerToGateway

socketVars == <<net, closed, stalled, sent, received>>
readerVars == <<rpc, got, rbuf, late>>
handlerVars == <<hpc, hbuf, mch>>
appsVars == <<apps, uuid>>
listenerVars ==
  <<net, closed, stalled, sent, received, lpc, rpc, got, rbuf, mch, hpc, hbuf,
    late, apps, uuid, toGateway>>

ListenerTypeOK ==
  /\ net \in [Conns -> {"idle", "dialed", "open"}]
  /\ closed \subseteq Conns
  /\ stalled \subseteq Conns
  /\ sent \in [Conns -> Seq(Request)]
  /\ received \in [Conns -> Seq(AppFrame)]
  /\ lpc \in {"none", "select", "accept", "handlers", "done"}
  /\ rpc \in [Conns -> {"none", "select", "read", "push", "gone"}]
  /\ got \in [Conns -> Nat]
  /\ rbuf \in [Conns -> Seq(Request)]
  /\ mch \in [Conns -> Seq(Request)]
  /\ hpc \in [Conns -> {"none", "insert", "inserting", "select", "handle",
                        "node1", "node2", "again"}]
  /\ hbuf \in [Conns -> Seq(Request)]
  /\ late \in [Conns -> Nat]
  /\ apps \subseteq Conns
  /\ uuid \in [Conns -> Uuids]
  /\ toGateway \in Seq(Request)
  /\ Len(toGateway) <= Cap
  /\ \A c \in Conns :
       /\ hpc[c] = "none" <=> net[c] # "open"
       /\ Len(rbuf[c]) = IF rpc[c] = "push" THEN 1 ELSE 0
       /\ Len(mch[c]) <= Cap
       /\ Len(hbuf[c]) = IF hpc[c] \in {"handle", "node1", "node2"} THEN 1 ELSE 0

ListenerInit ==
  /\ net = [c \in Conns |-> "idle"]
  /\ closed = {}
  /\ stalled = {}
  /\ sent = [c \in Conns |-> <<>>]
  /\ received = [c \in Conns |-> <<>>]
  /\ lpc = "none"
  /\ rpc = [c \in Conns |-> "none"]
  /\ got = [c \in Conns |-> 0]
  /\ rbuf = [c \in Conns |-> <<>>]
  /\ mch = [c \in Conns |-> <<>>]
  /\ hpc = [c \in Conns |-> "none"]
  /\ hbuf = [c \in Conns |-> <<>>]
  /\ late = [c \in Conns |-> 0]
  /\ apps = {}
  /\ uuid = [c \in Conns |-> NoUuid]
  /\ toGateway = <<>>

-----------------------------------------------------------------------------
(* The apps (outside the code). *)

AppDial(c) ==
  /\ net[c] = "idle"
  /\ lpc \in {"none", "select", "accept"}  \* NewListener listens before Run
  /\ net' = [net EXCEPT ![c] = "dialed"]
  /\ UNCHANGED <<closed, stalled, sent, received>>

AppSend(c) ==
  /\ net[c] # "idle"
  /\ c \notin closed
  /\ Len(sent[c]) < MaxUp
  /\ \E kind \in AppKinds[Len(sent[c]) + 1] :
       sent' = [sent EXCEPT ![c] =
         Append(@, [app |-> c, n |-> Len(@) + 1, kind |-> kind, src |-> c])]
  /\ UNCHANGED <<net, closed, stalled, received>>

AppClose(c) ==
  /\ c \in MayClose \ closed
  /\ net[c] # "idle"
  /\ closed' = closed \cup {c}
  /\ UNCHANGED <<net, stalled, sent, received>>

AppStall(c) ==
  /\ c \in MayStall \ stalled
  /\ net[c] = "open"
  /\ stalled' = stalled \cup {c}
  /\ UNCHANGED <<net, closed, sent, received>>

(* net.Conn.Write to an app: no write deadline is ever set, so it blocks   *)
(* while the app's window is full.  A write to a closed connection fails   *)
(* or is discarded by the peer; the code only logs.                        *)
Writable(c) == c \notin stalled \/ c \in closed

WriteToApp(c, f) ==
  received' = IF c \in closed THEN received
              ELSE [received EXCEPT ![c] = Append(@, f)]

-----------------------------------------------------------------------------
(* Listener.Run *)

(* case <-ctx.Done(): close the listening socket, wait for the handlers *)
ListenerShutDown ==
  /\ lpc = "select"
  /\ ctx
  /\ lpc' = "handlers"
  /\ UNCHANGED <<readerVars, handlerVars, appsVars, socketVars, toGateway,
                 status, wgVars>>

(* handlers.Wait() returns: no handler ever leaves its loop, because       *)
(* HandleConnection only returns nil, so this takes a listener that has    *)
(* accepted no connection.                                                 *)
ListenerDone ==
  /\ lpc = "handlers"
  /\ \A c \in Conns : hpc[c] = "none"
  /\ lpc' = "done"
  /\ WgDone
  /\ UNCHANGED <<readerVars, handlerVars, appsVars, socketVars, toGateway>>

(* default: SetDeadline, Accept *)
ListenerAccepting ==
  /\ lpc = "select"
  /\ ~ctx
  /\ lpc' = "accept"
  /\ UNCHANGED <<readerVars, handlerVars, appsVars, socketVars, toGateway,
                 status, wgVars>>

(* Accept times out after a second without a connection *)
AcceptTimeout ==
  /\ lpc = "accept"
  /\ \A c \in Conns : net[c] # "dialed"
  /\ lpc' = "select"
  /\ UNCHANGED <<readerVars, handlerVars, appsVars, socketVars, toGateway,
                 status, wgVars>>

Accept(c) ==
  /\ lpc = "accept"
  /\ net[c] = "dialed"
  /\ lpc' = "select"
  /\ net' = [net EXCEPT ![c] = "open"]
  /\ hpc' = [hpc EXCEPT ![c] = "insert"]
  /\ UNCHANGED <<closed, stalled, sent, received, readerVars, hbuf, mch,
                 appsVars, toGateway, status, wgVars>>

-----------------------------------------------------------------------------
(* The handler goroutine: app := App{conn: conn}; l.apps[addr] = &app;     *)
(* app.HandleConnection(...), again and again until it returns an error.   *)

(* The assignment to the map is not protected by a lock; it has a begin    *)
(* and an end so that it can overlap with other accesses.                  *)
InsertBegin(c) ==
  /\ hpc[c] = "insert"
  /\ hpc' = [hpc EXCEPT ![c] = "inserting"]
  /\ UNCHANGED <<lpc, readerVars, hbuf, mch, appsVars, socketVars, toGateway,
                 status, wgVars>>

(* The new App has no uuid yet.  HandleConnection makes a channel, starts  *)
(* a reader on it and enters its loop.  In a second round the context is   *)
(* cancelled, and the new reader will do nothing but wg.Done().            *)
InsertEnd(c) ==
  /\ hpc[c] = "inserting"
  /\ apps' = apps \cup {c}
  /\ uuid' = [uuid EXCEPT ![c] = NoUuid]
  /\ IF rpc[c] = "none"
     THEN /\ hpc' = [hpc EXCEPT ![c] = "select"]
          /\ rpc' = [rpc EXCEPT ![c] = "select"]
          /\ UNCHANGED late
     ELSE /\ hpc' = [hpc EXCEPT ![c] = "again"]
          /\ late' = [late EXCEPT ![c] = @ + 1]
          /\ UNCHANGED rpc
  /\ UNCHANGED <<lpc, got, rbuf, hbuf, mch, socketVars, toGateway, status, wgVars>>

(* case <-ctx.Done(): wg.Done(); return nil.  The WaitGroup was never      *)
(* told about this goroutine.  The nil error makes the handler start over. *)
HandlerDone(c) ==
  /\ hpc[c] \in {"select", "again"}
  /\ ctx
  /\ hpc' = [hpc EXCEPT ![c] = "insert"]
  /\ WgDone
  /\ UNCHANGED <<lpc, readerVars, hbuf, mch, appsVars, socketVars, toGateway>>

HandlerTakeFrom(c, newUuid) ==
  /\ hpc[c] = "select"
  /\ mch[c] # <<>>
  /\ hbuf' = [hbuf EXCEPT ![c] = <<Head(mch[c])>>]
  /\ mch' = [mch EXCEPT ![c] = Tail(@)]
  /\ uuid' = [uuid EXCEPT ![c] = newUuid]
  /\ hpc' = [hpc EXCEPT ![c] = "handle"]
  /\ UNCHANGED <<lpc, readerVars, apps, socketVars, toGateway, status, wgVars>>

(* Mutants: the uuid is taken from Message.Dst, or not taken at all. *)
HandlerTakeDst(c) == HandlerTakeFrom(c, Self)

HandlerTakeKeepsUuid(c) == HandlerTakeFrom(c, uuid[c])

(* case message := <-messageChannel: a.uuid = message.Src; a.handleMessage *)
HandlerTake(c) == HandlerTakeFrom(c, Head(mch[c]).src)

IsLocal(m) == m.kind \in {"RegisterAppRequest", "StartSessionRequest"}

(* case "RegisterAppRequestType": confirm it *)
HandleRegister(c) ==
  /\ hpc[c] = "handle"
  /\ hbuf[c][1].kind = "RegisterAppRequest"
  /\ Writable(c)
  /\ WriteToApp(c, CreateResponse(hbuf[c][1]))
  /\ uuid' = [uuid EXCEPT ![c] = hbuf[c][1].src]
  /\ hbuf' = [hbuf EXCEPT ![c] = <<>>]
  /\ hpc' = [hpc EXCEPT ![c] = "select"]
  /\ UNCHANGED <<lpc, readerVars, mch, apps, net, closed, stalled, sent,
                 toGateway, status, wgVars>>

(* case "StartSessionRequestType": confirm it ... *)
HandleStart(c) ==
  /\ hpc[c] = "handle"
  /\ hbuf[c][1].kind = "StartSessionRequest"
  /\ Writable(c)
  /\ WriteToApp(c, CreateResponse(hbuf[c][1]))
  /\ hpc' = [hpc EXCEPT ![c] = "node1"]
  /\ UNCHANGED <<lpc, readerVars, hbuf, mch, appsVars, net, closed, stalled,
                 sent, toGateway, status, wgVars>>

(* ... and send two node notifications, each a write of its own *)
NotifyNode(c) ==
  /\ hpc[c] \in {"node1", "node2"}
  /\ Writable(c)
  /\ WriteToApp(c, CreateCustomResponse(hbuf[c][1], "CnNodeNotification"))
  /\ IF hpc[c] = "node1"
     THEN hpc' = [hpc EXCEPT ![c] = "node2"] /\ UNCHANGED hbuf
     ELSE hpc' = [hpc EXCEPT ![c] = "select"] /\ hbuf' = [hbuf EXCEPT ![c] = <<>>]
  /\ UNCHANGED <<lpc, readerVars, mch, appsVars, net, closed, stalled, sent,
                 toGateway, status, wgVars>>

(* Mutant: a select with a default case, which drops what does not fit. *)
HandleForwardOrDrop(c) ==
  /\ hpc[c] = "handle"
  /\ ~IsLocal(hbuf[c][1])
  /\ toGateway' = IF Len(toGateway) < Cap THEN Append(toGateway, hbuf[c][1]) ELSE toGateway
  /\ hbuf' = [hbuf EXCEPT ![c] = <<>>]
  /\ hpc' = [hpc EXCEPT ![c] = "select"]
  /\ UNCHANGED <<lpc, readerVars, mch, appsVars, socketVars, status, wgVars>>

(* default: gateway <- message, which blocks while the channel is full *)
HandleForward(c) ==
  /\ hpc[c] = "handle"
  /\ ~IsLocal(hbuf[c][1])
  /\ Len(toGateway) < Cap
  /\ toGateway' = Append(toGateway, hbuf[c][1])
  /\ hbuf' = [hbuf EXCEPT ![c] = <<>>]
  /\ hpc' = [hpc EXCEPT ![c] = "select"]
  /\ UNCHANGED <<lpc, readerVars, mch, appsVars, socketVars, status, wgVars>>

-----------------------------------------------------------------------------
(* The socket reader goroutine of HandleConnection. *)

(* case <-ctx.Done(): wg.Done(), which nobody has accounted for either *)
ReaderDone(c) ==
  /\ rpc[c] = "select"
  /\ ctx
  /\ rpc' = [rpc EXCEPT ![c] = "gone"]
  /\ WgDone
  /\ UNCHANGED <<lpc, got, rbuf, late, handlerVars, appsVars, socketVars, toGateway>>

(* The same, of a reader started once the context was cancelled *)
LateReaderDone(c) ==
  /\ late[c] > 0
  /\ late' = [late EXCEPT ![c] = @ - 1]
  /\ WgDone
  /\ UNCHANGED <<lpc, rpc, got, rbuf, handlerVars, appsVars, socketVars, toGateway>>

(* default: set the 300 ms deadline and call GetMessageFromSocket *)
ReaderReading(c) ==
  /\ rpc[c] = "select"
  /\ ~ctx
  /\ rpc' = [rpc EXCEPT ![c] = "read"]
  /\ UNCHANGED <<lpc, got, rbuf, late, handlerVars, appsVars, socketVars,
                 toGateway, status, wgVars>>

(* A frame arrives whole *)
ReaderRead(c) ==
  /\ rpc[c] = "read"
  /\ got[c] < Len(sent[c])
  /\ rbuf' = [rbuf EXCEPT ![c] = <<sent[c][got[c] + 1]>>]
  /\ got' = [got EXCEPT ![c] = @ + 1]
  /\ rpc' = [rpc EXCEPT ![c] = "push"]
  /\ UNCHANGED <<lpc, late, handlerVars, appsVars, socketVars, toGateway,
                 status, wgVars>>

(* Mutant: a read timeout ends the reader as an end of file does. *)
ReaderTimeoutReturns(c) ==
  /\ rpc[c] = "read"
  /\ got[c] = Len(sent[c])
  /\ c \notin closed
  /\ rpc' = [rpc EXCEPT ![c] = "gone"]
  /\ UNCHANGED <<lpc, got, rbuf, late, handlerVars, appsVars, socketVars,
                 toGateway, status, wgVars>>

(* The deadline passes: continue *)
ReaderTimeout(c) ==
  /\ rpc[c] = "read"
  /\ got[c] = Len(sent[c])
  /\ c \notin closed
  /\ rpc' = [rpc EXCEPT ![c] = "select"]
  /\ UNCHANGED <<lpc, got, rbuf, late, handlerVars, appsVars, socketVars,
                 toGateway, status, wgVars>>

(* io.EOF: return.  The handler is not told, the app stays in the map, the *)
(* connection is not closed.                                               *)
ReaderEof(c) ==
  /\ rpc[c] = "read"
  /\ got[c] = Len(sent[c])
  /\ c \in closed
  /\ rpc' = [rpc EXCEPT ![c] = "gone"]
  /\ UNCHANGED <<lpc, got, rbuf, late, handlerVars, appsVars, socketVars,
                 toGateway, status, wgVars>>

(* messageChannel <- message *)
ReaderPush(c) ==
  /\ rpc[c] = "push"
  /\ Len(mch[c]) < Cap
  /\ mch' = [mch EXCEPT ![c] = @ \o rbuf[c]]
  /\ rbuf' = [rbuf EXCEPT ![c] = <<>>]
  /\ rpc' = [rpc EXCEPT ![c] = "select"]
  /\ UNCHANGED <<lpc, got, late, hpc, hbuf, appsVars, socketVars, toGateway,
                 status, wgVars>>

-----------------------------------------------------------------------------
ListenerRun ==
  \/ ListenerShutDown
  \/ ListenerDone
  \/ ListenerAccepting
  \/ AcceptTimeout
  \/ \E c \in Conns : Accept(c)

Handler(c) ==
  \/ InsertBegin(c)
  \/ InsertEnd(c)
  \/ HandlerDone(c)
  \/ HandlerTake(c)
  \/ HandleRegister(c)
  \/ HandleStart(c)
  \/ NotifyNode(c)
  \/ HandleForward(c)

Reader(c) ==
  \/ ReaderDone(c)
  \/ LateReaderDone(c)
  \/ ReaderReading(c)
  \/ ReaderRead(c)
  \/ ReaderTimeout(c)
  \/ ReaderEof(c)
  \/ ReaderPush(c)

(* The steps of the app's side leave the process as it is *)
App(c) ==
  /\ \/ AppDial(c)
     \/ AppSend(c)
     \/ AppClose(c)
     \/ AppStall(c)
  /\ UNCHANGED <<lpc, readerVars, handlerVars, appsVars, toGateway, status, wgVars>>

ListenerNext == ListenerRun \/ \E c \in Conns : App(c) \/ Handler(c) \/ Reader(c)
=============================================================================
