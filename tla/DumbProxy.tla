----------------------------- MODULE DumbProxy -----------------------------
(***************************************************************************)
(* cmd/dumbproxy: pkg/dumbproxy/dumbproxy.go and its main.                 *)
(*                                                                         *)
(* For every app that connects, Run dials the gateway and starts two pairs *)
(* of goroutines: proxyReceiveMessage puts what it reads into a channel of *)
(* 100 messages, proxySend writes what it takes from it.  An end of file   *)
(* on any connection ends the process, and so does an interrupt.           *)
(*                                                                         *)
(* Before it passes a message on, proxyReceiveMessage sets the metrics     *)
(* that all goroutines share, one gauge per sensor.                        *)
(*                                                                         *)
(* A frame is read whole or not at all: what a deadline that cuts a frame  *)
(* does is the subject of Framing.  What is read is encoded again to what  *)
(* it was.  The peers read what they are sent, so that no write blocks.    *)
(***************************************************************************)
EXTENDS Runtime, Sequences, Rpdo

LOCAL M == INSTANCE Messages WITH Conns <- {}, Self <- "proxy", NoUuid <- "none"

CONSTANTS
  Apps,         \* the apps that may connect, once each
  QueueCap,     \* the capacity of a channel (100 in the code)
  Script,       \* bound: the messages written into each pipe, by direction
  Faults,       \* what may go wrong: a subset of {"fin", "rst", "refuse"}
  MayInterrupt  \* may main get an interrupt?

(* What a message is to the metrics.  A measurement has a sensor, its      *)
(* bytes and, for the properties, the value that the unit has measured; a  *)
(* CnRpdoRequest has its optional type and zone or not.                    *)
Measurement == [kind : {"CnRpdoNotification"}, ppid : Nat, data : Seq(Byte), value : Int]

Subscription == [kind : {"CnRpdoRequest"}, complete : BOOLEAN]

Other == [kind : M!Kinds \ {"CnRpdoNotification", "CnRpdoRequest"}]

ASSUME DumbProxyAssumption ==
  /\ QueueCap \in Nat \ {0}
  /\ DOMAIN Script = {"up", "down"}
  /\ \A d \in {"up", "down"} :
       Script[d] \in Seq(Measurement \cup Subscription \cup Other)
  /\ Faults \subseteq {"fin", "rst", "refuse"}
  /\ MayInterrupt \in BOOLEAN

(* The unit (outside the code) writes a measurement that the common        *)
(* converter is used for as one of the three types with one byte or two,   *)
(* and with a sign only where cmd/client does not ask for an unsigned one; *)
(* a measurement without any bytes may come as well.                       *)
UnitMeasures ==
  \A d \in {"up", "down"} : \A i \in 1..Len(Script[d]) :
    LET m == Script[d][i]
    IN  m.kind = "CnRpdoNotification" /\ NewPpid(m.ppid) = 1 /\ m.data # <<>> =>
          \E type \in {1, 2, 6} :
            /\ Fits(type, m.value)
            /\ m.data = Measured(type, m.value)
            /\ m.ppid \in AskedFor[1] \cup AskedFor[2] => type # 6

Pipes == Apps \X {"up", "down"}

(* The other direction of the same pair of connections *)
Back(p) == <<p[1], IF p[2] = "up" THEN "down" ELSE "up">>

VARIABLES
  mpc,      \* main
  rpc,      \* Run: select, accept, dial, and the app it has accepted
  accepted,
  link,     \* of the connection a pipe is read from: none, up, fin or rst
            \* (by its peer), dead after a reset that was reported
  piped,    \* the pipes whose goroutines were started
  written,  \* the frames written into each pipe
  read,     \* how many of them were read
  rbuf,     \* the frame proxyReceiveMessage puts into the channel
  queue,    \* the channel
  sbuf,     \* the frame proxySend writes
  out,      \* the frames that came out
  counted,  \* the pipes whose frame in rbuf the metrics have seen
  gauges    \* metricsGauge: the number shown for each sensor seen so far

metricVars == <<counted, gauges>>
pipeVars == <<written, read, rbuf, queue, sbuf, out, metricVars>>
runVars == <<rpc, accepted, piped>>
vars == <<runtimeVars, mpc, runVars, link, pipeVars>>

Frame == UNION {[pipe : {p}, n : 1..Len(Script[p[2]])] : p \in Pipes}

Content(f) == Script[f.pipe[2]][f.n]

TypeOK ==
  /\ RuntimeTypeOK
  /\ mpc \in {"signal", "cancel", "wait", "exit"}
  /\ rpc \in {"select", "accept", "dial"}
  /\ accepted \in SUBSET Apps
  /\ link \in [Pipes -> {"none", "up", "fin", "rst", "dead"}]
  /\ piped \subseteq Pipes
  /\ read \in [Pipes -> Nat]
  /\ counted \subseteq Pipes
  /\ \A s \in DOMAIN gauges : s \in Nat /\ gauges[s] \in Int
  /\ written \in [Pipes -> Seq(Frame)] /\ out \in [Pipes -> Seq(Frame)]
  /\ rbuf \in [Pipes -> Seq(Frame)] /\ sbuf \in [Pipes -> Seq(Frame)]
  /\ queue \in [Pipes -> Seq(Frame)]
  /\ \A p \in Pipes :
       /\ read[p] <= Len(written[p])
       /\ Len(queue[p]) <= QueueCap
       /\ Len(rbuf[p]) <= 1 /\ Len(sbuf[p]) <= 1

Nothing == [p \in Pipes |-> <<>>]

Init ==
  /\ RuntimeInit
  /\ mpc = "signal"
  /\ rpc = "select"
  /\ accepted = {}
  /\ link = [p \in Pipes |-> "none"]
  /\ piped = {}
  /\ written = Nothing
  /\ read = [p \in Pipes |-> 0]
  /\ rbuf = Nothing /\ queue = Nothing /\ sbuf = Nothing /\ out = Nothing
  /\ counted = {}
  /\ gauges = <<>>

-----------------------------------------------------------------------------
(* The apps and the gateway (outside the code).  The kernel completes a    *)
(* connection before Run accepts it, so that an app may write at once.     *)

AppDial(a) ==
  /\ link[<<a, "up">>] = "none"
  /\ link' = [link EXCEPT ![<<a, "up">>] = "up"]
  /\ UNCHANGED <<runtimeVars, mpc, runVars, pipeVars>>

PeerWrite(p) ==
  /\ link[p] = "up"
  /\ Len(written[p]) < Len(Script[p[2]])
  /\ written' = [written EXCEPT ![p] = Append(@, [pipe |-> p, n |-> Len(@) + 1])]
  /\ UNCHANGED <<runtimeVars, mpc, runVars, link, read, rbuf, queue, sbuf, out, metricVars>>

PeerDrop(p) ==
  /\ link[p] = "up"
  /\ \E fault \in Faults \cap {"fin", "rst"} : link' = [link EXCEPT ![p] = fault]
  /\ UNCHANGED <<runtimeVars, mpc, runVars, pipeVars>>

-----------------------------------------------------------------------------
(* main: the loop over the signals *)

Interrupt ==
  /\ MayInterrupt
  /\ mpc = "signal"
  /\ mpc' = "cancel"
  /\ UNCHANGED <<runtimeVars, runVars, link, pipeVars>>

(* Mutant: Stop of the broadcast listener waits for a loop that has ended. *)
CancelAfterStop ==
  /\ mpc = "cancel"
  /\ FALSE
  /\ UNCHANGED vars

(* l.Stop, which returns once the broadcast loop has seen it, then cancel *)
Cancel ==
  /\ mpc = "cancel"
  /\ ctx' = TRUE
  /\ mpc' = "wait"
  /\ UNCHANGED <<status, wgVars, runVars, link, pipeVars>>

(* Nobody has added to the WaitGroup: Wait returns at once. *)
Wait ==
  /\ mpc = "wait"
  /\ wg = 0
  /\ mpc' = "exit"
  /\ UNCHANGED <<runtimeVars, runVars, link, pipeVars>>

Exit ==
  /\ mpc = "exit"
  /\ status' = "exited"
  /\ UNCHANGED <<ctx, wgVars, mpc, runVars, link, pipeVars>>

-----------------------------------------------------------------------------
(* Run *)

(* wg.Done without an Add, which panics. *)
RunDone ==
  /\ rpc = "select"
  /\ ctx
  /\ WgDone
  /\ UNCHANGED <<ctx, mpc, runVars, link, pipeVars>>

RunDefault ==
  /\ rpc = "select"
  /\ ~ctx
  /\ rpc' = "accept"
  /\ UNCHANGED <<runtimeVars, mpc, accepted, piped, link, pipeVars>>

AcceptTimeout ==
  /\ rpc = "accept"
  /\ rpc' = "select"
  /\ UNCHANGED <<runtimeVars, mpc, accepted, piped, link, pipeVars>>

(* A connection that waits to be accepted; its peer may be gone already. *)
Waiting(a) == link[<<a, "up">>] # "none" /\ <<a, "up">> \notin piped

Accept(a) ==
  /\ rpc = "accept"
  /\ Waiting(a)
  /\ accepted' = {a}
  /\ rpc' = "dial"
  /\ UNCHANGED <<runtimeVars, mpc, piped, link, pipeVars>>

DialRefused ==
  /\ rpc = "dial"
  /\ "refuse" \in Faults
  /\ Panic
  /\ UNCHANGED <<ctx, wgVars, mpc, runVars, link, pipeVars>>

Dial ==
  /\ rpc = "dial"
  /\ \E a \in accepted :
       /\ link' = [link EXCEPT ![<<a, "down">>] = "up"]
       /\ piped' = piped \cup {<<a, "up">>, <<a, "down">>}
  /\ accepted' = {}
  /\ rpc' = "select"
  /\ UNCHANGED <<runtimeVars, mpc, pipeVars>>

-----------------------------------------------------------------------------
(* proxyReceiveMessage.  A timeout is logged and tried again. *)

(* GetMessageFromSocket, which panics on a message of a type that has no   *)
(* struct.                                                                 *)
Undecodable(c) == M!GetStructForType(c.kind) = "nil"

Receive(p) ==
  /\ p \in piped
  /\ rbuf[p] = <<>>
  /\ link[p] # "dead"
  /\ read[p] < Len(written[p])
  /\ LET f == written[p][read[p] + 1] IN
       IF Undecodable(Content(f))
         THEN Panic /\ UNCHANGED <<rbuf, read>>
         ELSE /\ rbuf' = [rbuf EXCEPT ![p] = <<f>>]
              /\ read' = [read EXCEPT ![p] = @ + 1]
              /\ UNCHANGED status
  /\ UNCHANGED <<ctx, wgVars, mpc, runVars, link, written, queue, sbuf, out, metricVars>>

(* A reset is logged and tried again.  It is reported once, may take       *)
(* frames with it that are still unread, and leaves a connection that      *)
(* reads as ended.                                                         *)
ReceiveReset(p) ==
  /\ p \in piped
  /\ rbuf[p] = <<>>
  /\ link[p] = "rst"
  /\ link' = [link EXCEPT ![p] = "dead"]
  /\ UNCHANGED <<runtimeVars, mpc, runVars, pipeVars>>

Ended(p) ==
  \/ link[p] = "dead"
  \/ link[p] = "fin" /\ read[p] = Len(written[p])

(* Mutant: the goroutine returns and leaves the rest of the process alone. *)
ReceiveEofReturns(p) ==
  /\ p \in piped
  /\ rbuf[p] = <<>>
  /\ Ended(p)
  /\ UNCHANGED vars

(* os.Exit(0) *)
ReceiveEof(p) ==
  /\ p \in piped
  /\ rbuf[p] = <<>>
  /\ Ended(p)
  /\ status' = "exited"
  /\ UNCHANGED <<ctx, wgVars, mpc, runVars, link, pipeVars>>

(* generateMetrics.  The type and the zone of a subscription are printed   *)
(* without a look whether they are there.                                  *)

Crashes(c) ==
  \/ c.kind = "CnRpdoRequest" /\ ~c.complete
  \/ c.kind = "CnRpdoNotification" /\ ShortFor(NewPpid(c.ppid), c.data)

SetGauge(ppid, value) ==
  gauges' = [s \in DOMAIN gauges \cup {ppid} |-> IF s = ppid THEN value ELSE gauges[s]]

GenerateMetrics(p) ==
  /\ rbuf[p] # <<>> /\ p \notin counted
  /\ LET c == Content(rbuf[p][1]) IN
       IF Crashes(c)
         THEN Panic /\ UNCHANGED metricVars
         ELSE /\ IF c.kind = "CnRpdoNotification"
                   THEN SetGauge(c.ppid, Tofloat64(NewPpid(c.ppid), c.data))
                   ELSE UNCHANGED gauges
              /\ counted' = counted \cup {p}
              /\ UNCHANGED status
  /\ UNCHANGED <<ctx, wgVars, mpc, runVars, link, written, read, rbuf, queue, sbuf, out>>

(* Mutant: a full channel loses its oldest message instead of waiting. *)
EnqueueOverFull(p) ==
  /\ rbuf[p] # <<>> /\ p \in counted
  /\ queue' = [queue EXCEPT ![p] = IF Len(@) < QueueCap THEN @ \o rbuf[p]
                                   ELSE Tail(@) \o rbuf[p]]
  /\ rbuf' = [rbuf EXCEPT ![p] = <<>>]
  /\ counted' = counted \ {p}
  /\ UNCHANGED <<runtimeVars, mpc, runVars, link, written, read, sbuf, out, gauges>>

(* Mutant: the channel has no capacity. *)
EnqueueUnbounded(p) ==
  /\ rbuf[p] # <<>> /\ p \in counted
  /\ queue' = [queue EXCEPT ![p] = @ \o rbuf[p]]
  /\ rbuf' = [rbuf EXCEPT ![p] = <<>>]
  /\ counted' = counted \ {p}
  /\ UNCHANGED <<runtimeVars, mpc, runVars, link, written, read, sbuf, out, gauges>>

Enqueue(p) ==
  /\ rbuf[p] # <<>> /\ p \in counted
  /\ Len(queue[p]) < QueueCap
  /\ queue' = [queue EXCEPT ![p] = @ \o rbuf[p]]
  /\ rbuf' = [rbuf EXCEPT ![p] = <<>>]
  /\ counted' = counted \ {p}
  /\ UNCHANGED <<runtimeVars, mpc, runVars, link, written, read, sbuf, out, gauges>>

(* proxySend: an error of the write is logged, and the message is gone. *)

Dequeue(p) ==
  /\ p \in piped
  /\ sbuf[p] = <<>>
  /\ queue[p] # <<>>
  /\ sbuf' = [sbuf EXCEPT ![p] = <<Head(queue[p])>>]
  /\ queue' = [queue EXCEPT ![p] = Tail(@)]
  /\ UNCHANGED <<runtimeVars, mpc, runVars, link, written, read, rbuf, out, metricVars>>

(* Mutant: proxySend is started with the other pair's connection. *)
WriteBack(p) ==
  /\ sbuf[p] # <<>>
  /\ out' = IF link[p] = "up" THEN [out EXCEPT ![Back(p)] = @ \o sbuf[p]] ELSE out
  /\ sbuf' = [sbuf EXCEPT ![p] = <<>>]
  /\ UNCHANGED <<runtimeVars, mpc, runVars, link, written, read, rbuf, queue, metricVars>>

Write(p) ==
  /\ sbuf[p] # <<>>
  /\ out' = IF link[Back(p)] = "up" THEN [out EXCEPT ![p] = @ \o sbuf[p]] ELSE out
  /\ sbuf' = [sbuf EXCEPT ![p] = <<>>]
  /\ UNCHANGED <<runtimeVars, mpc, runVars, link, written, read, rbuf, queue, metricVars>>

-----------------------------------------------------------------------------
Main == Interrupt \/ Cancel \/ Wait \/ Exit

Run ==
  \/ RunDone \/ RunDefault \/ AcceptTimeout \/ DialRefused \/ Dial
  \/ \E a \in Apps : Accept(a)

ProxyReceive(p) ==
  Receive(p) \/ ReceiveReset(p) \/ ReceiveEof(p) \/ GenerateMetrics(p) \/ Enqueue(p)

ProxySend(p) == Dequeue(p) \/ Write(p)

Peers ==
  \/ \E a \in Apps : AppDial(a)
  \/ \E p \in Pipes : PeerWrite(p) \/ PeerDrop(p)

Next ==
  Running /\ ( \/ Peers \/ Main \/ Run
               \/ \E p \in Pipes : ProxyReceive(p) \/ ProxySend(p) )

(* Every goroutine is scheduled, and main handles a signal it has got.  An *)
(* Accept does not time out for ever while a connection waits: it returns  *)
(* one that is there (strong fairness).                                    *)
Fairness ==
  /\ WF_vars(Running /\ (Cancel \/ Wait \/ Exit))
  /\ WF_vars(Running /\ Run)
  /\ \A a \in Apps : SF_vars(Running /\ Accept(a))
  /\ \A p \in Pipes : WF_vars(Running /\ ProxyReceive(p)) /\ WF_vars(Running /\ ProxySend(p))

Spec == Init /\ [][Next]_vars /\ Fairness

-----------------------------------------------------------------------------
(* A pipe is open while the process runs and the peers at its two ends are *)
(* connected, or the connection to the gateway is not made yet.            *)
Open == {p \in Pipes : Running /\ \A q \in {p, Back(p)} : link[q] \in {"none", "up"}}

Pipe == INSTANCE Pipe WITH
  Payloads <- Frame, sent <- written, delivered <- out, open <- Open

(* Each direction of each app's connection is a pipe: what comes out is a  *)
(* prefix of what that peer wrote, whatever the other apps do and however  *)
(* the process ends; and all of it, while both ends are there.             *)
IsPipe == Pipe!Spec
IsLivePipe == Pipe!LiveSpec

(* A peer that closes or resets its connection, or that sends a message    *)
(* the proxy crashes on, ends the process, with everything that other      *)
(* apps' connections have under way.                                       *)
EndOfOneEndsAll ==
  \A p \in Pipes :
    (\/ link[p] \in {"fin", "rst", "dead"}
     \/ \E n \in 1..Len(written[p]) :
          Undecodable(Content(written[p][n])) \/ Crashes(Content(written[p][n])))
    ~> status # "running"

(* An interrupt ends the process.  It exits or, when Run sees the context  *)
(* first, panics in a Done that nobody made an Add for.                    *)
InterruptEndsProcess == mpc = "cancel" ~> status # "running"

(* How many frames of a pipe the metrics have seen: all that were read but *)
(* one in hand                                                             *)
Seen(p) == read[p] - (IF rbuf[p] # <<>> /\ p \notin counted THEN 1 ELSE 0)

Measures(c, s) == c.kind = "CnRpdoNotification" /\ c.ppid = s

(* The last measurement of a sensor among the first n frames of a pipe *)
LastOf(p, n, s) ==
  {i \in 1..n : /\ Measures(Content(written[p][i]), s)
                /\ \A j \in (i + 1)..n : ~Measures(Content(written[p][j]), s)}

Unsigned == AskedFor[1] \cup AskedFor[2]

(* A gauge shows the value that the unit measured last, as one of the      *)
(* apps' connections has it: exactly for a sensor that cmd/client asks for *)
(* as an unsigned number, and up to a multiple of 65536, which is added to *)
(* a value below zero, for any sensor with the common converter.           *)
GaugesShowLatest ==
  \A s \in DOMAIN gauges : NewPpid(s) = 1 \/ s \in Unsigned =>
    \E p \in Pipes : \E i \in LastOf(p, Seen(p), s) :
      LET v == Content(written[p][i]).value
      IN  gauges[s] = IF s \in Unsigned \/ v >= 0 THEN v ELSE v + 65536

(* GaugesShowLatest, made inductive: the frame in the hands of a goroutine *)
(* is the last that was read, and the metrics have seen no other.          *)
GaugesInv ==
  /\ GaugesShowLatest
  /\ \A p \in Pipes :
       /\ rbuf[p] # <<>> => read[p] >= 1 /\ rbuf[p][1] = written[p][read[p]]
       /\ p \in counted => rbuf[p] # <<>>
=============================================================================
