--------------------------- MODULE DumbProxyProofs ---------------------------
(***************************************************************************)
(* cmd/dumbproxy is a pair of pipes for every app, for any number of apps, *)
(* any messages and any capacity of the channels, and its metrics show     *)
(* what the unit has measured last.                                        *)
(***************************************************************************)
EXTENDS DumbProxy, SequenceTheorems, TLAPS

-----------------------------------------------------------------------------
(* The converters *)

LEMMA ByteOf ==
  ASSUME NEW data \in Seq(Byte), NEW i \in 1..Len(data)
  PROVE  data[i] \in Int
<1>1. data[i] \in Byte
  BY ElementOfSeq, Zenon
<1>2. Byte \subseteq Int
  BY DEF Byte
<1> QED
  BY <1>1, <1>2, Zenon

LEMMA TwoBytes ==
  ASSUME NEW data \in Seq(Byte), Len(data) >= 2
  PROVE  Type2(data) \in Int
<1>1. 1 \in 1..Len(data) /\ 2 \in 1..Len(data)
  OBVIOUS
<1>2. data[1] \in Int /\ data[2] \in Int
  BY <1>1, ByteOf, Zenon
<1> QED
  BY <1>2 DEF Type2

(* A converter that does not crash returns an integer. *)
LEMMA NumberShown ==
  ASSUME NEW ppid \in Nat, NEW data \in Seq(Byte), ~ShortFor(NewPpid(ppid), data)
  PROVE  Tofloat64(NewPpid(ppid), data) \in Int
<1>l. Len(data) \in Nat
  OBVIOUS
<1>1. CASE NewPpid(ppid) = 0
  BY <1>1 DEF Tofloat64, Type0
<1>2. CASE NewPpid(ppid) = 1
  <2>1. Len(data) >= 1
    BY <1>l, <1>2 DEF ShortFor
  <2>2. 1 \in 1..Len(data) /\ (Len(data) > 1 => 2 \in 1..Len(data))
    BY <1>l, <2>1
  <2>3. data[1] \in Int /\ (Len(data) > 1 => data[2] \in Int)
    BY <2>2, ByteOf, Zenon
  <2>4. Type1(data) \in Int
    BY <2>3 DEF Type1
  <2> QED
    BY <1>2, <2>4 DEF Tofloat64
<1>3. CASE NewPpid(ppid) = 3
  <2>1. Len(data) >= 4
    BY <1>l, <1>3 DEF ShortFor
  <2>2. 3 \in 1..Len(data) /\ 4 \in 1..Len(data) /\ Len(data) >= 2
    BY <1>l, <2>1
  <2>3. data[3] \in Int /\ data[4] \in Int
    BY <2>2, ByteOf, Zenon
  <2>4. Type2(data) \in Int
    BY <2>2, TwoBytes, Zenon
  <2>5. Type3(data) \in Int
    BY <2>3, <2>4 DEF Type3
  <2> QED
    BY <1>3, <2>5 DEF Tofloat64
<1>4. CASE NewPpid(ppid) = 6
  <2>1. Len(data) >= 2 => Type2(data) \in Int
    BY TwoBytes, Zenon
  <2>2. Type6(data) \in Int
    BY <1>l, <2>1 DEF Type6, ToInt16
  <2> QED
    BY <1>4, <2>2 DEF Tofloat64
<1> QED
  BY <1>1, <1>2, <1>3, <1>4 DEF NewPpid

(* The common converter undoes what the unit does with an unsigned value   *)
(* of one byte or two, so that a gauge that shows such a measurement shows *)
(* the value itself.                                                       *)
THEOREM UnsignedShown ==
  ASSUME NEW type \in {1, 2}, NEW value \in Nat, value < (IF type = 1 THEN 256 ELSE 65536)
  PROVE  Tofloat64(1, Measured(type, value)) = value
<1>1. CASE type = 1
  <2>1. Measured(type, value) = <<value>>
    BY <1>1 DEF Measured
  <2>2. Type1(<<value>>) = value
    BY DEF Type1
  <2> QED
    BY <2>1, <2>2 DEF Tofloat64
<1>2. CASE type = 2
  <2>1. Measured(type, value) = <<value % 256, value \div 256>>
    BY <1>2 DEF Measured, LowFirst
  <2>2. Type1(<<value % 256, value \div 256>>) = (value % 256) + (value \div 256) * 256
    BY DEF Type1
  <2>3. (value % 256) + (value \div 256) * 256 = value
    OBVIOUS
  <2> QED
    BY <2>1, <2>2, <2>3 DEF Tofloat64
<1> QED
  BY <1>1, <1>2

(* A value below zero comes out 65536 too high. *)
THEOREM SignedShown ==
  ASSUME NEW value \in Int, -32768 <= value, value < 0
  PROVE  Tofloat64(1, Measured(6, value)) = value + 65536
<1>1. value % 65536 = value + 65536
  OBVIOUS
<1> DEFINE n == value + 65536
<1>2. n \in Nat
  OBVIOUS
<1>3. Measured(6, value) = <<n % 256, n \div 256>>
  BY <1>1 DEF Measured, LowFirst
<1>4. (n % 256) + (n \div 256) * 256 = n
  BY <1>2
<1>5. Type1(<<n % 256, n \div 256>>) = n
  <2> HIDE DEF n
  <2> QED
    BY <1>4 DEF Type1
<1> QED
  BY <1>3, <1>5 DEF Tofloat64

-----------------------------------------------------------------------------
(* Type correctness *)

LEMMA PipeParts ==
  ASSUME NEW p \in Pipes
  PROVE  /\ p[1] \in Apps /\ p[2] \in {"up", "down"} /\ p = <<p[1], p[2]>>
         /\ Back(p) \in Pipes /\ Back(p) # p
  BY DEF Pipes, Back

LEMMA ScriptOf ==
  ASSUME NEW p \in Pipes
  PROVE  Script[p[2]] \in Seq(Measurement \cup Subscription \cup Other)
  BY DumbProxyAssumption, PipeParts

LEMMA FrameOf ==
  ASSUME NEW p \in Pipes, NEW n \in 1..Len(Script[p[2]])
  PROVE  [pipe |-> p, n |-> n] \in Frame
<1>1. [pipe |-> p, n |-> n] \in [pipe : {p}, n : 1..Len(Script[p[2]])]
  OBVIOUS
<1> QED
  BY <1>1 DEF Frame

LEMMA ContentOf ==
  ASSUME NEW f \in Frame
  PROVE  Content(f) \in Measurement \cup Subscription \cup Other
<1> PICK p \in Pipes : f \in [pipe : {p}, n : 1..Len(Script[p[2]])]
  BY DEF Frame
<1>1. f.pipe = p /\ f.n \in 1..Len(Script[p[2]])
  OBVIOUS
<1>2. Script[p[2]][f.n] \in Measurement \cup Subscription \cup Other
  BY <1>1, ScriptOf, ElementOfSeq, Zenon
<1> QED
  BY <1>1, <1>2 DEF Content

LEMMA MeasurementOf ==
  ASSUME NEW f \in Frame, Content(f).kind = "CnRpdoNotification"
  PROVE  Content(f).ppid \in Nat /\ Content(f).data \in Seq(Byte) /\ Content(f).value \in Int
<1>1. Content(f) \in Measurement
  BY ContentOf DEF Subscription, Other
<1> QED
  BY <1>1 DEF Measurement

(* A goroutine holds no frame or one. *)
LEMMA InHand ==
  ASSUME NEW buf \in Seq(Frame), Len(buf) <= 1, buf # <<>>
  PROVE  Len(buf) = 1 /\ buf[1] \in Frame /\ buf = <<buf[1]>>
<1>0. Len(buf) \in Nat /\ Len(buf) # 0
  BY EmptySeq
<1>1. Len(buf) = 1
  BY <1>0
<1>2. 1 \in 1..Len(buf)
  BY <1>1
<1>3. buf[1] \in Frame
  BY <1>2, ElementOfSeq, Zenon
<1> QED
  BY <1>1, <1>3

(* It passes it on to the end of a sequence. *)
LEMMA PassedOn ==
  ASSUME NEW s \in Seq(Frame), NEW buf \in Seq(Frame), Len(buf) <= 1, buf # <<>>
  PROVE  s \o buf = Append(s, buf[1]) /\ Append(s, buf[1]) \in Seq(Frame)
<1>1. Len(buf) = 1 /\ buf[1] \in Frame /\ buf = <<buf[1]>>
  BY InHand, Zenon
<1>2. s \o <<buf[1]>> = Append(s, buf[1]) /\ Append(s, buf[1]) \in Seq(Frame)
  BY <1>1
<1> QED
  BY <1>1, <1>2

(* TypeOK, in the sets of the variables and the bounds on one pipe *)
Control ==
  /\ RuntimeTypeOK
  /\ mpc \in {"signal", "cancel", "wait", "exit"}
  /\ rpc \in {"select", "accept", "dial"}
  /\ accepted \in SUBSET Apps
  /\ link \in [Pipes -> {"none", "up", "fin", "rst", "dead"}]
  /\ piped \subseteq Pipes

Gauges ==
  /\ counted \subseteq Pipes
  /\ \A s \in DOMAIN gauges : s \in Nat /\ gauges[s] \in Int

Sets ==
  /\ read \in [Pipes -> Nat]
  /\ written \in [Pipes -> Seq(Frame)] /\ out \in [Pipes -> Seq(Frame)]
  /\ rbuf \in [Pipes -> Seq(Frame)] /\ sbuf \in [Pipes -> Seq(Frame)]
  /\ queue \in [Pipes -> Seq(Frame)]

Bounds(p) ==
  /\ read[p] <= Len(written[p])
  /\ Len(queue[p]) <= QueueCap
  /\ Len(rbuf[p]) <= 1 /\ Len(sbuf[p]) <= 1

LEMMA TypeSplit == TypeOK <=> Control /\ Gauges /\ Sets /\ \A p \in Pipes : Bounds(p)
  BY DEF TypeOK, Control, Gauges, Sets, Bounds

LEMMA RuntimeStep ==
  ASSUME RuntimeTypeOK, status' \in {"running", "exited", "panicked", "thrown"},
         UNCHANGED <<ctx, wgVars>>
  PROVE  RuntimeTypeOK'
<1>1. ctx' \in BOOLEAN
  BY DEF RuntimeTypeOK
<1> QED
  BY <1>1 DEF RuntimeTypeOK, wgVars

(* The steps of main, Run and the peers *)
LEMMA ControlType ==
  ASSUME Control, Main \/ Run \/ Peers
  PROVE  Control'
<1>1. ASSUME NEW a \in Apps, AppDial(a) PROVE Control'
  <2>1. <<a, "up">> \in Pipes
    BY DEF Pipes
  <2>2. RuntimeTypeOK'
    BY <1>1, RuntimeStep DEF Control, AppDial, RuntimeTypeOK, runtimeVars, wgVars
  <2> QED
    BY <1>1, <2>1, <2>2 DEF Control, AppDial, runVars
<1>2. ASSUME NEW p \in Pipes, PeerWrite(p) PROVE Control'
  <2>1. RuntimeTypeOK'
    BY <1>2, RuntimeStep DEF Control, PeerWrite, RuntimeTypeOK, runtimeVars, wgVars
  <2> QED
    BY <1>2, <2>1 DEF Control, PeerWrite, runVars
<1>3. ASSUME NEW p \in Pipes, PeerDrop(p) PROVE Control'
  <2> PICK fault \in Faults \cap {"fin", "rst"} : link' = [link EXCEPT ![p] = fault]
    BY <1>3 DEF PeerDrop
  <2>1. RuntimeTypeOK'
    BY <1>3, RuntimeStep DEF Control, PeerDrop, RuntimeTypeOK, runtimeVars, wgVars
  <2> QED
    BY <1>3, <2>1 DEF Control, PeerDrop, runVars
<1>4. CASE Main
  <2>1. CASE Cancel
    <3>1. ctx' \in BOOLEAN
      BY <2>1 DEF Cancel
    <3> QED
      BY <2>1, <3>1 DEF Control, Cancel, RuntimeTypeOK, runVars, wgVars
  <2>2. CASE Interrupt \/ Wait
    <3>1. RuntimeTypeOK'
      BY <2>2, RuntimeStep DEF Control, Interrupt, Wait, RuntimeTypeOK, runtimeVars, wgVars
    <3> QED
      BY <2>2, <3>1 DEF Control, Interrupt, Wait, runVars
  <2>3. CASE Exit
    <3>1. RuntimeTypeOK'
      BY <2>3, RuntimeStep DEF Control, Exit
    <3> QED
      BY <2>3, <3>1 DEF Control, Exit, runVars
  <2> QED
    BY <1>4, <2>1, <2>2, <2>3 DEF Main
<1>5. CASE RunDone
  <2>1. ctx' \in BOOLEAN
    BY <1>5 DEF RunDone, Control, RuntimeTypeOK
  <2>2. /\ status' \in {"running", "exited", "panicked", "thrown"}
        /\ wg' \in Int
        /\ waiting' \subseteq Waiters /\ woken' \subseteq Waiters
    BY <1>5 DEF RunDone, WgDone, Control, RuntimeTypeOK
  <2> QED
    BY <1>5, <2>1, <2>2 DEF RunDone, Control, RuntimeTypeOK, runVars
<1>6. CASE RunDefault \/ AcceptTimeout
  <2>1. RuntimeTypeOK'
    BY <1>6, RuntimeStep DEF Control, RunDefault, AcceptTimeout, RuntimeTypeOK, runtimeVars, wgVars
  <2> QED
    BY <1>6, <2>1 DEF Control, RunDefault, AcceptTimeout
<1>7. ASSUME NEW a \in Apps, Accept(a) PROVE Control'
  <2>1. RuntimeTypeOK'
    BY <1>7, RuntimeStep DEF Control, Accept, RuntimeTypeOK, runtimeVars, wgVars
  <2> QED
    BY <1>7, <2>1 DEF Control, Accept
<1>8. CASE DialRefused
  <2>1. RuntimeTypeOK'
    BY <1>8, RuntimeStep DEF Control, DialRefused, Panic
  <2> QED
    BY <1>8, <2>1 DEF Control, DialRefused, runVars
<1>9. CASE Dial
  <2> PICK a \in accepted : /\ link' = [link EXCEPT ![<<a, "down">>] = "up"]
                           /\ piped' = piped \cup {<<a, "up">>, <<a, "down">>}
    BY <1>9 DEF Dial
  <2>1. <<a, "up">> \in Pipes /\ <<a, "down">> \in Pipes
    BY DEF Pipes, Control
  <2>2. RuntimeTypeOK'
    BY <1>9, RuntimeStep DEF Control, Dial, RuntimeTypeOK, runtimeVars, wgVars
  <2> QED
    BY <1>9, <2>1, <2>2 DEF Control, Dial
<1> QED
  BY <1>1, <1>2, <1>3, <1>4, <1>5, <1>6, <1>7, <1>8, <1>9 DEF Run, Peers

(* A goroutine of a pipe ends the process or leaves it alone. *)
LEMMA PipeControlType ==
  ASSUME Control, NEW p \in Pipes, ProxyReceive(p) \/ ProxySend(p)
  PROVE  Control'
<1>1. /\ UNCHANGED <<ctx, wgVars, mpc, runVars>>
      /\ status' = status \/ status' \in {"exited", "panicked"}
  BY DEF ProxyReceive, ProxySend, Receive, ReceiveReset, ReceiveEof, GenerateMetrics, Enqueue,
         Dequeue, Write, Panic, runtimeVars, wgVars
<1>2. link' = link \/ link' = [link EXCEPT ![p] = "dead"]
  BY DEF ProxyReceive, ProxySend, Receive, ReceiveReset, ReceiveEof, GenerateMetrics, Enqueue,
         Dequeue, Write
<1>3. RuntimeTypeOK'
  BY <1>1, RuntimeStep DEF Control, RuntimeTypeOK
<1> QED
  BY <1>1, <1>2, <1>3 DEF Control, runVars

LEMMA GaugesType ==
  ASSUME TypeOK, NEW p \in Pipes, GenerateMetrics(p)
  PROVE  Gauges'
<1> DEFINE f == rbuf[p][1]
           c == Content(f)
           value == Tofloat64(NewPpid(c.ppid), c.data)
<1>1. f \in Frame
  <2>1. rbuf[p] \in Seq(Frame) /\ Len(rbuf[p]) <= 1 /\ rbuf[p] # <<>>
    BY DEF GenerateMetrics, TypeOK
  <2> QED
    BY <2>1, InHand, Zenon
<1>2. Gauges
  BY TypeSplit
<1>3. \/ UNCHANGED metricVars
      \/ /\ counted' = counted \cup {p}
         /\ ~Crashes(c)
         /\ IF c.kind = "CnRpdoNotification" THEN SetGauge(c.ppid, value) ELSE UNCHANGED gauges
  BY DEF GenerateMetrics
<1>4. c.kind = "CnRpdoNotification" => c.ppid \in Nat /\ c.data \in Seq(Byte)
  BY <1>1, MeasurementOf
<1>5. c.kind = "CnRpdoNotification" /\ ~Crashes(c) => value \in Int
  BY <1>4, NumberShown DEF Crashes
<1> HIDE DEF value, c, f
<1>6. ASSUME c.kind = "CnRpdoNotification", ~Crashes(c), SetGauge(c.ppid, value)
      PROVE  \A s \in DOMAIN gauges' : s \in Nat /\ gauges'[s] \in Int
  <2>1. gauges' = [s \in DOMAIN gauges \cup {c.ppid} |-> IF s = c.ppid THEN value ELSE gauges[s]]
    BY <1>6 DEF SetGauge
  <2> QED
    BY <2>1, <1>2, <1>4, <1>5, <1>6 DEF Gauges
<1> QED
  BY <1>2, <1>3, <1>6 DEF Gauges, metricVars

(* What a goroutine of a pipe does with the frames *)
LEMMA FramesType ==
  ASSUME TypeOK, NEW p \in Pipes, ProxyReceive(p) \/ ProxySend(p)
  PROVE  Sets' /\ \A q \in Pipes : Bounds(q)'
<1>1. Sets /\ \A q \in Pipes : Bounds(q)
  BY TypeSplit
<1>q. QueueCap \in Nat \ {0}
  BY DumbProxyAssumption
<1>n. /\ read[p] \in Nat /\ written[p] \in Seq(Frame) /\ out[p] \in Seq(Frame)
      /\ rbuf[p] \in Seq(Frame) /\ sbuf[p] \in Seq(Frame) /\ queue[p] \in Seq(Frame)
      /\ Bounds(p)
  BY <1>1 DEF Sets
<1>2. CASE UNCHANGED <<written, read, rbuf, queue, sbuf, out>>
  BY <1>1, <1>2 DEF Sets, Bounds
<1>3. CASE Receive(p)
  <2> DEFINE f == written[p][read[p] + 1]
  <2>1. CASE UNCHANGED <<rbuf, read>>
    BY <1>2, <1>3, <2>1 DEF Receive
  <2>2. CASE rbuf' = [rbuf EXCEPT ![p] = <<f>>] /\ read' = [read EXCEPT ![p] = @ + 1]
    <3>1. read[p] < Len(written[p]) /\ UNCHANGED <<written, queue, sbuf, out>>
      BY <1>3 DEF Receive
    <3>2. read[p] + 1 \in 1..Len(written[p])
      BY <3>1, <1>n
    <3>3. f \in Frame
      BY <3>2, <1>n, ElementOfSeq, Zenon
    <3> HIDE DEF f
    <3>4. <<f>> \in Seq(Frame) /\ Len(<<f>>) = 1
      BY <3>3
    <3>5. Sets'
      BY <1>1, <2>2, <3>1, <3>4 DEF Sets
    <3>6. ASSUME NEW q \in Pipes PROVE Bounds(q)'
      <4>1. /\ read'[q] = IF q = p THEN read[p] + 1 ELSE read[q]
            /\ rbuf'[q] = IF q = p THEN <<f>> ELSE rbuf[q]
        BY <1>1, <2>2 DEF Sets
      <4>2. read[p] + 1 <= Len(written[p])
        BY <3>1, <1>n
      <4> QED
        BY <1>1, <3>1, <3>4, <4>1, <4>2 DEF Bounds
    <3> QED
      BY <3>5, <3>6
  <2> QED
    BY <1>3, <2>1, <2>2 DEF Receive
<1>4. CASE Enqueue(p)
  <2> DEFINE f == rbuf[p][1]
  <2>1. /\ rbuf[p] # <<>> /\ Len(queue[p]) < QueueCap
        /\ queue' = [queue EXCEPT ![p] = @ \o rbuf[p]]
        /\ rbuf' = [rbuf EXCEPT ![p] = <<>>]
        /\ UNCHANGED <<written, read, sbuf, out>>
    BY <1>4 DEF Enqueue
  <2>2. queue[p] \o rbuf[p] = Append(queue[p], f) /\ Append(queue[p], f) \in Seq(Frame)
    BY <1>n, <2>1, PassedOn, Zenon DEF Bounds
  <2> HIDE DEF f
  <2>3. Len(Append(queue[p], f)) <= QueueCap
    BY <1>n, <1>q, <2>1
  <2>4. <<>> \in Seq(Frame) /\ Len(<<>>) = 0
    BY EmptySeq, Zenon
  <2>5. Sets'
    BY <1>1, <2>1, <2>2, <2>4 DEF Sets
  <2>6. ASSUME NEW q \in Pipes PROVE Bounds(q)'
    <3>1. /\ queue'[q] = IF q = p THEN Append(queue[p], f) ELSE queue[q]
          /\ rbuf'[q] = IF q = p THEN <<>> ELSE rbuf[q]
      BY <1>1, <2>1, <2>2 DEF Sets
    <3>2. Bounds(q)
      BY <1>1
    <3>3. Len(rbuf'[q]) <= 1
      BY <2>4, <3>1, <3>2 DEF Bounds
    <3>4. Len(queue'[q]) <= QueueCap
      BY <2>3, <3>1, <3>2 DEF Bounds
    <3> QED
      BY <2>1, <3>2, <3>3, <3>4 DEF Bounds
  <2> QED
    BY <2>5, <2>6
<1>5. CASE Dequeue(p)
  <2> DEFINE h == Head(queue[p])
             t == Tail(queue[p])
  <2>1. /\ queue[p] # <<>> /\ sbuf[p] = <<>>
        /\ sbuf' = [sbuf EXCEPT ![p] = <<h>>]
        /\ queue' = [queue EXCEPT ![p] = t]
        /\ UNCHANGED <<written, read, rbuf, out>>
    BY <1>5 DEF Dequeue
  <2>2. h \in Frame /\ t \in Seq(Frame) /\ Len(t) = Len(queue[p]) - 1
    BY <1>n, <2>1, HeadTailProperties, Zenon
  <2> HIDE DEF h, t
  <2>3. <<h>> \in Seq(Frame) /\ Len(<<h>>) = 1
    BY <2>2
  <2>4. Sets'
    BY <1>1, <2>1, <2>2, <2>3 DEF Sets
  <2>5. ASSUME NEW q \in Pipes PROVE Bounds(q)'
    <3>1. /\ queue'[q] = IF q = p THEN t ELSE queue[q]
          /\ sbuf'[q] = IF q = p THEN <<h>> ELSE sbuf[q]
      BY <1>1, <2>1 DEF Sets
    <3>2. Len(t) <= QueueCap
      BY <1>n, <1>q, <2>2 DEF Bounds
    <3> QED
      BY <1>1, <2>1, <2>3, <3>1, <3>2 DEF Bounds
  <2> QED
    BY <2>4, <2>5
<1>6. CASE Write(p)
  <2> DEFINE f == sbuf[p][1]
  <2>1. /\ sbuf[p] # <<>>
        /\ out' = IF link[Back(p)] = "up" THEN [out EXCEPT ![p] = @ \o sbuf[p]] ELSE out
        /\ sbuf' = [sbuf EXCEPT ![p] = <<>>]
        /\ UNCHANGED <<written, read, rbuf, queue>>
    BY <1>6 DEF Write
  <2>2. out[p] \o sbuf[p] = Append(out[p], f) /\ Append(out[p], f) \in Seq(Frame)
    BY <1>n, <2>1, PassedOn, Zenon DEF Bounds
  <2> HIDE DEF f
  <2>3. <<>> \in Seq(Frame) /\ Len(<<>>) = 0
    BY EmptySeq, Zenon
  <2>4. out' \in [Pipes -> Seq(Frame)]
    BY <1>1, <2>1, <2>2 DEF Sets
  <2>5. Sets'
    BY <1>1, <2>1, <2>3, <2>4 DEF Sets
  <2>6. ASSUME NEW q \in Pipes PROVE Bounds(q)'
    <3>1. sbuf'[q] = IF q = p THEN <<>> ELSE sbuf[q]
      BY <1>1, <2>1 DEF Sets
    <3>2. Bounds(q)
      BY <1>1
    <3>3. Len(sbuf'[q]) <= 1
      BY <2>3, <3>1, <3>2 DEF Bounds
    <3> QED
      BY <2>1, <3>2, <3>3 DEF Bounds
  <2> QED
    BY <2>5, <2>6
<1> QED
  BY <1>2, <1>3, <1>4, <1>5, <1>6
     DEF ProxyReceive, ProxySend, ReceiveReset, ReceiveEof, GenerateMetrics, pipeVars

LEMMA WriteType ==
  ASSUME TypeOK, NEW p \in Pipes, PeerWrite(p)
  PROVE  Sets' /\ \A q \in Pipes : Bounds(q)'
<1>1. Sets /\ \A q \in Pipes : Bounds(q)
  BY TypeSplit
<1> DEFINE f == [pipe |-> p, n |-> Len(written[p]) + 1]
<1>2. f \in Frame
  <2>1. Len(written[p]) + 1 \in 1..Len(Script[p[2]])
    BY <1>1, ScriptOf DEF PeerWrite, Sets
  <2> QED
    BY <2>1, FrameOf
<1>3. written' = [written EXCEPT ![p] = Append(@, f)] /\ UNCHANGED <<read, rbuf, queue, sbuf, out>>
  BY DEF PeerWrite
<1> HIDE DEF f
<1>4. Append(written[p], f) \in Seq(Frame) /\ Len(Append(written[p], f)) = Len(written[p]) + 1
  BY <1>1, <1>2 DEF Sets
<1>5. Sets'
  BY <1>1, <1>3, <1>4 DEF Sets
<1>6. ASSUME NEW q \in Pipes PROVE Bounds(q)'
  <2>1. written'[q] = IF q = p THEN Append(written[p], f) ELSE written[q]
    BY <1>1, <1>3 DEF Sets
  <2>2. read[q] \in Nat /\ Len(written[q]) \in Nat
    BY <1>1 DEF Sets
  <2> QED
    BY <1>1, <1>3, <1>4, <2>1, <2>2 DEF Bounds
<1> QED
  BY <1>5, <1>6

LEMMA TypeStep == TypeOK /\ [Next]_vars => TypeOK'
<1> SUFFICES ASSUME TypeOK, [Next]_vars PROVE TypeOK'
  OBVIOUS
<1>1. (TypeOK <=> Control /\ Gauges /\ Sets /\ \A p \in Pipes : Bounds(p))'
  BY DEF TypeOK, Control, Gauges, Sets, Bounds
<1>2. Control /\ Gauges /\ Sets /\ \A p \in Pipes : Bounds(p)
  BY TypeSplit
<1>3. ASSUME UNCHANGED pipeVars PROVE Gauges' /\ Sets' /\ \A p \in Pipes : Bounds(p)'
  BY <1>2, <1>3 DEF Gauges, Sets, Bounds, pipeVars, metricVars
<1>4. CASE Main \/ Run \/ Peers
  <2>1. Control'
    BY <1>2, <1>4, ControlType
  <2>2. ASSUME NEW p \in Pipes, PeerWrite(p) PROVE TypeOK'
    <3>1. Gauges'
      BY <1>2, <2>2 DEF PeerWrite, Gauges, metricVars
    <3> QED
      BY <1>1, <2>1, <2>2, <3>1, WriteType
  <2>3. UNCHANGED pipeVars \/ \E p \in Pipes : PeerWrite(p)
    BY <1>4 DEF Main, Run, Peers, Interrupt, Cancel, Wait, Exit, RunDone, RunDefault,
                AcceptTimeout, Accept, DialRefused, Dial, AppDial, PeerDrop
  <2> QED
    BY <1>1, <1>3, <2>1, <2>2, <2>3
<1>5. ASSUME NEW p \in Pipes, ProxyReceive(p) \/ ProxySend(p) PROVE TypeOK'
  <2>1. Control' /\ Sets' /\ \A q \in Pipes : Bounds(q)'
    BY <1>2, <1>5, PipeControlType, FramesType
  <2>2. GenerateMetrics(p) \/ (UNCHANGED gauges /\ counted' \in {counted, counted \ {p}})
    BY <1>5 DEF ProxyReceive, ProxySend, Receive, ReceiveReset, ReceiveEof, Enqueue, Dequeue,
                Write, pipeVars, metricVars
  <2>3. Gauges'
    BY <1>2, <2>2, GaugesType DEF Gauges
  <2> QED
    BY <1>1, <2>1, <2>3
<1>6. CASE UNCHANGED vars
  <2>1. ctx' \in BOOLEAN
    BY <1>2, <1>6 DEF vars, runtimeVars, Control, RuntimeTypeOK
  <2>2. Control'
    BY <1>2, <1>6, <2>1 DEF Control, RuntimeTypeOK, vars, runtimeVars, runVars
  <2> QED
    BY <1>1, <1>3, <1>6, <2>2 DEF vars
<1> QED
  BY <1>4, <1>5, <1>6 DEF Next

LEMMA TypeStart == Init => TypeOK
<1> SUFFICES ASSUME Init PROVE TypeOK
  OBVIOUS
<1>1. ctx \in BOOLEAN
  BY DEF Init, RuntimeInit
<1>2. Control
  BY <1>1 DEF Init, RuntimeInit, Control, RuntimeTypeOK
<1>3. <<>> \in Seq(Frame) /\ Len(<<>>) = 0
  BY EmptySeq, Zenon
<1>4. Sets
  BY <1>3 DEF Init, Nothing, Sets
<1>5. QueueCap \in Nat
  BY DumbProxyAssumption
<1>6. \A p \in Pipes : Bounds(p)
  BY <1>3, <1>5 DEF Init, Nothing, Bounds
<1>7. Gauges
  BY DEF Init, Gauges
<1> QED
  BY <1>2, <1>4, <1>6, <1>7, TypeSplit

(* TypeOK: no channel holds more than its capacity, no goroutine reads     *)
(* more than was written, and every gauge that is set shows a number.      *)
THEOREM TypeCorrect == Spec => []TypeOK
  BY TypeStart, TypeStep, PTL DEF Spec

-----------------------------------------------------------------------------
(* The goroutines of an app's two pipes start when both its connections    *)
(* are there.                                                              *)
Dialled(a) ==
  /\ <<a, "up">> \in piped <=> <<a, "down">> \in piped
  /\ <<a, "up">> \in piped <=> link[<<a, "down">>] # "none"
  /\ <<a, "up">> \in piped => link[<<a, "up">>] # "none"
  /\ a \in accepted => <<a, "up">> \notin piped /\ link[<<a, "up">>] # "none"

LEMMA DialledStep ==
  ASSUME TypeOK, \A a \in Apps : Dialled(a), [Next]_vars
  PROVE  \A a \in Apps : Dialled(a)'
<1>x. \A a \in Apps : <<a, "up">> \in Pipes /\ <<a, "down">> \in Pipes
  BY DEF Pipes
<1>1. ASSUME UNCHANGED <<piped, accepted>>,
             \A p \in Pipes : link[p] # "none" => link'[p] # "none",
             \A a \in Apps : link[<<a, "down">>] = "none" => link'[<<a, "down">>] = "none"
      PROVE  \A a \in Apps : Dialled(a)'
  BY <1>1, <1>x DEF Dialled
<1>2. ASSUME NEW a \in Apps, AppDial(a) PROVE \A b \in Apps : Dialled(b)'
  BY <1>1, <1>2, <1>x DEF TypeOK, AppDial, runVars
<1>3. ASSUME NEW p \in Pipes, PeerDrop(p) \/ ReceiveReset(p) PROVE \A a \in Apps : Dialled(a)'
  <2> PICK fault \in {"fin", "rst", "dead"} : link' = [link EXCEPT ![p] = fault]
    BY <1>3 DEF PeerDrop, ReceiveReset
  <2>1. link[p] # "none" /\ UNCHANGED <<piped, accepted>>
    BY <1>3 DEF PeerDrop, ReceiveReset, runVars
  <2> QED
    BY <1>1, <1>x, <2>1 DEF TypeOK
<1>4. ASSUME NEW a \in Apps, Accept(a) PROVE \A b \in Apps : Dialled(b)'
  BY <1>4, <1>x DEF Accept, Waiting, Dialled
<1>5. CASE Dial
  <2> PICK a \in accepted : /\ link' = [link EXCEPT ![<<a, "down">>] = "up"]
                           /\ piped' = piped \cup {<<a, "up">>, <<a, "down">>}
    BY <1>5 DEF Dial
  <2>1. a \in Apps /\ accepted' = {}
    BY <1>5 DEF TypeOK, Dial
  <2>2. \A p \in Pipes : link'[p] = IF p = <<a, "down">> THEN "up" ELSE link[p]
    BY DEF TypeOK
  <2>3. ASSUME NEW b \in Apps, b # a PROVE Dialled(b)'
    <3>1. <<b, "up">> \in piped' <=> <<b, "up">> \in piped
      BY <2>3
    <3>2. <<b, "down">> \in piped' <=> <<b, "down">> \in piped
      BY <2>3
    <3>3. link'[<<b, "up">>] = link[<<b, "up">>] /\ link'[<<b, "down">>] = link[<<b, "down">>]
      BY <1>x, <2>2, <2>3
    <3> QED
      BY <2>1, <3>1, <3>2, <3>3 DEF Dialled
  <2>4. Dialled(a)'
    <3>1. link'[<<a, "down">>] = "up" /\ link'[<<a, "up">>] = link[<<a, "up">>]
      BY <1>x, <2>1, <2>2
    <3> QED
      BY <2>1, <3>1 DEF Dialled
  <2> QED
    BY <2>3, <2>4
<1>6. CASE UNCHANGED <<runVars, link>>
  BY <1>1, <1>6 DEF runVars
<1>7. CASE RunDefault \/ AcceptTimeout
  BY <1>1, <1>7 DEF RunDefault, AcceptTimeout
<1>8. \/ \E a \in Apps : AppDial(a) \/ Accept(a)
      \/ \E p \in Pipes : PeerDrop(p) \/ ReceiveReset(p)
      \/ Dial \/ RunDefault \/ AcceptTimeout
      \/ UNCHANGED <<runVars, link>>
  BY DEF Next, Peers, Main, Run, ProxyReceive, ProxySend, PeerWrite, Interrupt, Cancel, Wait,
         Exit, RunDone, DialRefused, Receive, ReceiveEof, GenerateMetrics, Enqueue, Dequeue,
         Write, vars
<1> QED
  BY <1>2, <1>3, <1>4, <1>5, <1>6, <1>7, <1>8

(* A connection that has ended does not come back. *)
LEMMA LinkStep ==
  ASSUME TypeOK, \A a \in Apps : Dialled(a), [Next]_vars,
         NEW p \in Pipes, link'[p] \in {"none", "up"}
  PROVE  link[p] \in {"none", "up"}
<1>1. ASSUME NEW a \in Apps, AppDial(a) PROVE link[p] \in {"none", "up"}
  BY <1>1 DEF TypeOK, AppDial
<1>2. ASSUME NEW q \in Pipes, PeerDrop(q) \/ ReceiveReset(q) PROVE link[p] \in {"none", "up"}
  <2> PICK fault \in {"fin", "rst", "dead"} : link' = [link EXCEPT ![q] = fault]
    BY <1>2 DEF PeerDrop, ReceiveReset
  <2> QED
    BY DEF TypeOK
<1>3. CASE Dial
  <2> PICK a \in accepted : link' = [link EXCEPT ![<<a, "down">>] = "up"]
    BY <1>3 DEF Dial
  <2>1. a \in Apps
    BY DEF TypeOK
  <2>2. link[<<a, "down">>] = "none"
    BY <2>1 DEF Dialled
  <2> QED
    BY <2>2 DEF TypeOK
<1>4. CASE UNCHANGED link
  BY <1>4
<1> QED
  BY <1>1, <1>2, <1>3, <1>4
     DEF Next, Peers, Main, Run, ProxyReceive, ProxySend, PeerWrite, Interrupt, Cancel, Wait,
         Exit, RunDone, RunDefault, AcceptTimeout, Accept, DialRefused, Receive, ReceiveEof,
         GenerateMetrics, Enqueue, Dequeue, Write, vars

-----------------------------------------------------------------------------
(* The frames of a pipe that were read are, in the order they were written,*)
(* out, with proxySend, in the channel and with proxyReceiveMessage.       *)
InOrder(p) ==
  /\ Len(out[p]) + Len(sbuf[p]) + Len(queue[p]) + Len(rbuf[p]) = read[p]
  /\ Len(sbuf[p]) = 1 => sbuf[p][1] = written[p][Len(out[p]) + 1]
  /\ \A i \in 1..Len(queue[p]) : queue[p][i] = written[p][Len(out[p]) + Len(sbuf[p]) + i]
  /\ Len(rbuf[p]) = 1 => rbuf[p][1] = written[p][read[p]]

(* Only the goroutines that were started hold any. *)
Idle(p) == p \notin piped => rbuf[p] = <<>> /\ queue[p] = <<>> /\ sbuf[p] = <<>>

(* A reader who has left gets no more of them. *)
Flow(p) == link[Back(p)] \in {"none", "up"} => InOrder(p)

FlowInv ==
  /\ TypeOK
  /\ \A a \in Apps : Dialled(a)
  /\ \A p \in Pipes : Flow(p) /\ Idle(p)

LEMMA IdleStep ==
  ASSUME TypeOK, \A p \in Pipes : Idle(p), [Next]_vars
  PROVE  \A p \in Pipes : Idle(p)'
<1>1. piped \subseteq piped'
  BY DEF Next, Peers, Main, Run, ProxyReceive, ProxySend, AppDial, PeerWrite, PeerDrop, Interrupt,
         Cancel, Wait, Exit, RunDone, RunDefault, AcceptTimeout, Accept, DialRefused, Dial,
         Receive, ReceiveReset, ReceiveEof, GenerateMetrics, Enqueue, Dequeue, Write, runVars, vars
<1>2. CASE UNCHANGED <<rbuf, queue, sbuf>>
  BY <1>1, <1>2 DEF Idle
<1>3. ASSUME NEW p \in Pipes, Receive(p) \/ Enqueue(p) \/ Dequeue(p) \/ Write(p)
      PROVE  \A q \in Pipes : Idle(q)'
  <2>1. p \in piped
    BY <1>3 DEF Receive, Enqueue, Dequeue, Write, Idle
  <2>2. ASSUME NEW q \in Pipes, q # p PROVE Idle(q)'
    <3>1. rbuf'[q] = rbuf[q] /\ queue'[q] = queue[q] /\ sbuf'[q] = sbuf[q]
      BY <1>3, <2>2 DEF TypeOK, Receive, Enqueue, Dequeue, Write
    <3> QED
      BY <1>1, <3>1 DEF Idle
  <2> QED
    BY <1>1, <2>1, <2>2 DEF Idle
<1> QED
  BY <1>2, <1>3
     DEF Next, Peers, Main, Run, ProxyReceive, ProxySend, AppDial, PeerWrite, PeerDrop, Interrupt,
         Cancel, Wait, Exit, RunDone, RunDefault, AcceptTimeout, Accept, DialRefused, Dial,
         ReceiveReset, ReceiveEof, GenerateMetrics, pipeVars, vars

LEMMA Lengths ==
  ASSUME TypeOK, NEW p \in Pipes
  PROVE  /\ Len(out[p]) \in Nat /\ Len(sbuf[p]) \in Nat /\ Len(queue[p]) \in Nat
         /\ Len(rbuf[p]) \in Nat /\ read[p] \in Nat /\ Len(written[p]) \in Nat
         /\ read[p] <= Len(written[p]) /\ Len(sbuf[p]) <= 1 /\ Len(rbuf[p]) <= 1
         /\ (sbuf[p] = <<>> <=> Len(sbuf[p]) = 0) /\ (rbuf[p] = <<>> <=> Len(rbuf[p]) = 0)
<1>1. /\ out[p] \in Seq(Frame) /\ sbuf[p] \in Seq(Frame) /\ queue[p] \in Seq(Frame)
      /\ rbuf[p] \in Seq(Frame) /\ written[p] \in Seq(Frame)
      /\ read[p] \in Nat /\ read[p] <= Len(written[p])
      /\ Len(sbuf[p]) <= 1 /\ Len(rbuf[p]) <= 1
  BY DEF TypeOK
<1>2. (sbuf[p] = <<>> <=> Len(sbuf[p]) = 0) /\ (rbuf[p] = <<>> <=> Len(rbuf[p]) = 0)
  BY <1>1, EmptySeq
<1> QED
  BY <1>1, <1>2

LEMMA Held ==
  ASSUME TypeOK, NEW p \in Pipes
  PROVE  /\ out[p] \in Seq(Frame) /\ sbuf[p] \in Seq(Frame) /\ queue[p] \in Seq(Frame)
         /\ rbuf[p] \in Seq(Frame) /\ written[p] \in Seq(Frame)
         /\ Len(sbuf[p]) <= 1 /\ Len(rbuf[p]) <= 1
  BY DEF TypeOK

LEMMA PeerWriteKeepsOrder ==
  ASSUME TypeOK, NEW p \in Pipes, InOrder(p), PeerWrite(p)
  PROVE  InOrder(p)'
<1> DEFINE o == Len(out[p])
           s == Len(sbuf[p])
           n == Len(queue[p])
           r == Len(rbuf[p])
           d == read[p]
           w == Len(written[p])
<1>l. /\ o \in Nat /\ s \in Nat /\ n \in Nat /\ r \in Nat /\ d \in Nat /\ w \in Nat
      /\ d <= w /\ s <= 1 /\ r <= 1
  BY Lengths, Zenon
<1>e. (sbuf[p] = <<>> <=> s = 0) /\ (rbuf[p] = <<>> <=> r = 0)
  BY Lengths, Zenon
<1>s. /\ out[p] \in Seq(Frame) /\ sbuf[p] \in Seq(Frame) /\ queue[p] \in Seq(Frame)
      /\ rbuf[p] \in Seq(Frame) /\ written[p] \in Seq(Frame)
      /\ Len(sbuf[p]) <= 1 /\ Len(rbuf[p]) <= 1
  BY Held, Zenon
<1>o. /\ o + s + n + r = d
      /\ s = 1 => sbuf[p][1] = written[p][o + 1]
      /\ \A i \in 1..n : queue[p][i] = written[p][o + s + i]
      /\ r = 1 => rbuf[p][1] = written[p][d]
  BY DEF InOrder
<1>i. ASSUME o' + s' + n' + r' = d',
             s' = 1 => sbuf'[p][1] = written'[p][o' + 1],
             \A i \in 1..n' : queue'[p][i] = written'[p][o' + s' + i],
             r' = 1 => rbuf'[p][1] = written'[p][d']
      PROVE  InOrder(p)'
  BY <1>i, Zenon DEF InOrder
<1>u. /\ UNCHANGED out => o' = o
      /\ UNCHANGED sbuf => s' = s
      /\ UNCHANGED queue => n' = n
      /\ UNCHANGED rbuf => r' = r
      /\ UNCHANGED read => d' = d
  OBVIOUS
<1> HIDE DEF o, s, n, r, d, w
<1> DEFINE f == [pipe |-> p, n |-> Len(written[p]) + 1]
<1>1. written' = [written EXCEPT ![p] = Append(@, f)] /\ UNCHANGED <<read, rbuf, queue, sbuf, out>>
  BY DEF PeerWrite
<1> HIDE DEF f
<1>2. written'[p] = Append(written[p], f)
  BY <1>1 DEF TypeOK
<1>3. \A i \in 1..w : written'[p][i] = written[p][i]
  BY <1>2, <1>s DEF w
<1>4. s = 1 => o + 1 \in 1..w
  BY <1>l, <1>o
<1>5. \A i \in 1..n : o + s + i \in 1..w
  BY <1>l, <1>o
<1>6. r = 1 => d \in 1..w
  BY <1>l, <1>o
<1>7. o' = o /\ s' = s /\ n' = n /\ r' = r /\ d' = d
  BY <1>1, <1>u
<1>8. s' = 1 => sbuf'[p][1] = written'[p][o' + 1]
  BY <1>1, <1>3, <1>4, <1>7, <1>o
<1>9. \A i \in 1..n' : queue'[p][i] = written'[p][o' + s' + i]
  BY <1>1, <1>3, <1>5, <1>7, <1>o
<1>10. r' = 1 => rbuf'[p][1] = written'[p][d']
  BY <1>1, <1>3, <1>6, <1>7, <1>o
<1> QED
  BY <1>7, <1>8, <1>9, <1>10, <1>o, <1>i

LEMMA ReceiveKeepsOrder ==
  ASSUME TypeOK, NEW p \in Pipes, InOrder(p), Receive(p)
  PROVE  InOrder(p)'
<1> DEFINE o == Len(out[p])
           s == Len(sbuf[p])
           n == Len(queue[p])
           r == Len(rbuf[p])
           d == read[p]
           w == Len(written[p])
<1>l. /\ o \in Nat /\ s \in Nat /\ n \in Nat /\ r \in Nat /\ d \in Nat /\ w \in Nat
      /\ d <= w /\ s <= 1 /\ r <= 1
  BY Lengths, Zenon
<1>e. (sbuf[p] = <<>> <=> s = 0) /\ (rbuf[p] = <<>> <=> r = 0)
  BY Lengths, Zenon
<1>s. /\ out[p] \in Seq(Frame) /\ sbuf[p] \in Seq(Frame) /\ queue[p] \in Seq(Frame)
      /\ rbuf[p] \in Seq(Frame) /\ written[p] \in Seq(Frame)
      /\ Len(sbuf[p]) <= 1 /\ Len(rbuf[p]) <= 1
  BY Held, Zenon
<1>o. /\ o + s + n + r = d
      /\ s = 1 => sbuf[p][1] = written[p][o + 1]
      /\ \A i \in 1..n : queue[p][i] = written[p][o + s + i]
      /\ r = 1 => rbuf[p][1] = written[p][d]
  BY DEF InOrder
<1>i. ASSUME o' + s' + n' + r' = d',
             s' = 1 => sbuf'[p][1] = written'[p][o' + 1],
             \A i \in 1..n' : queue'[p][i] = written'[p][o' + s' + i],
             r' = 1 => rbuf'[p][1] = written'[p][d']
      PROVE  InOrder(p)'
  BY <1>i, Zenon DEF InOrder
<1>u. /\ UNCHANGED out => o' = o
      /\ UNCHANGED sbuf => s' = s
      /\ UNCHANGED queue => n' = n
      /\ UNCHANGED rbuf => r' = r
      /\ UNCHANGED read => d' = d
  OBVIOUS
<1> HIDE DEF o, s, n, r, d, w
<1> DEFINE f == written[p][read[p] + 1]
<1>1. CASE UNCHANGED <<rbuf, read>>
  BY <1>1 DEF Receive, InOrder
<1>2. CASE rbuf' = [rbuf EXCEPT ![p] = <<f>>] /\ read' = [read EXCEPT ![p] = @ + 1]
  <2>1. r = 0 /\ UNCHANGED <<written, queue, sbuf, out>>
    BY <1>e DEF Receive
  <2>2. rbuf'[p] = <<f>> /\ d' = d + 1
    BY <1>2 DEF TypeOK, d
  <2>3. r' = 1 /\ rbuf'[p][1] = written'[p][d']
    <3>1. f = written[p][d + 1]
      BY DEF d
    <3> HIDE DEF f
    <3>2. r' = 1 /\ rbuf'[p][1] = f
      BY <2>2 DEF r
    <3> QED
      BY <2>1, <2>2, <3>1, <3>2
  <2>4. o' = o /\ s' = s /\ n' = n
    BY <2>1, <1>u
  <2>5. o + s + n + 1 = d + 1
    BY <2>1, <1>l, <1>o
  <2> QED
    BY <2>1, <2>2, <2>3, <2>4, <2>5, <1>o, <1>i
<1> QED
  BY <1>1, <1>2 DEF Receive

LEMMA EnqueueKeepsOrder ==
  ASSUME TypeOK, NEW p \in Pipes, InOrder(p), Enqueue(p)
  PROVE  InOrder(p)'
<1> DEFINE o == Len(out[p])
           s == Len(sbuf[p])
           n == Len(queue[p])
           r == Len(rbuf[p])
           d == read[p]
           w == Len(written[p])
<1>l. /\ o \in Nat /\ s \in Nat /\ n \in Nat /\ r \in Nat /\ d \in Nat /\ w \in Nat
      /\ d <= w /\ s <= 1 /\ r <= 1
  BY Lengths, Zenon
<1>e. (sbuf[p] = <<>> <=> s = 0) /\ (rbuf[p] = <<>> <=> r = 0)
  BY Lengths, Zenon
<1>s. /\ out[p] \in Seq(Frame) /\ sbuf[p] \in Seq(Frame) /\ queue[p] \in Seq(Frame)
      /\ rbuf[p] \in Seq(Frame) /\ written[p] \in Seq(Frame)
      /\ Len(sbuf[p]) <= 1 /\ Len(rbuf[p]) <= 1
  BY Held, Zenon
<1>o. /\ o + s + n + r = d
      /\ s = 1 => sbuf[p][1] = written[p][o + 1]
      /\ \A i \in 1..n : queue[p][i] = written[p][o + s + i]
      /\ r = 1 => rbuf[p][1] = written[p][d]
  BY DEF InOrder
<1>i. ASSUME o' + s' + n' + r' = d',
             s' = 1 => sbuf'[p][1] = written'[p][o' + 1],
             \A i \in 1..n' : queue'[p][i] = written'[p][o' + s' + i],
             r' = 1 => rbuf'[p][1] = written'[p][d']
      PROVE  InOrder(p)'
  BY <1>i, Zenon DEF InOrder
<1>u. /\ UNCHANGED out => o' = o
      /\ UNCHANGED sbuf => s' = s
      /\ UNCHANGED queue => n' = n
      /\ UNCHANGED rbuf => r' = r
      /\ UNCHANGED read => d' = d
  OBVIOUS
<1> HIDE DEF o, s, n, r, d, w
<1> DEFINE f == rbuf[p][1]
<1>1. /\ rbuf[p] # <<>> /\ UNCHANGED <<written, read, sbuf, out>>
      /\ queue' = [queue EXCEPT ![p] = @ \o rbuf[p]]
      /\ rbuf' = [rbuf EXCEPT ![p] = <<>>]
  BY DEF Enqueue
<1>2. r = 1
  BY <1>1, <1>l, <1>e
<1>3. queue[p] \o rbuf[p] = Append(queue[p], f)
  BY <1>1, <1>s, PassedOn, Zenon
<1>4. queue'[p] = Append(queue[p], f) /\ rbuf'[p] = <<>>
  BY <1>1, <1>3 DEF TypeOK
<1>5. f = written[p][d] /\ o + s + (n + 1) = d
  BY <1>2, <1>l, <1>o
<1> HIDE DEF f
<1>6. n' = n + 1 /\ queue'[p][n + 1] = f /\ r' = 0
  BY <1>4, <1>s DEF n, r
<1>7. \A i \in 1..n : queue'[p][i] = queue[p][i]
  BY <1>4, <1>s DEF n
<1>8. o' = o /\ s' = s /\ d' = d
  BY <1>1, <1>u
<1>9. ASSUME NEW i \in 1..(n + 1)
      PROVE  queue'[p][i] = written[p][o + s + i]
  <2>1. CASE i = n + 1
    BY <1>5, <1>6, <2>1
  <2>2. CASE i # n + 1
    <3>1. i \in 1..n
      BY <1>l, <2>2
    <3> QED
      BY <1>7, <1>o, <3>1
  <2> QED
    BY <2>1, <2>2
<1>10. o + s + (n + 1) + 0 = d
  BY <1>5, <1>l
<1>11. o' + s' + n' + r' = d'
  BY <1>6, <1>8, <1>10
<1>12. \A i \in 1..n' : queue'[p][i] = written'[p][o' + s' + i]
  BY <1>1, <1>6, <1>8, <1>9
<1>13. s' = 1 => sbuf'[p][1] = written'[p][o' + 1]
  BY <1>1, <1>8, <1>o
<1>14. r' # 1
  BY <1>6
<1> QED
  BY <1>11, <1>12, <1>13, <1>14, <1>i, Zenon

LEMMA DequeueKeepsOrder ==
  ASSUME TypeOK, NEW p \in Pipes, InOrder(p), Dequeue(p)
  PROVE  InOrder(p)'
<1> DEFINE o == Len(out[p])
           s == Len(sbuf[p])
           n == Len(queue[p])
           r == Len(rbuf[p])
           d == read[p]
           w == Len(written[p])
<1>l. /\ o \in Nat /\ s \in Nat /\ n \in Nat /\ r \in Nat /\ d \in Nat /\ w \in Nat
      /\ d <= w /\ s <= 1 /\ r <= 1
  BY Lengths, Zenon
<1>e. (sbuf[p] = <<>> <=> s = 0) /\ (rbuf[p] = <<>> <=> r = 0)
  BY Lengths, Zenon
<1>s. /\ out[p] \in Seq(Frame) /\ sbuf[p] \in Seq(Frame) /\ queue[p] \in Seq(Frame)
      /\ rbuf[p] \in Seq(Frame) /\ written[p] \in Seq(Frame)
      /\ Len(sbuf[p]) <= 1 /\ Len(rbuf[p]) <= 1
  BY Held, Zenon
<1>o. /\ o + s + n + r = d
      /\ s = 1 => sbuf[p][1] = written[p][o + 1]
      /\ \A i \in 1..n : queue[p][i] = written[p][o + s + i]
      /\ r = 1 => rbuf[p][1] = written[p][d]
  BY DEF InOrder
<1>i. ASSUME o' + s' + n' + r' = d',
             s' = 1 => sbuf'[p][1] = written'[p][o' + 1],
             \A i \in 1..n' : queue'[p][i] = written'[p][o' + s' + i],
             r' = 1 => rbuf'[p][1] = written'[p][d']
      PROVE  InOrder(p)'
  BY <1>i, Zenon DEF InOrder
<1>u. /\ UNCHANGED out => o' = o
      /\ UNCHANGED sbuf => s' = s
      /\ UNCHANGED queue => n' = n
      /\ UNCHANGED rbuf => r' = r
      /\ UNCHANGED read => d' = d
  OBVIOUS
<1> HIDE DEF o, s, n, r, d, w
<1> DEFINE h == Head(queue[p])
           t == Tail(queue[p])
<1>1. /\ queue[p] # <<>> /\ sbuf[p] = <<>> /\ UNCHANGED <<written, read, rbuf, out>>
      /\ sbuf' = [sbuf EXCEPT ![p] = <<h>>]
      /\ queue' = [queue EXCEPT ![p] = t]
  BY DEF Dequeue
<1>2. s = 0 /\ n \in Nat \ {0}
  BY <1>1, <1>e, <1>s, EmptySeq, Zenon DEF n
<1>3. h = queue[p][1] /\ Len(t) = n - 1 /\ \A i \in 1..(n - 1) : t[i] = queue[p][i + 1]
  BY <1>1, <1>s DEF n
<1>4. sbuf'[p] = <<h>> /\ queue'[p] = t
  BY <1>1 DEF TypeOK
<1> HIDE DEF h, t
<1>5. s' = 1 /\ sbuf'[p][1] = h
  BY <1>4 DEF s
<1>6. \A i \in 1..n : queue[p][i] = written[p][o + i]
  <2>1. \A i \in 1..n : o + s + i = o + i
    BY <1>2, <1>l
  <2> QED
    BY <1>o, <2>1
<1>7. h = written[p][o + 1]
  BY <1>2, <1>3, <1>6
<1>8. ASSUME NEW i \in 1..(n - 1) PROVE t[i] = written[p][o + 1 + i]
  <2>1. i + 1 \in 1..n /\ o + (i + 1) = o + 1 + i
    BY <1>2, <1>l
  <2> QED
    BY <1>3, <1>6, <2>1
<1>9. o + 1 + (n - 1) + r = d
  BY <1>2, <1>l, <1>o
<1>10. n' = n - 1
  BY <1>3, <1>4 DEF n
<1>11. o' = o /\ r' = r /\ d' = d
  BY <1>1, <1>u
<1>12. \A i \in 1..n' : queue'[p][i] = written'[p][o' + s' + i]
  BY <1>1, <1>4, <1>5, <1>8, <1>10, <1>11
<1>13. o' + s' + n' + r' = d'
  BY <1>5, <1>9, <1>10, <1>11
<1>14. sbuf'[p][1] = written'[p][o' + 1]
  BY <1>1, <1>5, <1>7, <1>11
<1>15. r' = 1 => rbuf'[p][1] = written'[p][d']
  BY <1>1, <1>11, <1>o
<1> QED
  BY <1>12, <1>13, <1>14, <1>15, <1>i, Zenon

LEMMA WriteKeepsOrder ==
  ASSUME TypeOK, NEW p \in Pipes, InOrder(p), Write(p), link[Back(p)] = "up"
  PROVE  InOrder(p)' /\ Pipe!Deliver(p)
<1> DEFINE o == Len(out[p])
           s == Len(sbuf[p])
           n == Len(queue[p])
           r == Len(rbuf[p])
           d == read[p]
           w == Len(written[p])
<1>l. /\ o \in Nat /\ s \in Nat /\ n \in Nat /\ r \in Nat /\ d \in Nat /\ w \in Nat
      /\ d <= w /\ s <= 1 /\ r <= 1
  BY Lengths, Zenon
<1>e. (sbuf[p] = <<>> <=> s = 0) /\ (rbuf[p] = <<>> <=> r = 0)
  BY Lengths, Zenon
<1>s. /\ out[p] \in Seq(Frame) /\ sbuf[p] \in Seq(Frame) /\ queue[p] \in Seq(Frame)
      /\ rbuf[p] \in Seq(Frame) /\ written[p] \in Seq(Frame)
      /\ Len(sbuf[p]) <= 1 /\ Len(rbuf[p]) <= 1
  BY Held, Zenon
<1>o. /\ o + s + n + r = d
      /\ s = 1 => sbuf[p][1] = written[p][o + 1]
      /\ \A i \in 1..n : queue[p][i] = written[p][o + s + i]
      /\ r = 1 => rbuf[p][1] = written[p][d]
  BY DEF InOrder
<1>i. ASSUME o' + s' + n' + r' = d',
             s' = 1 => sbuf'[p][1] = written'[p][o' + 1],
             \A i \in 1..n' : queue'[p][i] = written'[p][o' + s' + i],
             r' = 1 => rbuf'[p][1] = written'[p][d']
      PROVE  InOrder(p)'
  BY <1>i, Zenon DEF InOrder
<1>u. /\ UNCHANGED out => o' = o
      /\ UNCHANGED sbuf => s' = s
      /\ UNCHANGED queue => n' = n
      /\ UNCHANGED rbuf => r' = r
      /\ UNCHANGED read => d' = d
  OBVIOUS
<1> HIDE DEF o, s, n, r, d, w
<1> DEFINE f == sbuf[p][1]
<1>1. /\ sbuf[p] # <<>> /\ UNCHANGED <<written, read, rbuf, queue, status, link>>
      /\ out' = [out EXCEPT ![p] = @ \o sbuf[p]]
      /\ sbuf' = [sbuf EXCEPT ![p] = <<>>]
  BY DEF Write, runtimeVars
<1>2. s = 1
  BY <1>1, <1>l, <1>e
<1>3. out[p] \o sbuf[p] = Append(out[p], f)
  BY <1>1, <1>s, PassedOn, Zenon
<1>4. /\ out' = [out EXCEPT ![p] = Append(@, f)]
      /\ out'[p] = Append(out[p], f) /\ sbuf'[p] = <<>>
  BY <1>1, <1>3 DEF TypeOK
<1>5. f = written[p][o + 1] /\ o + 1 + 0 + n + r = d
  BY <1>2, <1>l, <1>o
<1> HIDE DEF f
<1>6. o' = o + 1 /\ s' = 0
  BY <1>4, <1>s DEF o, s
<1>7. n' = n /\ r' = r /\ d' = d
  BY <1>1, <1>u
<1>8. \A i \in 1..n : queue[p][i] = written[p][o + 1 + 0 + i]
  <2>1. \A i \in 1..n : o + s + i = o + 1 + 0 + i
    BY <1>2, <1>l
  <2> QED
    BY <1>o, <2>1
<1>9. InOrder(p)'
  BY <1>1, <1>5, <1>6, <1>7, <1>8, <1>o, <1>i
<1>10. Pipe!Deliver(p)
  <2>1. o < w
    BY <1>l, <1>5
  <2>2. Open' = Open
    BY <1>1 DEF Open, Running
  <2> QED
    BY <1>1, <1>4, <1>5, <2>1, <2>2 DEF Pipe!Deliver, o, w
<1> QED
  BY <1>9, <1>10

LEMMA FlowStep == FlowInv /\ [Next]_vars => FlowInv'
<1> SUFFICES ASSUME FlowInv, [Next]_vars PROVE FlowInv'
  OBVIOUS
<1>0. /\ TypeOK /\ \A a \in Apps : Dialled(a)
      /\ \A p \in Pipes : Flow(p) /\ Idle(p)
  BY DEF FlowInv
<1>1. /\ TypeOK' /\ \A a \in Apps : Dialled(a)'
      /\ \A p \in Pipes : Idle(p)'
  BY <1>0, TypeStep, DialledStep, IdleStep
<1> SUFFICES ASSUME NEW q \in Pipes, link'[Back(q)] \in {"none", "up"} PROVE InOrder(q)'
  BY <1>1 DEF FlowInv, Flow, Back
<1>2. Back(q) \in Pipes
  BY PipeParts
<1>3. link[Back(q)] \in {"none", "up"}
  BY <1>0, <1>2, LinkStep
<1>4. InOrder(q)
  BY <1>0, <1>3 DEF Flow
<1>5. CASE UNCHANGED <<written, read, rbuf, queue, sbuf, out>>
  BY <1>4, <1>5 DEF InOrder
<1>6. ASSUME NEW p \in Pipes,
             PeerWrite(p) \/ Receive(p) \/ Enqueue(p) \/ Dequeue(p) \/ Write(p)
      PROVE  InOrder(q)'
  <2>1. CASE p # q
    <3>1. /\ written'[q] = written[q] /\ read'[q] = read[q] /\ rbuf'[q] = rbuf[q]
          /\ queue'[q] = queue[q] /\ sbuf'[q] = sbuf[q] /\ out'[q] = out[q]
      BY <1>0, <1>6, <2>1 DEF TypeOK, PeerWrite, Receive, Enqueue, Dequeue, Write
    <3> QED
      BY <1>4, <3>1 DEF InOrder
  <2>2. CASE PeerWrite(q) \/ Receive(q) \/ Enqueue(q) \/ Dequeue(q)
    BY <1>0, <1>4, <2>2, PeerWriteKeepsOrder, ReceiveKeepsOrder, EnqueueKeepsOrder,
       DequeueKeepsOrder
  <2>3. CASE Write(q)
    <3>1. q \in piped
      BY <1>0, <2>3 DEF Idle, Write
    <3>2. link[Back(q)] # "none"
      BY <1>0, <3>1, PipeParts DEF Dialled, Back
    <3> QED
      BY <1>0, <1>3, <1>4, <2>3, <3>2, WriteKeepsOrder
  <2> QED
    BY <1>6, <2>1, <2>2, <2>3
<1> QED
  BY <1>5, <1>6
     DEF Next, Peers, Main, Run, ProxyReceive, ProxySend, AppDial, PeerDrop, Interrupt, Cancel,
         Wait, Exit, RunDone, RunDefault, AcceptTimeout, Accept, DialRefused, Dial, ReceiveReset,
         ReceiveEof, GenerateMetrics, pipeVars, vars

-----------------------------------------------------------------------------
(* Every step is one of the pipe of a direction, or leaves all pipes as    *)
(* they are.                                                               *)

LEMMA OpenIsPipes == Open \subseteq Pipes /\ Open' \subseteq Pipes
  BY DEF Open

LEMMA SendStep ==
  ASSUME TypeOK, NEW p \in Pipes, PeerWrite(p)
  PROVE  Pipe!Send(p)
<1> DEFINE f == [pipe |-> p, n |-> Len(written[p]) + 1]
<1>1. f \in Frame
  <2>1. written[p] \in Seq(Frame)
    BY DEF TypeOK
  <2>2. Len(written[p]) + 1 \in 1..Len(Script[p[2]])
    BY <2>1, ScriptOf DEF PeerWrite
  <2> QED
    BY <2>2, FrameOf
<1> HIDE DEF f
<1>2. written' = [written EXCEPT ![p] = Append(@, f)] /\ UNCHANGED <<status, link, out>>
  BY DEF PeerWrite, f, runtimeVars
<1>3. Open' = Open
  BY <1>2 DEF Open, Running
<1> QED
  BY <1>1, <1>2, <1>3 DEF Pipe!Send

LEMMA DeliverStep ==
  ASSUME FlowInv, NEW p \in Pipes, Write(p)
  PROVE  Pipe!Deliver(p) \/ UNCHANGED <<written, out, Open>>
<1>1. CASE link[Back(p)] = "up"
  BY <1>1, WriteKeepsOrder DEF FlowInv, Flow
<1>2. CASE link[Back(p)] # "up"
  <2>1. UNCHANGED <<status, link, written, out>>
    BY <1>2 DEF Write, runtimeVars
  <2>2. Open' = Open
    BY <2>1 DEF Open, Running
  <2> QED
    BY <2>1, <2>2
<1> QED
  BY <1>1, <1>2

LEMMA PipeStep == FlowInv /\ [Next]_vars => [Pipe!Next]_Pipe!vars
<1> SUFFICES ASSUME FlowInv, [Next]_vars PROVE [Pipe!Next]_Pipe!vars
  OBVIOUS
<1>1. ASSUME UNCHANGED <<written, out>> PROVE Pipe!Connect \/ UNCHANGED Pipe!vars
  BY <1>1, OpenIsPipes DEF Pipe!Connect, Pipe!vars
<1>2. ASSUME NEW p \in Pipes, PeerWrite(p) PROVE Pipe!Send(p)
  BY <1>2, SendStep DEF FlowInv
<1>3. ASSUME NEW p \in Pipes, Write(p) PROVE Pipe!Deliver(p) \/ UNCHANGED Pipe!vars
  BY <1>3, DeliverStep DEF Pipe!vars
<1>4. \/ UNCHANGED <<written, out>>
      \/ \E p \in Pipes : PeerWrite(p) \/ Write(p)
  BY DEF Next, Peers, Main, Run, ProxyReceive, ProxySend, AppDial, PeerDrop, Interrupt, Cancel,
         Wait, Exit, RunDone, RunDefault, AcceptTimeout, Accept, DialRefused, Dial, Receive,
         ReceiveReset, ReceiveEof, GenerateMetrics, Enqueue, Dequeue, pipeVars, vars
<1> QED
  BY <1>1, <1>2, <1>3, <1>4 DEF Pipe!Next

LEMMA PipeStart == Init => FlowInv /\ Pipe!Init
<1> SUFFICES ASSUME Init PROVE FlowInv /\ Pipe!Init
  OBVIOUS
<1>1. \A a \in Apps : Dialled(a)
  BY DEF Init, Dialled, Pipes
<1>2. \A p \in Pipes : /\ out[p] = <<>> /\ sbuf[p] = <<>> /\ queue[p] = <<>> /\ rbuf[p] = <<>>
                      /\ read[p] = 0
  BY DEF Init, Nothing
<1>3. Len(<<>>) = 0
  BY EmptySeq, Zenon
<1>4. ASSUME NEW p \in Pipes PROVE InOrder(p) /\ Idle(p)
  <2>1. /\ out[p] = <<>> /\ sbuf[p] = <<>> /\ queue[p] = <<>> /\ rbuf[p] = <<>>
        /\ read[p] = 0
    BY <1>2
  <2>2. Idle(p)
    BY <2>1 DEF Idle
  <2>3. Len(out[p]) = 0 /\ Len(sbuf[p]) = 0 /\ Len(queue[p]) = 0 /\ Len(rbuf[p]) = 0
    BY <1>3, <2>1
  <2>4. \A i \in 1..Len(queue[p]) : FALSE
    BY <2>3
  <2>5. Len(out[p]) + Len(sbuf[p]) + Len(queue[p]) + Len(rbuf[p]) = read[p]
    BY <2>1, <2>3
  <2>6. Len(sbuf[p]) # 1 /\ Len(rbuf[p]) # 1
    BY <2>3
  <2>7. InOrder(p)
    BY <2>4, <2>5, <2>6, Zenon DEF InOrder
  <2> QED
    BY <2>2, <2>7
<1>5. Pipe!Init
  BY OpenIsPipes DEF Init, Nothing, Pipe!Init
<1> QED
  BY <1>1, <1>4, <1>5, TypeStart DEF FlowInv, Flow

(* IsPipe: what comes out of each direction of each connection is, message *)
(* for message, what its peer has written, whatever the other apps do, for *)
(* any capacity of the channels, and however the process ends.             *)
THEOREM ProxiesInOrder == Spec => IsPipe
<1>1. Spec => []FlowInv
  BY PipeStart, FlowStep, PTL DEF Spec
<1> QED
  BY <1>1, PipeStart, PipeStep, PTL DEF Spec, IsPipe, Pipe!Spec

-----------------------------------------------------------------------------
(* What the gauges show *)

LEMMA AskedUnsigned == \A s \in Unsigned : NewPpid(s) = 1
BY DEF Unsigned, AskedFor, NewPpid, Countdowns, SignedSensors, PresenceSensors

(* The number that a gauge is to show for a value, and for a measurement *)
Shown(value) == IF value >= 0 THEN value ELSE value + 65536

ShownFor(c) == IF c.ppid \in Unsigned THEN c.value ELSE Shown(c.value)

LEMMA ByteShown ==
  ASSUME NEW v \in Int, Fits(1, v)
  PROVE  Tofloat64(1, Measured(1, v)) = v /\ v >= 0
<1>1. v \in Nat /\ v < 256 /\ v >= 0
  BY DEF Fits
<1> QED
  BY <1>1, UnsignedShown

LEMMA WordShown ==
  ASSUME NEW v \in Int, Fits(2, v)
  PROVE  Tofloat64(1, Measured(2, v)) = v /\ v >= 0
<1>1. v \in Nat /\ v < 65536 /\ v >= 0
  BY DEF Fits
<1> QED
  BY <1>1, UnsignedShown

LEMMA Remainder == ASSUME NEW v \in Nat, v < 65536 PROVE v % 65536 = v
OBVIOUS

LEMMA SignedWordShown ==
  ASSUME NEW v \in Int, Fits(6, v)
  PROVE  Tofloat64(1, Measured(6, v)) = Shown(v)
<1>0. v \in Int /\ -32768 <= v /\ v < 65536
  BY DEF Fits
<1>1. CASE v < 0
  <2>1. Tofloat64(1, Measured(6, v)) = v + 65536
    BY <1>0, <1>1, SignedShown
  <2>2. Shown(v) = v + 65536
    BY <1>0, <1>1 DEF Shown
  <2> QED
    BY <2>1, <2>2
<1>2. CASE v >= 0
  <2>1. v \in Nat
    BY <1>0, <1>2
  <2>2. v % 65536 = v
    BY <1>0, <2>1, Remainder
  <2>3. Measured(6, v) = Measured(2, v)
    BY <2>2 DEF Measured
  <2>4. Fits(2, v)
    BY <1>0, <2>1 DEF Fits
  <2>5. Tofloat64(1, Measured(2, v)) = v
    BY <2>4, WordShown
  <2>6. Shown(v) = v
    BY <1>2 DEF Shown
  <2> QED
    BY <2>3, <2>5, <2>6
<1> QED
  BY <1>0, <1>1, <1>2

LEMMA Converted ==
  ASSUME UnitMeasures,
         NEW f \in Frame, Content(f).kind = "CnRpdoNotification", ~Crashes(Content(f)),
         NewPpid(Content(f).ppid) = 1
  PROVE  Tofloat64(1, Content(f).data) = ShownFor(Content(f))
<1> DEFINE c == Content(f)
<1> PICK p \in Pipes : f \in [pipe : {p}, n : 1..Len(Script[p[2]])]
  BY DEF Frame
<1>1. c = Script[p[2]][f.n] /\ f.n \in 1..Len(Script[p[2]]) /\ p[2] \in {"up", "down"}
  BY PipeParts DEF Content
<1>2. Len(c.data) >= 1
  <2>1. ~ShortFor(1, c.data) /\ c.data \in Seq(Byte)
    BY MeasurementOf DEF Crashes
  <2>2. Len(c.data) \in Nat
    BY <2>1
  <2> HIDE DEF c
  <2> QED
    BY <2>1, <2>2 DEF ShortFor
<1>3. c.data # <<>>
  BY <1>2, EmptySeq
<1>4. c.kind = "CnRpdoNotification" /\ NewPpid(c.ppid) = 1 /\ c.value \in Int
  BY MeasurementOf
<1> HIDE DEF c
<1>5. PICK type \in {1, 2, 6} :
        /\ Fits(type, c.value)
        /\ c.data = Measured(type, c.value)
        /\ c.ppid \in Unsigned => type # 6
  <2> DEFINE m == Script[p[2]][f.n]
  <2>1. m.kind = "CnRpdoNotification" /\ NewPpid(m.ppid) = 1 /\ m.data # <<>> =>
          \E type \in {1, 2, 6} :
            /\ Fits(type, m.value)
            /\ m.data = Measured(type, m.value)
            /\ m.ppid \in Unsigned => type # 6
    BY <1>1, Zenon DEF Unsigned, UnitMeasures
  <2> HIDE DEF m
  <2>2. c = m
    BY <1>1 DEF m
  <2> QED
    BY <1>3, <1>4, <2>1, <2>2, Zenon
<1>6. ASSUME type = 6 PROVE Tofloat64(1, c.data) = ShownFor(c)
  <2>1. Tofloat64(1, Measured(6, c.value)) = Shown(c.value)
    BY <1>4, <1>5, <1>6, SignedWordShown
  <2>2. ShownFor(c) = Shown(c.value)
    BY <1>5, <1>6 DEF ShownFor
  <2> QED
    BY <1>5, <1>6, <2>1, <2>2
<1>7. ASSUME type \in {1, 2} PROVE Tofloat64(1, c.data) = ShownFor(c)
  <2>1. ASSUME type = 1 PROVE Tofloat64(1, c.data) = ShownFor(c)
    <3>1. Tofloat64(1, Measured(1, c.value)) = c.value /\ c.value >= 0
      BY <1>4, <1>5, <2>1, ByteShown
    <3> QED
      BY <1>5, <2>1, <3>1 DEF ShownFor, Shown
  <2>2. ASSUME type = 2 PROVE Tofloat64(1, c.data) = ShownFor(c)
    <3>1. Tofloat64(1, Measured(2, c.value)) = c.value /\ c.value >= 0
      BY <1>4, <1>5, <2>2, WordShown
    <3> QED
      BY <1>5, <2>2, <3>1 DEF ShownFor, Shown
  <2> QED
    BY <1>7, <2>1, <2>2
<1>8. Tofloat64(1, c.data) = ShownFor(c)
  BY <1>6, <1>7
<1> QED
  BY <1>8 DEF c

(* GaugesInv, pipe by pipe *)
ShownOn(p, s) ==
  \E i \in LastOf(p, Seen(p), s) : gauges[s] = ShownFor(Content(written[p][i]))

Hand(p) ==
  /\ rbuf[p] # <<>> => read[p] >= 1 /\ rbuf[p][1] = written[p][read[p]]
  /\ p \in counted => rbuf[p] # <<>>

AllShown == \A s \in DOMAIN gauges : NewPpid(s) = 1 => \E p \in Pipes : ShownOn(p, s)

LEMMA GaugesSplit == GaugesInv <=> AllShown /\ \A p \in Pipes : Hand(p)
<1> DEFINE Right(s, p, i) ==
             LET v == Content(written[p][i]).value
             IN  gauges[s] = IF s \in Unsigned \/ v >= 0 THEN v ELSE v + 65536
<1>1. ASSUME NEW s, NEW p, NEW i \in LastOf(p, Seen(p), s)
      PROVE  gauges[s] = ShownFor(Content(written[p][i])) <=> Right(s, p, i)
  <2>1. Content(written[p][i]).ppid = s
    BY DEF LastOf, Measures
  <2> QED
    BY <2>1 DEF ShownFor, Shown
<1> HIDE DEF Right
<1>2. ASSUME NEW s, NEW p
      PROVE  ShownOn(p, s) <=> \E i \in LastOf(p, Seen(p), s) : Right(s, p, i)
  <2>1. ASSUME ShownOn(p, s) PROVE \E i \in LastOf(p, Seen(p), s) : Right(s, p, i)
    <3> PICK i \in LastOf(p, Seen(p), s) : gauges[s] = ShownFor(Content(written[p][i]))
      BY <2>1, Zenon DEF ShownOn
    <3> QED
      BY <1>1, Zenon
  <2>2. ASSUME NEW i \in LastOf(p, Seen(p), s), Right(s, p, i) PROVE ShownOn(p, s)
    <3>1. gauges[s] = ShownFor(Content(written[p][i]))
      BY <1>1, <2>2, Zenon
    <3> QED
      BY <3>1, SMT DEF ShownOn
  <2> QED
    BY <2>1, <2>2, Zenon
<1>3. GaugesShowLatest <=>
        \A s \in DOMAIN gauges : NewPpid(s) = 1 \/ s \in Unsigned =>
          \E p \in Pipes : \E i \in LastOf(p, Seen(p), s) : Right(s, p, i)
  BY SMT DEF GaugesShowLatest, Right
<1>4. GaugesShowLatest <=> AllShown
  <2>1. \A s : NewPpid(s) = 1 \/ s \in Unsigned <=> NewPpid(s) = 1
    BY AskedUnsigned, Zenon
  <2> QED
    BY <1>2, <1>3, <2>1, Zenon DEF AllShown
<1> QED
  BY <1>4, Zenon DEF GaugesInv, Hand

LEMMA SeenBound ==
  ASSUME TypeOK, NEW p \in Pipes, Hand(p)
  PROVE  /\ Seen(p) \in 0..Len(written[p]) /\ Len(written[p]) \in Nat /\ read[p] \in 0..Len(written[p])
         /\ rbuf[p] = <<>> \/ p \in counted => Seen(p) = read[p]
         /\ rbuf[p] # <<>> /\ p \notin counted => Seen(p) + 1 = read[p]
BY DEF TypeOK, Hand, Seen

(* A step that leaves alone the gauges and what was seen on a pipe *)
LEMMA ShownKept ==
  ASSUME TypeOK, NEW p \in Pipes, Hand(p), NEW s, ShownOn(p, s), Seen(p)' = Seen(p), gauges'[s] = gauges[s],
         \A i \in 1..Len(written[p]) : written'[p][i] = written[p][i]
  PROVE  ShownOn(p, s)'
<1> DEFINE n == Seen(p)
<1>1. n \in 0..Len(written[p]) /\ Len(written[p]) \in Nat
  BY SeenBound
<1> PICK i \in LastOf(p, n, s) : gauges[s] = ShownFor(Content(written[p][i]))
  BY DEF ShownOn
<1>2. /\ i \in 1..n /\ Measures(Content(written[p][i]), s)
      /\ \A j \in (i + 1)..n : ~Measures(Content(written[p][j]), s)
  BY DEF LastOf
<1> HIDE DEF n
<1>3. i \in 1..Len(written[p]) /\ \A j \in (i + 1)..n : j \in 1..Len(written[p])
  BY <1>1, <1>2
<1>4. written'[p][i] = written[p][i] /\ \A j \in (i + 1)..n : written'[p][j] = written[p][j]
  BY <1>3
<1>5. /\ Measures(Content(written'[p][i]), s)
      /\ \A j \in (i + 1)..n : ~Measures(Content(written'[p][j]), s)
  BY <1>2, <1>4
<1>6. i \in {k \in 1..n : /\ Measures(Content(written'[p][k]), s)
                          /\ \A j \in (k + 1)..n : ~Measures(Content(written'[p][j]), s)}
  BY <1>2, <1>5
<1>7. i \in LastOf(p, n, s)'
  BY <1>6 DEF n, LastOf, Content, Measures
<1>8. gauges'[s] = ShownFor(Content(written'[p][i]))
  BY <1>4
<1> QED
  BY <1>7, <1>8 DEF ShownOn, n, Content, ShownFor, LastOf, Measures

(* One more frame was seen, which does not measure the sensor. *)
LEMMA ShownStill ==
  ASSUME TypeOK, NEW p \in Pipes, Hand(p), NEW s, ShownOn(p, s),
         NEW CONSTANT n, Seen(p) = n, Seen(p)' = n + 1,
         ~Measures(Content(written[p][n + 1]), s), gauges'[s] = gauges[s], written' = written
  PROVE  ShownOn(p, s)'
<1> DEFINE w == written[p]
           Last(k, t) == /\ k \in 1..t /\ Measures(Content(w[k]), s)
                         /\ \A j \in (k + 1)..t : ~Measures(Content(w[j]), s)
<1>1. n \in Nat
  BY SeenBound
<1>2. \A k, t : k \in LastOf(p, t, s) <=> Last(k, t)
  BY DEF LastOf
<1>3. ~Measures(Content(w[n + 1]), s)
  OBVIOUS
<1> PICK i \in LastOf(p, n, s) : gauges[s] = ShownFor(Content(w[i]))
  BY DEF ShownOn, w
<1>4. Last(i, n)
  BY <1>2
<1> HIDE DEF w
<1>5. Last(i, n + 1)
  BY <1>1, <1>3, <1>4
<1>6. i \in LastOf(p, n + 1, s)'
  BY <1>5 DEF w, LastOf, Content, Measures
<1>7. gauges'[s] = ShownFor(Content(written'[p][i]))
  BY DEF w
<1> QED
  BY <1>6, <1>7 DEF ShownOn, Content, ShownFor

LEMMA GaugesKept ==
  ASSUME TypeOK, \A p \in Pipes : Hand(p), AllShown, gauges' = gauges,
         \A p \in Pipes : Seen(p)' = Seen(p),
         \A p \in Pipes : \A i \in 1..Len(written[p]) : written'[p][i] = written[p][i]
  PROVE  AllShown'
<1> SUFFICES ASSUME NEW s \in DOMAIN gauges, NewPpid(s) = 1
             PROVE  \E p \in Pipes : ShownOn(p, s)'
  BY DEF AllShown
<1> PICK p \in Pipes : ShownOn(p, s)
  BY DEF AllShown
<1>1. ShownOn(p, s)'
  BY ShownKept
<1> QED
  BY <1>1

LEMMA PeerWriteShows ==
  ASSUME TypeOK, \A q \in Pipes : Hand(q), AllShown, NEW p \in Pipes, PeerWrite(p)
  PROVE  AllShown' /\ \A q \in Pipes : Hand(q)'
<1> DEFINE f == [pipe |-> p, n |-> Len(written[p]) + 1]
<1>1. written' = [written EXCEPT ![p] = Append(@, f)] /\ UNCHANGED <<read, rbuf, metricVars>>
  BY DEF PeerWrite
<1> HIDE DEF f
<1>2. ASSUME NEW q \in Pipes, NEW i \in 1..Len(written[q]) PROVE written'[q][i] = written[q][i]
  <2>1. written[q] \in Seq(Frame) /\ written'[q] \in {written[q], Append(written[q], f)}
    BY <1>1 DEF TypeOK
  <2> QED
    BY <2>1
<1>3. ASSUME NEW q \in Pipes PROVE Seen(q)' = Seen(q) /\ Hand(q)'
  <2>1. Seen(q)' = Seen(q)
    BY <1>1 DEF Seen, metricVars
  <2>2. read[q] \in Nat /\ read[q] <= Len(written[q]) /\ Len(written[q]) \in Nat
    BY SeenBound
  <2>3. read[q] >= 1 => written'[q][read[q]] = written[q][read[q]]
    BY <1>2, <2>2
  <2> QED
    BY <1>1, <2>1, <2>3 DEF Hand, metricVars
<1>4. gauges' = gauges
  BY <1>1 DEF metricVars
<1>5. AllShown'
  BY <1>2, <1>3, <1>4, GaugesKept
<1> QED
  BY <1>3, <1>5

LEMMA ReceiveShows ==
  ASSUME TypeOK, \A q \in Pipes : Hand(q), AllShown, NEW p \in Pipes, Receive(p)
  PROVE  AllShown' /\ \A q \in Pipes : Hand(q)'
<1> DEFINE f == written[p][read[p] + 1]
<1>0. rbuf[p] = <<>> /\ UNCHANGED <<written, metricVars>> /\ read[p] \in Nat
  BY DEF Receive, TypeOK
<1>1. \/ UNCHANGED <<rbuf, read>>
      \/ rbuf' = [rbuf EXCEPT ![p] = <<f>>] /\ read' = [read EXCEPT ![p] = @ + 1]
  BY DEF Receive
<1>2. p \notin counted
  BY <1>0 DEF Hand
<1>3. ASSUME NEW q \in Pipes PROVE Seen(q)' = Seen(q) /\ Hand(q)'
  <2>1. CASE rbuf'[q] = rbuf[q] /\ read'[q] = read[q]
    BY <1>0, <2>1 DEF Seen, Hand, metricVars
  <2>2. CASE q = p /\ rbuf'[p] = <<f>> /\ read'[p] = read[p] + 1
    <3>1. <<f>> # <<>> /\ <<f>>[1] = f
      OBVIOUS
    <3>2. Seen(p) = read[p] /\ Seen(p)' = read[p] + 1 - 1
      BY <1>0, <1>2, <2>2, <3>1 DEF Seen, metricVars
    <3>3. Hand(p)'
      BY <1>0, <1>2, <2>2, <3>1 DEF Hand, metricVars
    <3> QED
      BY <1>0, <2>2, <3>2, <3>3
  <2> QED
    BY <1>1, <2>1, <2>2 DEF TypeOK
<1>4. gauges' = gauges /\ written' = written
  BY <1>0 DEF metricVars
<1>5. AllShown'
  BY <1>3, <1>4, GaugesKept
<1> QED
  BY <1>3, <1>5

LEMMA EnqueueShows ==
  ASSUME TypeOK, \A q \in Pipes : Hand(q), AllShown, NEW p \in Pipes, Enqueue(p)
  PROVE  AllShown' /\ \A q \in Pipes : Hand(q)'
<1>1. /\ rbuf[p] # <<>> /\ p \in counted /\ UNCHANGED <<written, read, gauges>>
      /\ rbuf' = [rbuf EXCEPT ![p] = <<>>] /\ counted' = counted \ {p}
  BY DEF Enqueue
<1>2. ASSUME NEW q \in Pipes PROVE Seen(q)' = Seen(q) /\ Hand(q)'
  <2>1. rbuf'[q] = (IF q = p THEN <<>> ELSE rbuf[q])
    BY <1>1 DEF TypeOK
  <2>2. read[q] - 0 = read[q]
    BY DEF TypeOK
  <2> QED
    BY <1>1, <2>1, <2>2 DEF Seen, Hand
<1>3. AllShown'
  BY <1>1, <1>2, GaugesKept
<1> QED
  BY <1>2, <1>3

(* The steps that neither read nor count *)
LEMMA RestShows ==
  ASSUME TypeOK, \A q \in Pipes : Hand(q), AllShown, UNCHANGED <<written, read, rbuf, metricVars>>
  PROVE  AllShown' /\ \A q \in Pipes : Hand(q)'
<1>1. ASSUME NEW q \in Pipes PROVE Seen(q)' = Seen(q) /\ Hand(q)'
  BY DEF Seen, Hand, metricVars
<1>2. gauges' = gauges /\ written' = written
  BY DEF metricVars
<1>3. AllShown'
  BY <1>1, <1>2, GaugesKept
<1> QED
  BY <1>1, <1>3

(* The frame in hand was counted: the last of the sensor it measures, and  *)
(* none of the others.                                                     *)
LEMMA GenerateMetricsShows ==
  ASSUME UnitMeasures, TypeOK, \A q \in Pipes : Hand(q), AllShown,
         NEW p \in Pipes, GenerateMetrics(p)
  PROVE  AllShown' /\ \A q \in Pipes : Hand(q)'
<1> DEFINE f == rbuf[p][1]
           c == Content(f)
           value == Tofloat64(NewPpid(c.ppid), c.data)
<1>1. /\ rbuf[p] # <<>> /\ p \notin counted /\ UNCHANGED <<written, read, rbuf>>
      /\ \/ UNCHANGED metricVars
         \/ /\ ~Crashes(c)
            /\ counted' = counted \cup {p}
            /\ IF c.kind = "CnRpdoNotification" THEN SetGauge(c.ppid, value) ELSE UNCHANGED gauges
  BY DEF GenerateMetrics
<1>2. f \in Frame /\ f = written[p][read[p]]
  <2>1. rbuf[p] \in Seq(Frame) /\ Len(rbuf[p]) <= 1 /\ rbuf[p] # <<>>
    BY <1>1 DEF TypeOK
  <2> QED
    BY <2>1, InHand DEF Hand
<1>3. CASE UNCHANGED metricVars
  BY <1>1, <1>3, RestShows
<1>4. CASE counted' = counted \cup {p} /\ ~Crashes(c)
  <2> PICK n \in Nat : n = Seen(p)
    BY SeenBound
  <2> PICK d : d = c
    OBVIOUS
  <2>1. n + 1 = read[p]
    BY <1>1, SeenBound
  <2>2. Seen(p)' = n + 1
    BY <1>1, <1>4, <2>1 DEF Seen
  <2>3. \A q \in Pipes \ {p} : Seen(q)' = Seen(q)
    BY <1>1, <1>4 DEF Seen
  <2>4. \A q \in Pipes : Hand(q)'
    BY <1>1, <1>4 DEF Hand
  <2>5. written[p][n + 1] = f
    BY <1>2, <2>1
  <2>6. Content(written[p][n + 1]) = d
    BY <2>5
  <2>7. ASSUME NEW s \in DOMAIN gauges, NewPpid(s) = 1, gauges'[s] = gauges[s], ~Measures(d, s)
        PROVE  \E q \in Pipes : ShownOn(q, s)'
    <3> PICK q \in Pipes : ShownOn(q, s)
      BY <2>7 DEF AllShown
    <3>1. ASSUME q = p PROVE ShownOn(q, s)'
      <4>1. ShownOn(p, s) /\ ~Measures(Content(written[p][n + 1]), s) /\ written' = written
        BY <1>1, <2>6, <2>7, <3>1
      <4>2. ShownOn(p, s)'
        BY <2>2, <2>7, <4>1, ShownStill
      <4> QED
        BY <3>1, <4>2
    <3>2. ASSUME q # p PROVE ShownOn(q, s)'
      BY <1>1, <2>3, <2>7, <3>2, ShownKept
    <3> QED
      BY <3>1, <3>2
  <2>8. ASSUME d.kind = "CnRpdoNotification", NewPpid(d.ppid) = 1, gauges'[d.ppid] = value
        PROVE  \E q \in Pipes : ShownOn(q, d.ppid)'
    <3>1. value = ShownFor(d)
      BY <1>2, <1>4, <2>8, Converted
    <3>2. Measures(d, d.ppid)
      BY <2>8 DEF Measures
    <3> HIDE DEF c, value
    <3>3. Content(written'[p][n + 1]) = d
      BY <1>1, <2>6
    <3>4. n + 1 \in LastOf(p, n + 1, d.ppid)'
      BY <3>2, <3>3 DEF LastOf, Content, Measures
    <3>5. gauges'[d.ppid] = ShownFor(Content(written'[p][n + 1]))
      BY <2>8, <3>1, <3>3
    <3> QED
      BY <2>2, <3>4, <3>5 DEF ShownOn, Content, ShownFor
  <2>9. ASSUME NEW s \in DOMAIN gauges', NewPpid(s) = 1 PROVE \E q \in Pipes : ShownOn(q, s)'
    <3>1. CASE d.kind = "CnRpdoNotification"
      <4>1. SetGauge(d.ppid, value)
        BY <1>1, <1>4, <3>1 DEF metricVars
      <4> HIDE DEF c, value
      <4>2. gauges' = [t \in DOMAIN gauges \cup {d.ppid} |-> IF t = d.ppid THEN value ELSE gauges[t]]
        BY <4>1 DEF SetGauge
      <4>3. CASE s = d.ppid
        BY <2>8, <2>9, <3>1, <4>2, <4>3
      <4>4. CASE s # d.ppid
        <5>1. s \in DOMAIN gauges /\ gauges'[s] = gauges[s]
          BY <4>2, <4>4
        <5> QED
          BY <2>7, <2>9, <4>4, <5>1 DEF Measures
      <4> QED
        BY <4>3, <4>4
    <3>2. CASE d.kind # "CnRpdoNotification"
      <4>1. gauges' = gauges
        BY <1>1, <1>4, <3>2 DEF metricVars
      <4> HIDE DEF c, value
      <4> QED
        BY <2>7, <2>9, <3>2, <4>1 DEF Measures
    <3> QED
      BY <3>1, <3>2
  <2>10. AllShown'
    BY <2>9 DEF AllShown
  <2> QED
    BY <2>4, <2>10
<1>5. UNCHANGED metricVars \/ (counted' = counted \cup {p} /\ ~Crashes(c))
  BY <1>1
<1> QED
  BY <1>3, <1>4, <1>5, Zenon

LEMMA GaugesStep == UnitMeasures /\ TypeOK /\ GaugesInv /\ [Next]_vars => GaugesInv'
<1> SUFFICES ASSUME UnitMeasures, TypeOK, GaugesInv, [Next]_vars PROVE GaugesInv'
  OBVIOUS
<1>1. AllShown /\ \A p \in Pipes : Hand(p)
  BY GaugesSplit
<1>2. (GaugesInv <=> AllShown /\ \A p \in Pipes : Hand(p))'
  BY GaugesSplit, PTL
<1>3. \/ UNCHANGED <<written, read, rbuf, metricVars>>
      \/ \E p \in Pipes : PeerWrite(p) \/ Receive(p) \/ GenerateMetrics(p) \/ Enqueue(p)
  BY DEF Next, Main, Run, Peers, Interrupt, Cancel, Wait, Exit, RunDone, RunDefault,
         AcceptTimeout, Accept, DialRefused, Dial, AppDial, PeerDrop, ProxyReceive, ProxySend,
         ReceiveReset, ReceiveEof, Dequeue, Write, pipeVars, vars
<1>4. AllShown' /\ \A p \in Pipes : Hand(p)'
  BY <1>1, <1>3, RestShows, PeerWriteShows, ReceiveShows, GenerateMetricsShows, EnqueueShows, Zenon
<1>5. (\A p \in Pipes : Hand(p))'
  BY <1>4
<1> QED
  BY <1>2, <1>4, <1>5

LEMMA GaugesStart == Init => GaugesInv
<1> SUFFICES ASSUME Init PROVE GaugesInv
  OBVIOUS
<1>1. AllShown
  BY DEF Init, AllShown
<1>2. \A p \in Pipes : Hand(p)
  BY DEF Init, Nothing, Hand
<1> QED
  BY <1>1, <1>2, GaugesSplit

(* GaugesShowLatest: of a unit that writes its measurements as cmd/client  *)
(* asks for them, every gauge with the common converter shows what the     *)
(* unit measured last on one of the apps' connections, whatever the other  *)
(* connections bring and however the goroutines are scheduled.             *)
THEOREM GaugesRight == ASSUME UnitMeasures PROVE Spec => []GaugesShowLatest
<1>1. TypeOK /\ GaugesInv /\ [Next]_vars => GaugesInv'
  BY GaugesStep
<1>2. GaugesInv => GaugesShowLatest
  BY DEF GaugesInv
<1> QED
  BY <1>1, <1>2, GaugesStart, TypeCorrect, PTL DEF Spec
=============================================================================
