--------------------------- MODULE TestProxyProofs ---------------------------
(***************************************************************************)
(* pkg/testproxy is a pair of pipes for every app, for any number of apps  *)
(* and any messages.                                                       *)
(***************************************************************************)
EXTENDS TestProxy, SequenceTheorems, TLAPS

-----------------------------------------------------------------------------
(* Type correctness *)

LEMMA BackIsPipe == ASSUME NEW p \in Pipes PROVE Back(p) \in Pipes /\ Back(p) # p
  BY DEF Pipes, Back

LEMMA PipeParts == ASSUME NEW p \in Pipes PROVE p[1] \in Apps /\ p[2] \in {"up", "down"}
  BY DEF Pipes

LEMMA ScriptLength ==
  ASSUME NEW p \in Pipes
  PROVE  Len(Script[p[2]]) \in Nat
  BY TestProxyAssumption, PipeParts

LEMMA FrameOf ==
  ASSUME NEW p \in Pipes, NEW n \in 1..Len(Script[p[2]])
  PROVE  [pipe |-> p, n |-> n] \in Frame
<1>1. [pipe |-> p, n |-> n] \in [pipe : {p}, n : 1..Len(Script[p[2]])]
  OBVIOUS
<1> QED
  BY <1>1 DEF Frame

(* TypeOK, in the sets of the variables and what holds of one pipe *)
Sets ==
  /\ status \in {"running", "panicked"}
  /\ trun \in {"select", "accept", "wait", "exited"}
  /\ tquit \in BOOLEAN /\ listening \in BOOLEAN
  /\ phase \in [Apps -> {"none", "dial", "copy", "redial", "spin", "ended"}]
  /\ link \in [Pipes -> {"none", "up", "fin", "rst", "dead", "closed"}]
  /\ copier \in [Pipes -> {"none", "read", "write", "done"}]
  /\ read \in [Pipes -> Nat]
  /\ written \in [Pipes -> Seq(Frame)] /\ out \in [Pipes -> Seq(Frame)]

OnePipe(p) ==
  /\ read[p] <= Len(written[p])
  /\ copier[p] = "write" => read[p] > 0
  /\ (phase[p[1]] = "copy") <=> (copier[p] # "none")

LEMMA TypeSplit == TypeOK <=> Sets /\ \A p \in Pipes : OnePipe(p)
  BY DEF TypeOK, Sets, OnePipe

LEMMA TypeStep ==
  ASSUME TypeOK, [Next]_vars
  PROVE  TypeOK'
<1>0. tquit' \in BOOLEAN /\ listening' \in BOOLEAN
  BY Zenon DEF TypeOK, Next, Peers, Run, HandleClient, Copy, AppDial, PeerWrite, PeerDrop, Stop,
         SelectAccept, AcceptTimeout, Accept, ShutDown, Exits, DialGateway, DialFails, BothDone,
         Redial, SpinPanics, Read, ReadReset, ReadEof, Write, runVars, vars
<1>14. (TypeOK <=> Sets /\ \A p \in Pipes : OnePipe(p))'
  BY DEF TypeOK, Sets, OnePipe
<1>1. ASSUME NEW a \in Apps, AppDial(a) PROVE TypeOK'
  <2>1. <<a, "up">> \in Pipes
    BY DEF Pipes
  <2> QED
    BY <1>0, <1>1, <2>1 DEF TypeOK, AppDial, runVars, pipeVars
<1>2. ASSUME NEW p \in Pipes, PeerWrite(p) PROVE TypeOK'
  <2> DEFINE f == [pipe |-> p, n |-> Len(written[p]) + 1]
  <2>1. f \in Frame
    BY <1>2, ScriptLength, FrameOf DEF TypeOK, PeerWrite
  <2> HIDE DEF f
  <2>2. written' = [written EXCEPT ![p] = Append(@, f)]
    BY <1>2 DEF PeerWrite, f
  <2>3. written' \in [Pipes -> Seq(Frame)]
    BY <2>1, <2>2 DEF TypeOK
  <2>4. \A q \in Pipes : Len(written[q]) <= Len(written'[q])
    BY <2>1, <2>2 DEF TypeOK
  <2> QED
    BY <1>0, <1>2, <2>3, <2>4 DEF TypeOK, PeerWrite, runVars
<1>3. ASSUME NEW p \in Pipes, PeerDrop(p) PROVE TypeOK'
  <2> PICK fault \in Faults \cap {"fin", "rst"} : link' = [link EXCEPT ![p] = fault]
    BY <1>3 DEF PeerDrop
  <2> QED
    BY <1>0, <1>3 DEF TypeOK, PeerDrop, runVars, pipeVars
<1>4. CASE Stop \/ SelectAccept \/ AcceptTimeout \/ ShutDown \/ Exits
  BY <1>0, <1>4 DEF TypeOK, Stop, SelectAccept, AcceptTimeout, ShutDown, Exits, pipeVars
<1>5. ASSUME NEW a \in Apps, Accept(a) PROVE TypeOK'
  BY <1>0, <1>5, PipeParts DEF TypeOK, Accept, pipeVars
<1>6. ASSUME NEW a \in Apps, DialGateway(a) PROVE TypeOK'
  <2>1. <<a, "down">> \in Pipes
    BY DEF Pipes
  <2> QED
    BY <1>0, <1>6, <2>1, PipeParts DEF TypeOK, DialGateway, SetBoth, runVars
<1>7. ASSUME NEW a \in Apps, DialFails(a) PROVE TypeOK'
  <2>1. <<a, "up">> \in Pipes
    BY DEF Pipes
  <2> QED
    BY <1>0, <1>7, <2>1, PipeParts DEF TypeOK, DialFails, runVars, pipeVars
<1>8. ASSUME NEW a \in Apps, BothDone(a) PROVE TypeOK'
  <2>1. Sets'
    BY <1>0, <1>8, PipeParts DEF TypeOK, Sets, BothDone, SetBoth, runVars
  <2>2. ASSUME NEW q \in Pipes PROVE OnePipe(q)'
    BY <1>8, PipeParts DEF TypeOK, OnePipe, BothDone, SetBoth
  <2> QED
    BY <1>14, <2>1, <2>2
<1>9. ASSUME NEW a \in Apps, Redial(a) \/ SpinPanics(a) PROVE TypeOK'
  <2>1. phase' \in [Apps -> {"none", "dial", "copy", "redial", "spin", "ended"}]
    BY <1>9 DEF TypeOK, Redial, SpinPanics
  <2>2. \A b \in Apps : phase'[b] = "copy" <=> phase[b] = "copy"
    BY <1>9 DEF TypeOK, Redial, SpinPanics
  <2> QED
    BY <1>0, <1>9, <2>1, <2>2, PipeParts DEF TypeOK, Redial, SpinPanics, runVars, pipeVars
<1>10. ASSUME NEW p \in Pipes, Read(p) PROVE TypeOK'
  <2>1. CASE status' = "panicked" /\ UNCHANGED <<read, copier>>
    <3>1. UNCHANGED <<runVars, phase, link, written, out>>
      BY <1>10 DEF Read
    <3> QED
      BY <1>0, <2>1, <3>1 DEF TypeOK, runVars
  <2>2. CASE /\ read' = [read EXCEPT ![p] = @ + 1]
             /\ copier' = [copier EXCEPT ![p] = "write"]
             /\ UNCHANGED status
    <3>1. /\ UNCHANGED <<runVars, phase, link, written, out>>
          /\ copier[p] = "read" /\ read[p] < Len(written[p])
      BY <1>10 DEF Read
    <3>2. Sets'
      BY <1>0, <2>2, <3>1 DEF TypeOK, Sets, runVars
    <3>3. ASSUME NEW q \in Pipes PROVE OnePipe(q)'
      BY <2>2, <3>1 DEF TypeOK, OnePipe
    <3> QED
      BY <1>14, <3>2, <3>3
  <2> QED
    BY <1>10, <2>1, <2>2 DEF Read
<1>11. ASSUME NEW p \in Pipes, ReadReset(p) \/ ReadEof(p) PROVE TypeOK'
  <2>1. Sets'
    BY <1>0, <1>11 DEF TypeOK, Sets, ReadReset, ReadEof, runVars, pipeVars
  <2>2. ASSUME NEW q \in Pipes PROVE OnePipe(q)'
    BY <1>11 DEF TypeOK, OnePipe, ReadReset, ReadEof, pipeVars
  <2> QED
    BY <1>14, <2>1, <2>2
<1>12. ASSUME NEW p \in Pipes, Write(p) PROVE TypeOK'
  <2> DEFINE f == written[p][read[p]]
  <2>1. read[p] \in 1..Len(written[p])
    BY <1>12 DEF TypeOK, Write
  <2>2. f \in Frame
    BY <2>1, ElementOfSeq DEF TypeOK
  <2> HIDE DEF f
  <2>3. out' = out \/ out' = [out EXCEPT ![p] = Append(@, f)]
    BY <1>12 DEF Write, f
  <2>4. out' \in [Pipes -> Seq(Frame)]
    <3>1. out \in [Pipes -> Seq(Frame)]
      BY DEF TypeOK
    <3>2. Append(out[p], f) \in Seq(Frame)
      BY <2>2, <3>1
    <3> QED
      BY <2>3, <3>1, <3>2
  <2>5. /\ copier' = [copier EXCEPT ![p] = "read"]
        /\ copier[p] = "write"
        /\ UNCHANGED <<status, runVars, phase, link, written, read>>
    BY <1>12 DEF Write
  <2>6. Sets'
    BY <1>0, <2>4, <2>5 DEF TypeOK, Sets, runVars
  <2>7. ASSUME NEW q \in Pipes PROVE OnePipe(q)'
    <3>1. OnePipe(q) /\ OnePipe(p)
      BY TypeSplit
    <3>2. copier'[q] = IF q = p THEN "read" ELSE copier[q]
      BY <2>5 DEF TypeOK
    <3> QED
      BY <2>5, <3>1, <3>2 DEF OnePipe
  <2> QED
    BY <1>14, <2>6, <2>7
<1>13. CASE UNCHANGED vars
  BY <1>0, <1>13 DEF TypeOK, vars, runVars, pipeVars
<1> QED
  BY <1>1, <1>2, <1>3, <1>4, <1>5, <1>6, <1>7, <1>8, <1>9, <1>10, <1>11, <1>12, <1>13
     DEF Next, Peers, Run, HandleClient, Copy

LEMMA InitialTypes == Init => TypeOK
<1> SUFFICES ASSUME Init PROVE TypeOK
  OBVIOUS
<1>1. tquit \in BOOLEAN /\ listening \in BOOLEAN
  BY DEF Init
<1>2. written \in [Pipes -> Seq(Frame)] /\ out \in [Pipes -> Seq(Frame)]
  BY EmptySeq DEF Init
<1> QED
  BY <1>1, <1>2, PipeParts DEF Init, TypeOK

(* TypeOK: a copy of a direction runs exactly while its app's handleClient *)
(* waits for it, and never reads more than was written.                    *)
THEOREM TypeCorrect == Spec => []TypeOK
BY InitialTypes, TypeStep, PTL DEF Spec

-----------------------------------------------------------------------------
(* While the receiving end of a pipe is there, all that was read has come  *)
(* out, but for a message in hand.                                         *)
Held(p) == IF copier[p] = "write" THEN 1 ELSE 0

Flow(p) == link[Back(p)] \in {"none", "up"} => Len(out[p]) + Held(p) = read[p]

(* There is no connection to the gateway before DialGateway. *)
Undialled(a) ==
  phase[a] = "dial" \/ (phase[a] = "none" /\ trun \in {"select", "accept"})
    => link[<<a, "down">>] = "none"

(* What a copy reads from and writes to was dialled before it started. *)
Dialled(a) ==
  /\ phase[a] # "none" => link[<<a, "up">>] # "none"
  /\ phase[a] = "copy" => link[<<a, "down">>] # "none"

FlowInv ==
  /\ TypeOK
  /\ \A p \in Pipes : Flow(p)
  /\ \A a \in Apps : Undialled(a) /\ Dialled(a)

LEMMA DialledStep ==
  ASSUME TypeOK, \A a \in Apps : Dialled(a), [Next]_vars, NEW a \in Apps
  PROVE  Dialled(a)'
<1> DEFINE d == <<a, "down">>
           u == <<a, "up">>
<1>d. d \in Pipes /\ u \in Pipes /\ d # u
  BY DEF Pipes
<1>e. \A b \in Apps : (d = <<b, "down">> \/ u = <<b, "up">>) => b = a
  OBVIOUS
<1>p. u[1] = a /\ d[1] = a
  OBVIOUS
<1>u. (phase[a] # "none" => link[u] # "none") /\ (phase[a] = "copy" => link[d] # "none")
  BY DEF Dialled
<1>q. (phase'[a] # "none" => link'[u] # "none") /\ (phase'[a] = "copy" => link'[d] # "none")
        => Dialled(a)'
  BY DEF Dialled
<1>x. \A b \in Apps : <<b, "up">> \in Pipes /\ <<b, "down">> \in Pipes
  BY DEF Pipes
<1> HIDE DEF d, u
<1>k. (\A p \in Pipes : link[p] # "none" => link'[p] # "none") /\ phase'[a] = phase[a]
        => Dialled(a)'
  BY <1>d, <1>u, <1>q
<1>1. ASSUME NEW b \in Apps, AppDial(b) PROVE Dialled(a)'
  BY <1>1, <1>k, <1>x DEF TypeOK, AppDial
<1>2. ASSUME NEW p \in Pipes, PeerWrite(p) \/ Read(p) \/ ReadEof(p) \/ Write(p)
      PROVE  Dialled(a)'
  BY <1>2, <1>k DEF PeerWrite, Read, ReadEof, Write
<1>3. ASSUME NEW p \in Pipes, PeerDrop(p) \/ ReadReset(p) PROVE Dialled(a)'
  <2>1. CASE PeerDrop(p)
    <3> PICK fault \in Faults \cap {"fin", "rst"} : link' = [link EXCEPT ![p] = fault]
      BY <2>1 DEF PeerDrop
    <3> QED
      BY <2>1, <1>k DEF TypeOK, PeerDrop
  <2>2. CASE ReadReset(p)
    BY <2>2, <1>k DEF TypeOK, ReadReset
  <2> QED
    BY <1>3, <2>1, <2>2
<1>4. CASE Stop \/ SelectAccept \/ AcceptTimeout \/ Exits
  BY <1>4, <1>k DEF Stop, SelectAccept, AcceptTimeout, Exits
<1>5. CASE ShutDown
  <2>1. \A p \in Pipes : link[p] # "none" => link'[p] # "none"
    BY <1>5 DEF ShutDown
  <2> QED
    BY <1>5, <2>1, <1>k DEF ShutDown
<1>6. ASSUME NEW b \in Apps, Accept(b) PROVE Dialled(a)'
  <2>1. link' = link /\ phase' = [phase EXCEPT ![b] = "dial"] /\ link[<<b, "up">>] # "none"
    BY <1>6 DEF Accept
  <2>2. a = b \/ phase'[a] = phase[a]
    BY <2>1 DEF TypeOK
  <2>3. a = b => phase'[a] = "dial" /\ link'[u] # "none"
    BY <2>1 DEF TypeOK, u
  <2> QED
    BY <2>1, <2>2, <2>3, <1>u, <1>q
<1>7. ASSUME NEW b \in Apps, DialGateway(b) PROVE Dialled(a)'
  <2>1. /\ phase[b] = "dial" /\ phase' = [phase EXCEPT ![b] = "copy"]
        /\ link' = [link EXCEPT ![<<b, "down">>] = "up"]
    BY <1>7 DEF DialGateway
  <2>2. \A p \in Pipes : link[p] # "none" => link'[p] # "none"
    BY <2>1, <1>x DEF TypeOK
  <2>3. CASE a = b
    <3>1. link'[d] = "up" /\ link'[u] # "none"
      BY <2>1, <2>2, <2>3, <1>d, <1>u DEF TypeOK, d
    <3> QED
      BY <3>1, <1>q
  <2>4. CASE a # b
    BY <2>1, <2>2, <2>4, <1>k DEF TypeOK
  <2> QED
    BY <2>3, <2>4
<1>8. ASSUME NEW b \in Apps, DialFails(b) \/ Redial(b) \/ SpinPanics(b) PROVE Dialled(a)'
  <2>1. \A p \in Pipes : link[p] # "none" => link'[p] # "none"
    BY <1>8, <1>x DEF TypeOK, DialFails, Redial, SpinPanics
  <2>2. /\ phase'[a] # "copy" \/ phase'[a] = phase[a]
        /\ phase[a] # "none" \/ phase'[a] = phase[a]
    BY <1>8 DEF TypeOK, DialFails, Redial, SpinPanics
  <2> QED
    BY <2>1, <2>2, <1>d, <1>u, <1>q
<1>9. ASSUME NEW b \in Apps, BothDone(b) PROVE Dialled(a)'
  <2>1. \A p \in Pipes : link[p] # "none" => link'[p] # "none"
    BY <1>9 DEF TypeOK, BothDone, SetBoth
  <2>2. /\ phase'[a] # "copy" \/ phase'[a] = phase[a]
        /\ phase[a] # "none" \/ phase'[a] = phase[a]
    BY <1>9 DEF TypeOK, BothDone
  <2> QED
    BY <2>1, <2>2, <1>d, <1>u, <1>q
<1>10. CASE UNCHANGED vars
  BY <1>10, <1>k DEF vars
<1> QED
  BY <1>1, <1>2, <1>3, <1>4, <1>5, <1>6, <1>7, <1>8, <1>9, <1>10
     DEF Next, Peers, Run, HandleClient, Copy

LEMMA UndialledStep ==
  ASSUME TypeOK, \A a \in Apps : Undialled(a), [Next]_vars, NEW a \in Apps
  PROVE  Undialled(a)'
<1> DEFINE d == <<a, "down">>
<1>d. d \in Pipes /\ \A b \in Apps : d # <<b, "up">>
  BY DEF Pipes
<1>e. \A b \in Apps : d = <<b, "down">> => b = a
  OBVIOUS
<1>u. phase[a] = "dial" \/ (phase[a] = "none" /\ trun \in {"select", "accept"}) => link[d] = "none"
  BY DEF Undialled
<1>q. (phase'[a] = "dial" \/ (phase'[a] = "none" /\ trun' \in {"select", "accept"})
         => link'[d] = "none") => Undialled(a)'
  BY DEF Undialled
<1> HIDE DEF d
<1>1. ASSUME NEW b \in Apps, AppDial(b) \/ DialFails(b) PROVE Undialled(a)'
  BY <1>1, <1>d, <1>u, <1>q DEF TypeOK, AppDial, DialFails, runVars
<1>2. ASSUME NEW p \in Pipes, PeerWrite(p) \/ Read(p) \/ ReadEof(p) \/ Write(p)
      PROVE  Undialled(a)'
  BY <1>2, <1>u, <1>q DEF PeerWrite, Read, ReadEof, Write, runVars
<1>3. ASSUME NEW p \in Pipes, PeerDrop(p) \/ ReadReset(p) PROVE Undialled(a)'
  <2>1. link[p] # "none" /\ UNCHANGED <<phase, trun>>
    BY <1>3 DEF PeerDrop, ReadReset, runVars
  <2>2. p # d => link'[d] = link[d]
    BY <1>3, <1>d DEF TypeOK, PeerDrop, ReadReset
  <2> QED
    BY <2>1, <2>2, <1>u, <1>q
<1>4. CASE Stop \/ SelectAccept \/ AcceptTimeout \/ Exits
  BY <1>4, <1>u, <1>q DEF Stop, SelectAccept, AcceptTimeout, Exits
<1>5. CASE ShutDown
  BY <1>5, <1>d, <1>u, <1>q DEF ShutDown, d
<1>6. ASSUME NEW b \in Apps, Accept(b) PROVE Undialled(a)'
  BY <1>6, <1>u, <1>q DEF TypeOK, Accept
<1>7. ASSUME NEW b \in Apps, DialGateway(b) PROVE Undialled(a)'
  <2>1. b # a => link'[d] = link[d] /\ phase'[a] = phase[a]
    BY <1>7, <1>d, <1>e DEF TypeOK, DialGateway
  <2>2. trun' = trun /\ phase'[b] = "copy"
    BY <1>7 DEF TypeOK, DialGateway, runVars
  <2> QED
    BY <2>1, <2>2, <1>u, <1>q
<1>8. ASSUME NEW b \in Apps, BothDone(b) PROVE Undialled(a)'
  <2>1. b # a => link'[d] = link[d] /\ phase'[a] = phase[a]
    BY <1>8, <1>d DEF TypeOK, BothDone, SetBoth, d
  <2>2. trun' = trun /\ phase'[b] = "redial"
    BY <1>8 DEF TypeOK, BothDone, runVars
  <2> QED
    BY <2>1, <2>2, <1>u, <1>q
<1>9. ASSUME NEW b \in Apps, Redial(b) \/ SpinPanics(b) PROVE Undialled(a)'
  BY <1>9, <1>u, <1>q DEF TypeOK, Redial, SpinPanics, runVars
<1>10. CASE UNCHANGED vars
  BY <1>10, <1>u, <1>q DEF vars, runVars
<1> QED
  BY <1>1, <1>2, <1>3, <1>4, <1>5, <1>6, <1>7, <1>8, <1>9, <1>10
     DEF Next, Peers, Run, HandleClient, Copy

(* A connection that has ended does not come back, and what is read and    *)
(* written on a pipe is left alone by every step but its own goroutine's.  *)
LEMMA FlowStep == FlowInv /\ [Next]_vars => FlowInv'
<1> SUFFICES ASSUME FlowInv, [Next]_vars PROVE FlowInv'
  OBVIOUS
<1>0. TypeOK /\ TypeOK'
  BY TypeStep DEF FlowInv
<1>u. \A a \in Apps : Undialled(a)' /\ Dialled(a)'
  BY UndialledStep, DialledStep DEF FlowInv
<1> SUFFICES ASSUME NEW q \in Pipes, link'[Back(q)] \in {"none", "up"}
             PROVE  Len(out'[q]) + Held(q)' = read'[q]
  BY <1>0, <1>u DEF FlowInv, Flow, Back
<1> DEFINE b == Back(q)
<1>b. b \in Pipes /\ q[1] \in Apps /\ b[1] = q[1]
  BY BackIsPipe, PipeParts DEF Back
<1> HIDE DEF b
<1>f. link[b] \in {"none", "up"} => Len(out[q]) + Held(q) = read[q]
  BY DEF FlowInv, Flow, b
<1>l. link'[b] \in {"none", "up"}
  BY DEF b
<1>1. ASSUME NEW a \in Apps, AppDial(a) PROVE Len(out'[q]) + Held(q)' = read'[q]
  <2>1. link[b] \in {"none", "up"}
    BY <1>0, <1>1, <1>b, <1>l DEF TypeOK, AppDial, Pipes
  <2> QED
    BY <1>1, <1>f, <2>1 DEF AppDial, pipeVars, Held
<1>2. ASSUME NEW p \in Pipes, PeerWrite(p) PROVE Len(out'[q]) + Held(q)' = read'[q]
  BY <1>2, <1>f, <1>l DEF PeerWrite, Held
<1>3. ASSUME NEW p \in Pipes, PeerDrop(p) PROVE Len(out'[q]) + Held(q)' = read'[q]
  <2> PICK fault \in Faults \cap {"fin", "rst"} : link' = [link EXCEPT ![p] = fault]
    BY <1>3 DEF PeerDrop
  <2>1. link[b] \in {"none", "up"}
    BY <1>0, <1>b, <1>l DEF TypeOK
  <2> QED
    BY <1>3, <1>f, <2>1 DEF PeerDrop, pipeVars, Held
<1>4. CASE Stop \/ SelectAccept \/ AcceptTimeout \/ ShutDown \/ Exits
  <2>1. link[b] \in {"none", "up"}
    BY <1>4, <1>b, <1>l DEF Stop, SelectAccept, AcceptTimeout, ShutDown, Exits
  <2> QED
    BY <1>4, <1>f, <2>1 DEF Stop, SelectAccept, AcceptTimeout, ShutDown, Exits, pipeVars, Held
<1>5. ASSUME NEW a \in Apps, Accept(a) \/ Redial(a) \/ SpinPanics(a)
      PROVE  Len(out'[q]) + Held(q)' = read'[q]
  BY <1>5, <1>f, <1>l DEF Accept, Redial, SpinPanics, pipeVars, Held
<1>6. ASSUME NEW a \in Apps, DialGateway(a) PROVE Len(out'[q]) + Held(q)' = read'[q]
  <2>1. link[<<a, "down">>] = "none" /\ phase[a] = "dial"
    BY <1>6 DEF FlowInv, Undialled, DialGateway
  <2>2. link[b] \in {"none", "up"}
    BY <1>0, <1>6, <1>b, <1>l, <2>1 DEF TypeOK, DialGateway
  <2>3. (copier'[q] = "read" /\ copier[q] = "none") \/ copier'[q] = copier[q]
    BY <1>0, <1>6, <1>b, <2>1 DEF TypeOK, DialGateway, SetBoth
  <2> QED
    BY <1>6, <1>f, <2>2, <2>3 DEF DialGateway, Held
<1>7. ASSUME NEW a \in Apps, DialFails(a) PROVE Len(out'[q]) + Held(q)' = read'[q]
  <2>1. link[b] \in {"none", "up"}
    BY <1>0, <1>7, <1>b, <1>l DEF TypeOK, DialFails
  <2> QED
    BY <1>7, <1>f, <2>1 DEF DialFails, pipeVars, Held
<1>8. ASSUME NEW a \in Apps, BothDone(a) PROVE Len(out'[q]) + Held(q)' = read'[q]
  <2>1. q[1] # a
    BY <1>8, <1>b, <1>l DEF BothDone, SetBoth
  <2>2. link'[b] = link[b] /\ copier'[q] = copier[q]
    BY <1>8, <1>b, <2>1 DEF BothDone, SetBoth
  <2> QED
    BY <1>8, <1>f, <1>l, <2>2 DEF BothDone, Held
<1>9. ASSUME NEW p \in Pipes, Read(p) PROVE Len(out'[q]) + Held(q)' = read'[q]
  <2>1. CASE UNCHANGED <<read, copier>>
    BY <1>9, <1>f, <1>l, <2>1 DEF Read, Held
  <2>2. CASE /\ read' = [read EXCEPT ![p] = @ + 1]
             /\ copier' = [copier EXCEPT ![p] = "write"]
    <3>1. link' = link /\ out' = out /\ copier[p] = "read"
      BY <1>9 DEF Read
    <3>2. Held(p) = 0 /\ Held(p)' = 1 /\ (q # p => Held(q)' = Held(q))
      BY <1>0, <2>2, <3>1 DEF TypeOK, Held
    <3>3. Len(out[q]) \in Nat
      BY <1>0 DEF TypeOK
    <3> QED
      BY <1>0, <1>f, <1>l, <2>2, <3>1, <3>2, <3>3 DEF TypeOK
  <2> QED
    BY <1>9, <2>1, <2>2 DEF Read
<1>10. ASSUME NEW p \in Pipes, ReadReset(p) PROVE Len(out'[q]) + Held(q)' = read'[q]
  <2>1. link[b] \in {"none", "up"}
    BY <1>0, <1>10, <1>b, <1>l DEF TypeOK, ReadReset
  <2> QED
    BY <1>10, <1>f, <2>1 DEF ReadReset, pipeVars, Held
<1>11. ASSUME NEW p \in Pipes, ReadEof(p) PROVE Len(out'[q]) + Held(q)' = read'[q]
  <2>1. Held(q)' = Held(q)
    BY <1>0, <1>11 DEF TypeOK, ReadEof, Held
  <2> QED
    BY <1>11, <1>f, <1>l, <2>1 DEF ReadEof
<1>12. ASSUME NEW p \in Pipes, Write(p) PROVE Len(out'[q]) + Held(q)' = read'[q]
  <2> DEFINE f == written[p][read[p]]
  <2>1. /\ copier' = [copier EXCEPT ![p] = "read"] /\ copier[p] = "write"
        /\ link' = link /\ read' = read
        /\ out' = IF link[Back(p)] = "up" THEN [out EXCEPT ![p] = Append(@, f)] ELSE out
    BY <1>12 DEF Write
  <2> HIDE DEF f
  <2>2. Len(out[q]) \in Nat /\ Len(Append(out[q], f)) = Len(out[q]) + 1
    BY <1>0 DEF TypeOK
  <2>3. CASE q = p
    <3>1. Held(q) = 1 /\ Held(q)' = 0
      BY <1>0, <2>1, <2>3 DEF TypeOK, Held
    <3>2. link[b] = "up"
      <4>1. phase[q[1]] = "copy"
        BY <1>0, <2>1, <2>3 DEF TypeOK
      <4>2. link[b] # "none"
        BY <4>1, <1>b, PipeParts DEF FlowInv, Dialled, b, Back
      <4> QED
        BY <2>1, <4>2, <1>l
    <3> QED
      BY <1>0, <1>f, <2>1, <2>2, <2>3, <3>1, <3>2 DEF TypeOK, b
  <2>4. CASE q # p
    <3>1. Held(q)' = Held(q) /\ out'[q] = out[q]
      BY <1>0, <2>1, <2>4 DEF TypeOK, Held
    <3> QED
      BY <1>f, <1>l, <2>1, <3>1
  <2> QED
    BY <2>3, <2>4
<1>13. CASE UNCHANGED vars
  BY <1>13, <1>f, <1>l DEF vars, pipeVars, Held
<1> QED
  BY <1>1, <1>2, <1>3, <1>4, <1>5, <1>6, <1>7, <1>8, <1>9, <1>10, <1>11, <1>12, <1>13
     DEF Next, Peers, Run, HandleClient, Copy

-----------------------------------------------------------------------------
(* Every step is one of the pipe of a direction, or leaves all pipes as    *)
(* they are.                                                               *)

LEMMA OpenIsPipes == Open \subseteq Pipes /\ Open' \subseteq Pipes
  BY DEF Open

LEMMA SendStep ==
  ASSUME TypeOK, NEW p \in Pipes, PeerWrite(p)
  PROVE  Pipe!Send(p)
<1> DEFINE f == [pipe |-> p, n |-> Len(written[p]) + 1]
<1>1. f \in Frame
  BY ScriptLength, FrameOf DEF TypeOK, PeerWrite
<1> HIDE DEF f
<1>2. written' = [written EXCEPT ![p] = Append(@, f)] /\ UNCHANGED <<status, phase, link, out>>
  BY DEF PeerWrite, f
<1>3. Open' = Open
  BY <1>2 DEF Open, Running
<1> QED
  BY <1>1, <1>2, <1>3 DEF Pipe!Send

LEMMA DeliverStep ==
  ASSUME FlowInv, NEW p \in Pipes, Write(p)
  PROVE  Pipe!Deliver(p) \/ UNCHANGED <<written, out, Open>>
<1>1. /\ copier[p] = "write" /\ UNCHANGED <<status, phase, link, written>>
      /\ out' = IF link[Back(p)] = "up" THEN [out EXCEPT ![p] = Append(@, written[p][read[p]])]
                                        ELSE out
  BY DEF Write
<1>2. Open' = Open
  BY <1>1 DEF Open, Running
<1>3. CASE link[Back(p)] = "up"
  <2>1. Len(out[p]) + 1 = read[p]
    BY <1>1, <1>3 DEF FlowInv, Flow, Held
  <2>2. Len(out[p]) < Len(written[p])
    BY <2>1 DEF FlowInv, TypeOK
  <2>3. out' = [out EXCEPT ![p] = Append(@, written[p][Len(@) + 1])]
    BY <1>1, <1>3, <2>1
  <2> QED
    BY <1>1, <1>2, <2>2, <2>3 DEF Pipe!Deliver
<1> QED
  BY <1>1, <1>2, <1>3

LEMMA PipeStep == FlowInv /\ [Next]_vars => [Pipe!Next]_Pipe!vars
<1> SUFFICES ASSUME FlowInv, [Next]_vars PROVE [Pipe!Next]_Pipe!vars
  OBVIOUS
<1>1. ASSUME UNCHANGED <<written, out>> PROVE Pipe!Connect \/ UNCHANGED Pipe!vars
  BY <1>1, OpenIsPipes DEF Pipe!Connect, Pipe!vars
<1>2. ASSUME NEW p \in Pipes, PeerWrite(p) PROVE Pipe!Send(p)
  BY <1>2, SendStep DEF FlowInv
<1>3. ASSUME NEW p \in Pipes, Write(p) PROVE Pipe!Deliver(p) \/ UNCHANGED Pipe!vars
  BY <1>3, DeliverStep DEF Pipe!vars
<1>4. \/ UNCHANGED <<written, out>>
      \/ \E p \in Pipes : PeerWrite(p) \/ Write(p)
  BY DEF Next, Peers, Run, HandleClient, Copy, AppDial, PeerDrop, Stop, SelectAccept,
         AcceptTimeout, Accept, ShutDown, Exits, DialGateway, DialFails, BothDone, Redial,
         SpinPanics, Read, ReadReset, ReadEof, pipeVars, vars
<1> QED
  BY <1>1, <1>2, <1>3, <1>4 DEF Pipe!Next

LEMMA PipeStart == Init => FlowInv /\ Pipe!Init
<1> SUFFICES ASSUME Init PROVE FlowInv /\ Pipe!Init
  OBVIOUS
<1>1. TypeOK
  <2>1. tquit \in BOOLEAN /\ listening \in BOOLEAN
    BY DEF Init
  <2>2. written \in [Pipes -> Seq(Frame)] /\ out \in [Pipes -> Seq(Frame)]
    BY EmptySeq DEF Init
  <2> QED
    BY <2>1, <2>2, PipeParts DEF Init, TypeOK
<1>2. \A p \in Pipes : Flow(p)
  BY EmptySeq DEF Init, Flow, Held
<1>3. \A a \in Apps : Undialled(a) /\ Dialled(a)
  BY DEF Init, Undialled, Dialled, Pipes
<1>4. Pipe!Init
  BY OpenIsPipes DEF Init, Pipe!Init
<1> QED
  BY <1>1, <1>2, <1>3, <1>4 DEF FlowInv

(* IsPipe: what comes out of each direction of each connection is, message *)
(* for message, what its peer has written, whatever the other apps, the    *)
(* gateway and Stop do.                                                    *)
THEOREM CopiesInOrder == Spec => IsPipe
<1>1. Spec => []FlowInv
  BY PipeStart, FlowStep, PTL DEF Spec
<1> QED
  BY <1>1, PipeStart, PipeStep, PTL DEF Spec, IsPipe, Pipe!Spec

-----------------------------------------------------------------------------
(* The end of one connection goes no further. *)

(* A copy is through only once the connection it reads from has ended. *)
EndedBefore(p) == copier[p] = "done" => link[p] \in {"fin", "dead"}

EndInv == TypeOK /\ \A p \in Pipes : EndedBefore(p)

(* A copy that is through is none of those that a step starts, and the     *)
(* link it has read from changes no more.                                  *)
LEMMA EndStep == EndInv /\ [Next]_vars => EndInv'
<1> SUFFICES ASSUME EndInv, [Next]_vars PROVE EndInv'
  OBVIOUS
<1>0. /\ TypeOK /\ link \in [Pipes -> {"none", "up", "fin", "rst", "dead", "closed"}]
      /\ copier \in [Pipes -> {"none", "read", "write", "done"}]
      /\ \A p \in Pipes : copier[p] = "done" => link[p] \in {"fin", "dead"}
      /\ \A p \in Pipes : p[1] \in Apps /\ ((phase[p[1]] = "copy") <=> (copier[p] # "none"))
  BY PipeParts DEF EndInv, EndedBefore, TypeOK
<1>a. \A a \in Apps : /\ <<a, "up">> \in Pipes /\ <<a, "down">> \in Pipes
                      /\ <<a, "up">>[1] = a /\ <<a, "down">>[1] = a
  BY DEF Pipes
<1>1. ASSUME NEW p \in Pipes PROVE copier'[p] = "done" => link'[p] \in {"fin", "dead"}
  <2>1. CASE Stop \/ SelectAccept \/ AcceptTimeout \/ Exits \/ (\E a \in Apps : Accept(a))
             \/ (\E a \in Apps : Redial(a) \/ SpinPanics(a))
             \/ (\E q \in Pipes : PeerWrite(q)) \/ UNCHANGED vars
    <3>1. UNCHANGED <<copier, link>>
      BY <2>1 DEF Stop, SelectAccept, AcceptTimeout, Exits, Accept, Redial, SpinPanics, PeerWrite,
         pipeVars, vars
    <3> QED
      BY <1>0, <3>1
  <2>2. ASSUME NEW a \in Apps, AppDial(a) PROVE copier'[p] = "done" => link'[p] \in {"fin", "dead"}
    BY <1>0, <1>a, <2>2 DEF AppDial, pipeVars
  <2>3. ASSUME NEW q \in Pipes, PeerDrop(q) PROVE copier'[p] = "done" => link'[p] \in {"fin", "dead"}
    <3>1. PICK fault \in Faults \cap {"fin", "rst"} : link' = [link EXCEPT ![q] = fault]
      BY <2>3 DEF PeerDrop
    <3> QED
      BY <1>0, <2>3, <3>1 DEF PeerDrop, pipeVars
  <2>4. CASE ShutDown
    BY <1>0, <2>4 DEF ShutDown, pipeVars
  <2>5. ASSUME NEW a \in Apps, DialGateway(a) \/ BothDone(a)
        PROVE  copier'[p] = "done" => link'[p] \in {"fin", "dead"}
    <3>1. p[1] = a => copier'[p] # "done"
      BY <2>5 DEF DialGateway, BothDone, SetBoth
    <3>2. p[1] # a => copier'[p] = copier[p] /\ link'[p] = link[p]
      BY <1>0, <1>a, <2>5 DEF DialGateway, BothDone, SetBoth
    <3> QED
      BY <1>0, <3>1, <3>2
  <2>6. ASSUME NEW a \in Apps, DialFails(a) PROVE copier'[p] = "done" => link'[p] \in {"fin", "dead"}
    BY <1>0, <1>a, <2>6 DEF DialFails, pipeVars
  <2>7. ASSUME NEW q \in Pipes, Copy(q) PROVE copier'[p] = "done" => link'[p] \in {"fin", "dead"}
    <3>1. CASE Read(q) \/ Write(q)
      BY <1>0, <3>1 DEF Read, Write
    <3>2. CASE ReadReset(q) \/ ReadEof(q)
      BY <1>0, <3>2 DEF ReadReset, ReadEof, pipeVars
    <3> QED
      BY <2>7, <3>1, <3>2 DEF Copy
  <2> QED
    BY <2>1, <2>2, <2>3, <2>4, <2>5, <2>6, <2>7 DEF Next, Peers, Run, HandleClient
<1>2. TypeOK'
  BY <1>0, TypeStep
<1> QED
  BY <1>1, <1>2 DEF EndInv, EndedBefore

(* Nobody closes a connection that is up, but before its app has a pipe    *)
(* through the proxy.                                                      *)
LEMMA CloseStep ==
  ASSUME EndInv, [Next]_vars, NEW p \in Pipes, link[p] = "up", link'[p] = "closed"
  PROVE  phase[p[1]] \in {"none", "dial"}
<1>0. /\ link \in [Pipes -> {"none", "up", "fin", "rst", "dead", "closed"}]
      /\ \A q \in Pipes : copier[q] = "done" => link[q] \in {"fin", "dead"}
  BY DEF EndInv, EndedBefore, TypeOK
<1>a. \A a \in Apps : /\ <<a, "up">> \in Pipes /\ <<a, "down">> \in Pipes
                      /\ <<a, "up">>[1] = a /\ <<a, "down">>[1] = a
  BY DEF Pipes
<1>1. link' # link
  BY <1>0
<1>2. CASE \E a \in Apps : AppDial(a) \/ DialGateway(a)
  BY <1>0, <1>a, <1>2 DEF AppDial, DialGateway
<1>3. CASE \E q \in Pipes : PeerDrop(q) \/ ReadReset(q)
  BY <1>0, <1>3 DEF PeerDrop, ReadReset
<1>4. CASE ShutDown
  BY <1>4 DEF ShutDown
<1>5. CASE \E a \in Apps : DialFails(a)
  BY <1>0, <1>a, <1>5 DEF DialFails
<1>6. CASE \E a \in Apps : BothDone(a)
  <2>1. PICK a \in Apps : BothDone(a)
    BY <1>6
  <2>2. p[1] # a => link'[p] = link[p]
    BY <2>1 DEF BothDone, SetBoth
  <2>3. p[1] = a => copier[p] = "done"
    BY <2>1 DEF BothDone
  <2> QED
    BY <1>0, <2>2, <2>3
<1>7. CASE Stop \/ SelectAccept \/ AcceptTimeout \/ Exits \/ (\E a \in Apps : Accept(a))
           \/ (\E a \in Apps : Redial(a) \/ SpinPanics(a))
           \/ (\E q \in Pipes : PeerWrite(q) \/ Read(q) \/ ReadEof(q) \/ Write(q)) \/ UNCHANGED vars
  <2>1. link' = link
    BY <1>7 DEF PeerWrite, Stop, SelectAccept, AcceptTimeout, Accept, Exits, Redial, SpinPanics,
       Read, ReadEof, Write, vars
  <2> QED
    BY <1>1, <2>1
<1> QED
  BY <1>2, <1>3, <1>4, <1>5, <1>6, <1>7 DEF Next, Peers, Run, HandleClient, Copy

(* EndIsNotPassedOn: a peer whose partner has gone keeps its connection,   *)
(* until it ends that itself: copy returns at an end of file without a     *)
(* word to the other direction, and handleClient waits for both.           *)
THEOREM EndsAlone == Spec => EndIsNotPassedOn
<1>1. Init => EndInv
  <2> SUFFICES ASSUME Init PROVE EndInv
    OBVIOUS
  <2>1. TypeOK
    BY InitialTypes
  <2> QED
    BY <2>1 DEF Init, EndInv, EndedBefore
<1>2. EndInv /\ [Next]_vars =>
        [\A p \in Pipes : link[p] = "up" /\ link'[p] = "closed" => phase[p[1]] \in {"none", "dial"}]_vars
  BY CloseStep
<1> QED
  BY <1>1, <1>2, EndStep, PTL DEF Spec, EndIsNotPassedOn
=============================================================================
