---------------------------- MODULE FramingProofs ----------------------------
(***************************************************************************)
(* Frames are read whole, for every size of a frame and every way in which *)
(* the network cuts the stream.                                            *)
(***************************************************************************)
EXTENDS Framing, TLAPS

-----------------------------------------------------------------------------
(* The unsigned difference of a frame in sync does not wrap. *)
LEMMA Unwrapped == ASSUME NEW x \in Nat, NEW w \in Nat, x < w PROVE x % w = x
  OBVIOUS

(* What the assumption says of one frame *)
LEMMA OperationSize ==
  ASSUME NEW f \in Frames
  PROVE  f.operation \in Nat /\ f.operation >= 1 /\ f.operation <= 1024
  BY FramingAssumption DEF MaxLength

LEMMA TypeSize == ASSUME NEW f \in Frames PROVE f.type \in Nat
  BY FramingAssumption

LEMMA FrameLength ==
  ASSUME NEW f \in Frames
  PROVE  LengthOf(f) \in Nat /\ LengthOf(f) <= 1024
  BY FramingAssumption, OperationSize, TypeSize DEF LengthOf, MaxLength

LEMMA WireSizeBound ==
  ASSUME NEW f \in Frames PROVE WireSize(f) \in Nat /\ WireSize(f) > 38
  BY OperationSize, TypeSize DEF WireSize

LEMMA EmptySequence == ASSUME NEW S PROVE <<>> \in Seq(S)
  OBVIOUS

LEMMA SyncInit == Init => SyncInv
<1> SUFFICES ASSUME Init PROVE SyncInv
  OBVIOUS
<1>1. SyncType
  <2>1. sent \in Seq(Frames) /\ out \in Seq([from : Place, to : Place, operation : Nat, type : Nat])
    BY EmptySequence DEF Init
  <2>2. Start \in Place
    BY DEF Start, Place
  <2>3. closed \in BOOLEAN
    BY DEF Init
  <2> QED
    BY <2>1, <2>2, <2>3 DEF Init, SyncType
<1>2. InSync
  BY DEF Init, InSync, Between, Current, Start, Body
<1>3. Returned
  BY DEF Init, Returned
<1> QED
  BY <1>1, <1>2, <1>3 DEF SyncInv

-----------------------------------------------------------------------------
(* The peer writes behind everything the invariant speaks of. *)
LEMMA PeerWriteInv == SyncInv /\ PeerWrite => SyncInv'
<1> SUFFICES ASSUME SyncInv, PeerWrite PROVE SyncInv'
  OBVIOUS
<1> PICK f \in Frames : sent' = Append(sent, f)
  BY DEF PeerWrite
<1>1. /\ sent' \in Seq(Frames)
      /\ Len(sent') = Len(sent) + 1
      /\ \A i \in 1..Len(sent) : sent'[i] = sent[i]
      /\ ~closed
      /\ UNCHANGED <<closed, pos, readVars>>
  BY DEF SyncInv, SyncType, PeerWrite
<1>2. SyncType'
  BY <1>1 DEF SyncInv, SyncType, readVars
<1>3. InSync'
  <2>1. InSync /\ Current \in Nat \ {0} /\ Len(sent) \in Nat
    BY DEF SyncInv, SyncType, Current
  <2>2. UNCHANGED <<Current, field, need, from, at, pos, length, operationLength>>
    BY <1>1 DEF Current, readVars
  <2>3. CASE field = "length"
    BY <1>1, <2>1, <2>2, <2>3 DEF InSync, InLength, Body
  <2>4. CASE field \in Body
    <3>1. Current <= Len(sent) /\ sent'[Current] = sent[Current]
      BY <1>1, <2>1, <2>4 DEF InSync, InBody
    <3>2. FieldSize' = FieldSize /\ FieldEnd' = FieldEnd
      BY <2>2, <3>1 DEF FieldSize, FieldEnd, WireSize
    <3>3. \A o : InFrame(o)' = InFrame(o)
      BY <2>2, <3>1 DEF InFrame, WireSize
    <3>4. pos = InFrame(FieldEnd - need)
      BY <2>1, <2>4 DEF InSync, InBody
    <3>5. pos' = InFrame(FieldEnd - need)'
      BY <2>2, <3>2, <3>3, <3>4
    <3>6. InBody'
      BY <1>1, <2>1, <2>2, <2>4, <3>1, <3>2, <3>5 DEF InSync, InBody, LengthOf
    <3> QED
      BY <2>1, <2>2, <2>4, <3>6 DEF InSync, Body
  <2>5. CASE field \in {"return", "eof"}
    BY <1>1, <2>1, <2>2, <2>5 DEF InSync, Between, Body
  <2> QED
    BY <2>3, <2>4, <2>5 DEF SyncInv, SyncType, Body
<1>4. Returned'
  BY <1>1 DEF SyncInv, SyncType, Returned, readVars
<1> QED
  BY <1>2, <1>3, <1>4 DEF SyncInv

LEMMA PeerCloseInv == SyncInv /\ PeerClose => SyncInv'
<1> SUFFICES ASSUME SyncInv, PeerClose PROVE SyncInv'
  OBVIOUS
<1>2. SyncType'
  BY DEF SyncInv, SyncType, PeerClose, readVars
<1>3. InSync'
  BY DEF SyncInv, SyncType, InSync, Between, InLength, InBody, InFrame, FieldSize, FieldEnd,
         Current, PeerClose, readVars
<1>4. Returned'
  BY DEF SyncInv, Returned, PeerClose, readVars
<1> QED
  BY <1>2, <1>3, <1>4 DEF SyncInv

-----------------------------------------------------------------------------
(* ReadBytes *)

LEMMA FieldBounds ==
  ASSUME SyncType, Current <= Len(sent), field \in Body
  PROVE  /\ sent[Current] \in Frames
         /\ FieldSize \in Nat
         /\ FieldEnd \in Nat
         /\ FieldSize <= FieldEnd
         /\ FieldEnd <= WireSize(sent[Current])
<1>1. sent[Current] \in Frames
  BY DEF SyncType, Current
<1> DEFINE op == sent[Current].operation
           ty == sent[Current].type
<1>2. op \in Nat /\ ty \in Nat
  BY <1>1, OperationSize, TypeSize
<1>3. WireSize(sent[Current]) = 38 + op + ty
  BY DEF WireSize
<1>4. \/ FieldSize = 16 /\ (FieldEnd = 20 \/ FieldEnd = 36)
      \/ FieldSize = 2 /\ FieldEnd = 38
      \/ FieldSize = op /\ FieldEnd = 38 + op
      \/ FieldSize = ty /\ FieldEnd = 38 + op + ty
  BY DEF FieldSize, FieldEnd, Body, WireSize
<1> HIDE DEF op, ty
<1> QED
  BY <1>1, <1>2, <1>3, <1>4

(* With bytes of the field missing, the place is inside the frame. *)
LEMMA InsideFrame ==
  ASSUME SyncType, InSync, field \in Body, need > 0
  PROVE  /\ Current \in Nat
         /\ Current <= Len(sent)
         /\ FieldEnd - need \in Nat
         /\ FieldEnd - need < WireSize(sent[Current])
         /\ pos = [frame |-> Current, offset |-> FieldEnd - need]
<1>1. InBody
  BY DEF InSync
<1>2. Current <= Len(sent) /\ need \in 1..FieldSize /\ pos = InFrame(FieldEnd - need)
  BY <1>1 DEF InBody
<1>3. /\ FieldSize \in Nat
      /\ FieldEnd \in Nat
      /\ FieldSize <= FieldEnd
      /\ FieldEnd <= WireSize(sent[Current])
      /\ WireSize(sent[Current]) \in Nat
  BY <1>2, FieldBounds, WireSizeBound
<1>4. FieldEnd - need \in Nat /\ FieldEnd - need < WireSize(sent[Current])
  BY <1>2, <1>3
<1>5. Current \in Nat
  BY DEF SyncType, Current
<1> QED
  BY <1>2, <1>4, <1>5 DEF InFrame

LEMMA ReadInv == SyncInv /\ Read => SyncInv'
<1> SUFFICES ASSUME SyncInv, Read PROVE SyncInv'
  OBVIOUS
<1> PICK n \in 1..need : /\ pos.offset + n <= WireSize(sent[pos.frame])
                         /\ pos' = Advance(pos, n)
                         /\ need' = need - n
  BY DEF Read
<1>1. /\ UNCHANGED <<sent, closed, field, at, length, operationLength, from, out, result>>
      /\ field \notin {"return", "eof"}
      /\ need > 0
      /\ pos.frame <= Len(sent)
  BY DEF Read, Reading, Drained, SyncInv, SyncType, Place
<1>2. SyncType /\ InSync /\ Returned
  BY DEF SyncInv
<1>3. n \in Nat /\ need' \in Nat /\ need' < need
  BY <1>2 DEF SyncType
<1>4. pos' \in Place
  BY <1>2, <1>3 DEF SyncType, Advance, Place
<1>5. SyncType'
  BY <1>1, <1>2, <1>3, <1>4 DEF SyncType
<1>6. InSync'
  <2>1. CASE field = "length"
    <3>1. InLength
      BY <2>1, <1>2 DEF InSync
    <3>2. pos = [frame |-> Current, offset |-> 4 - need] /\ need \in 1..4 /\ Current <= Len(sent)
      BY <3>1, <1>1 DEF InLength
    <3>3. sent[Current] \in Frames
      BY <1>2, <3>2 DEF SyncType, Current
    <3>4. 4 - need + n < WireSize(sent[Current]) /\ 4 - need + n = 4 - need'
      <4>1. WireSize(sent[Current]) \in Nat /\ WireSize(sent[Current]) > 38
        BY <3>3, WireSizeBound
      <4> QED
        BY <1>3, <3>2, <4>1
    <3>5. pos' = [frame |-> Current, offset |-> 4 - need']
      BY <3>2, <3>4 DEF Advance
    <3>6. InLength'
      BY <3>1, <3>2, <3>5, <1>1, <1>3 DEF InLength, Current
    <3> QED
      BY <2>1, <3>6, <1>1, <1>2 DEF InSync, Current, Body
  <2>2. CASE field \in Body
    <3>1. InBody /\ Current <= Len(sent) /\ need \in 0..FieldSize
      BY <2>2, <1>2 DEF InSync, InBody
    <3>2. FieldSize' = FieldSize /\ FieldEnd' = FieldEnd
      BY <1>1 DEF FieldSize, FieldEnd, Current, WireSize
    <3>3. FieldEnd \in Nat /\ FieldSize \in Nat /\ need \in Nat
      BY <2>2, <3>1, <1>2, FieldBounds DEF SyncType
    <3>4. pos' = InFrame(FieldEnd - need')
      <4>1. /\ FieldEnd - need \in Nat
            /\ pos = [frame |-> Current, offset |-> FieldEnd - need]
        BY <2>2, <1>1, <1>2, InsideFrame
      <4>2. FieldEnd - need + n = FieldEnd - need'
        BY <3>3, <1>3
      <4> QED
        BY <4>1, <4>2 DEF Advance, InFrame
    <3>5. need' \in 0..FieldSize
      BY <3>1, <3>3, <1>3
    <3>6. InBody'
      BY <3>1, <3>2, <3>4, <3>5, <1>1 DEF InBody, InFrame, Current, WireSize, LengthOf
    <3> QED
      BY <2>2, <3>6, <1>1, <1>2 DEF InSync, Current, Body
  <2> QED
    BY <2>1, <2>2, <1>1, <1>2 DEF SyncType, Body
<1>7. Returned'
  BY <1>1, <1>2 DEF Returned
<1> QED
  BY <1>5, <1>6, <1>7 DEF SyncInv

LEMMA ReadEofInv == SyncInv /\ ReadEof => SyncInv'
<1> SUFFICES ASSUME SyncInv, ReadEof PROVE SyncInv'
  OBVIOUS
<1>1. /\ UNCHANGED <<sent, closed, pos, at, length, operationLength, from, out>>
      /\ field \notin {"return", "eof"}
      /\ need > 0
      /\ closed
      /\ pos.frame > Len(sent)
      /\ field' = "eof"
      /\ need' = 0
  BY DEF ReadEof, Reading, Drained, Return, SyncInv, SyncType, Place
<1>2. SyncType /\ InSync /\ Returned
  BY DEF SyncInv
<1>3. field = "length"
  <2> SUFFICES ASSUME field \in Body PROVE FALSE
    BY <1>1, <1>2 DEF SyncType, Body
  <2>1. Current \in Nat /\ Current <= Len(sent) /\ pos.frame = Current
    BY <1>1, <1>2, InsideFrame
  <2>2. Len(sent) \in Nat
    BY <1>2 DEF SyncType
  <2> QED
    BY <1>1, <2>1, <2>2
<1>4. pos = [frame |-> Current, offset |-> 0] /\ Len(out) = Len(sent)
  BY <1>1, <1>2, <1>3 DEF InSync, InLength, Current, Returned, SyncType
<1>5. SyncType'
  BY <1>1, <1>2 DEF SyncType
<1>6. InSync'
  BY <1>1, <1>4 DEF InSync, Between, Current, Body
<1>7. Returned'
  BY <1>1, <1>2 DEF Returned
<1> QED
  BY <1>5, <1>6, <1>7 DEF SyncInv

-----------------------------------------------------------------------------
(* GetMessageFromSocket *)

LEMMA CallInv == SyncInv /\ Call => SyncInv'
<1> SUFFICES ASSUME SyncInv, Call PROVE SyncInv'
  OBVIOUS
<1>1. /\ UNCHANGED <<sent, closed, pos, out>>
      /\ field = "return" /\ field' = "length"
      /\ from' = pos /\ at' = pos /\ need' = 4
  BY DEF Call, Expect
<1>2. SyncType /\ InSync /\ Returned
  BY DEF SyncInv
<1>3. pos = [frame |-> Current, offset |-> 0]
  BY <1>1, <1>2 DEF InSync, Between
<1>4. SyncType'
  BY <1>1, <1>2 DEF SyncType
<1>5. InSync'
  BY <1>1, <1>3 DEF InSync, InLength, Current, Body
<1>6. Returned'
  BY <1>1, <1>2 DEF Returned
<1> QED
  BY <1>4, <1>5, <1>6 DEF SyncInv

(* The next field of the body: what a complete field leaves is the place   *)
(* where the next one starts.                                              *)
LEMMA NextField ==
  ASSUME SyncInv, UNCHANGED <<sent, closed, pos, from, out>>,
         Current <= Len(sent), from = [frame |-> Current, offset |-> 0],
         field' \in Body, at' = pos,
         length' = LengthOf(sent[Current]),
         field' \in {"operation", "type"} => operationLength' = sent[Current].operation,
         field' = "type" => sent[Current].type > 0,
         need' = FieldSize', need' > 0,
         pos = InFrame(FieldEnd' - FieldSize')
  PROVE  SyncInv'
<1>1. SyncType /\ InSync /\ Returned
  BY DEF SyncInv
<1>2. Current' = Current /\ sent' = sent
  BY DEF Current
<1>3. /\ FieldSize' \in Nat
      /\ FieldEnd' \in Nat
      /\ FieldSize' <= FieldEnd'
      /\ FieldEnd' <= WireSize(sent[Current])
      /\ WireSize(sent[Current]) \in Nat
  <2>1. sent[Current] \in Frames
    BY <1>1 DEF SyncType, Current
  <2> DEFINE op == sent[Current].operation
             ty == sent[Current].type
  <2>2. op \in Nat /\ ty \in Nat
    BY <2>1, OperationSize, TypeSize
  <2>3. WireSize(sent[Current]) = 38 + op + ty
    BY DEF WireSize
  <2>4. \/ FieldSize' = 16 /\ (FieldEnd' = 20 \/ FieldEnd' = 36)
        \/ FieldSize' = 2 /\ FieldEnd' = 38
        \/ FieldSize' = op /\ FieldEnd' = 38 + op
        \/ FieldSize' = ty /\ FieldEnd' = 38 + op + ty
    BY <1>2 DEF FieldSize, FieldEnd, Body, WireSize
  <2> HIDE DEF op, ty
  <2> QED
    BY <2>2, <2>3, <2>4
<1>4. \A o : InFrame(o)' = InFrame(o)
  BY <1>2 DEF InFrame, WireSize
<1>5. /\ FieldEnd' - FieldSize' \in Nat
      /\ FieldEnd' - FieldSize' < WireSize(sent[Current])
  <2> DEFINE end == FieldEnd'
             size == FieldSize'
             wire == WireSize(sent[Current])
  <2>1. size > 0 /\ size \in Nat /\ end \in Nat /\ wire \in Nat /\ size <= end /\ end <= wire
    BY <1>3
  <2> HIDE DEF end, size, wire
  <2>2. end - size \in Nat /\ end - size < wire
    BY <2>1
  <2> QED
    BY <2>2 DEF end, size, wire
<1>6. pos = [frame |-> Current, offset |-> FieldEnd' - FieldSize']
  BY <1>5 DEF InFrame
<1>7. InBody'
  BY <1>2, <1>3, <1>4, <1>6 DEF InBody, LengthOf
<1>8. InSync'
  BY <1>2, <1>7 DEF InSync, Body
<1>9. SyncType'
  BY <1>1, <1>3 DEF SyncType, Body
<1> QED
  BY <1>1, <1>8, <1>9 DEF SyncInv, Returned

LEMMA GotLengthInv == SyncInv /\ GotLength => SyncInv'
<1> SUFFICES ASSUME SyncInv, GotLength PROVE SyncInv'
  OBVIOUS
<1>1. SyncType /\ InSync
  BY DEF SyncInv
<1>2. /\ UNCHANGED <<sent, closed, pos, from, out, operationLength>>
      /\ field = "length" /\ need = 0
  BY DEF GotLength, Complete
<1>3. /\ at = [frame |-> Current, offset |-> 0]
      /\ from = at
      /\ pos = [frame |-> Current, offset |-> 4]
      /\ Current <= Len(sent)
  BY <1>1, <1>2 DEF InSync, InLength
<1>4. sent[Current] \in Frames
  BY <1>1, <1>3 DEF SyncType, Current
<1>5. length' = LengthOf(sent[Current])
  BY <1>3 DEF GotLength, NumberAt
<1>6. length' <= MaxLength /\ 4 < WireSize(sent[Current])
  BY <1>4, <1>5, FrameLength, WireSizeBound DEF MaxLength
<1>7. field' = "src" /\ at' = pos /\ need' = 16
  <2>1. ~(length' > MaxLength)
    BY <1>4, <1>5, FrameLength DEF MaxLength
  <2> QED
    BY <2>1 DEF GotLength, Expect
<1>8. FieldSize' = 16 /\ FieldEnd' = 20
  BY <1>7 DEF FieldSize, FieldEnd
<1>9. pos = InFrame(4)
  BY <1>3, <1>6 DEF InFrame
<1> QED
  BY <1>2, <1>3, <1>5, <1>7, <1>8, <1>9, NextField DEF Body

(* What holds once a field of the body is complete *)
LEMMA BodyComplete ==
  ASSUME SyncInv, field \in Body, need = 0
  PROVE  /\ Current <= Len(sent)
         /\ sent[Current] \in Frames
         /\ from = [frame |-> Current, offset |-> 0]
         /\ length = LengthOf(sent[Current])
         /\ at = [frame |-> Current, offset |-> FieldEnd - FieldSize]
         /\ pos = InFrame(FieldEnd)
<1>1. InSync /\ SyncType
  BY DEF SyncInv
<1>2. InBody /\ from = [frame |-> Current, offset |-> 0]
  BY <1>1 DEF InSync, Body
<1>3. FieldEnd \in Nat
  BY <1>1, <1>2, FieldBounds DEF InBody
<1>4. FieldEnd - need = FieldEnd
  BY <1>3
<1> QED
  BY <1>1, <1>2, <1>4 DEF InBody, SyncType, Current

LEMMA GotSrcInv == SyncInv /\ GotSrc => SyncInv'
<1> SUFFICES ASSUME SyncInv, GotSrc PROVE SyncInv'
  OBVIOUS
<1>1. /\ UNCHANGED <<sent, closed, pos, length, operationLength, from, out>>
      /\ field = "src" /\ need = 0
      /\ field' = "dst" /\ at' = pos /\ need' = 16
  BY DEF GotSrc, Complete, Expect
<1>2. FieldEnd = 20 /\ FieldSize' = 16 /\ FieldEnd' = 36
  BY <1>1 DEF FieldSize, FieldEnd
<1> QED
  BY <1>1, <1>2, BodyComplete, NextField DEF Body

LEMMA GotDstInv == SyncInv /\ GotDst => SyncInv'
<1> SUFFICES ASSUME SyncInv, GotDst PROVE SyncInv'
  OBVIOUS
<1>1. /\ UNCHANGED <<sent, closed, pos, length, operationLength, from, out>>
      /\ field = "dst" /\ need = 0
      /\ field' = "operationLength" /\ at' = pos /\ need' = 2
  BY DEF GotDst, Complete, Expect
<1>2. FieldEnd = 36 /\ FieldSize' = 2 /\ FieldEnd' = 38
  BY <1>1 DEF FieldSize, FieldEnd
<1> QED
  BY <1>1, <1>2, BodyComplete, NextField DEF Body

LEMMA GotOperationLengthInv == SyncInv /\ GotOperationLength => SyncInv'
<1> SUFFICES ASSUME SyncInv, GotOperationLength PROVE SyncInv'
  OBVIOUS
<1>1. /\ UNCHANGED <<sent, closed, pos, length, from, out>>
      /\ field = "operationLength" /\ need = 0
  BY DEF GotOperationLength, Complete
<1>2. FieldEnd = 38 /\ FieldSize = 2
  BY <1>1 DEF FieldSize, FieldEnd
<1>3. sent[Current] \in Frames
  BY <1>1, BodyComplete DEF Body
<1>4. at = [frame |-> Current, offset |-> 36]
  BY <1>1, <1>2, BodyComplete DEF Body
<1>5. operationLength' = sent[Current].operation
  BY <1>4 DEF GotOperationLength, NumberAt
<1>6. /\ sent[Current].operation \in Nat
      /\ sent[Current].operation >= 1
      /\ sent[Current].operation <= 1024
  BY <1>3, OperationSize
<1>7. field' = "operation" /\ at' = pos /\ need' = sent[Current].operation
  <2> DEFINE op == sent[Current].operation
  <2>1. operationLength' = op /\ op \in 1..MaxLength
    <3> HIDE DEF op
    <3>1. op \in Nat /\ op >= 1 /\ op <= 1024
      BY <1>6 DEF op
    <3>2. op \in 1..MaxLength
      BY <3>1 DEF MaxLength
    <3> QED
      BY <1>5, <3>2 DEF op
  <2> QED
    BY <1>5, <2>1 DEF GotOperationLength, Expect
<1>8. FieldSize' = sent[Current].operation /\ FieldEnd' = 38 + sent[Current].operation
  BY <1>1, <1>7 DEF FieldSize, FieldEnd, Current
<1>9. FieldEnd' - FieldSize' = 38
  <2> DEFINE op == sent[Current].operation
  <2>1. op \in Nat /\ FieldSize' = op /\ FieldEnd' = 38 + op
    BY <1>6, <1>8
  <2> HIDE DEF op
  <2> QED
    BY <2>1
<1> QED
  <2>1. need' = FieldSize' /\ need' > 0
    BY <1>6, <1>7, <1>8
  <2> QED
    BY <1>1, <1>2, <1>5, <1>7, <1>9, <2>1, BodyComplete, NextField DEF Body

(* A message is returned: the call has read one frame, whole. *)
LEMMA ParsedInv ==
  ASSUME SyncInv, NEW type, Parsed(type),
         UNCHANGED <<sent, closed, pos, at, length, operationLength, from>>,
         Current <= Len(sent),
         from = [frame |-> Current, offset |-> 0],
         pos = [frame |-> Current + 1, offset |-> 0],
         operationLength = sent[Current].operation,
         type = sent[Current].type
  PROVE  SyncInv'
<1>1. SyncType /\ Returned
  BY DEF SyncInv
<1>2. Current \in Nat \ {0} /\ Len(out) \in Nat /\ sent[Current] \in Frames
  BY <1>1 DEF SyncType, Current
<1>3. Whole(type)
  BY <1>2 DEF Whole
<1> DEFINE m == [from |-> from, to |-> pos, operation |-> operationLength, type |-> type]
<1>4. out' = Append(out, m) /\ field' = "return" /\ need' = 0
  BY <1>3 DEF Parsed, Return
<1>5. m \in [from : Place, to : Place, operation : Nat, type : Nat]
  BY <1>1, <1>2, OperationSize, TypeSize DEF SyncType
<1> HIDE DEF m
<1>6. /\ out' \in Seq([from : Place, to : Place, operation : Nat, type : Nat])
      /\ Len(out') = Current
      /\ \A i \in 1..Len(out) : out'[i] = out[i]
      /\ out'[Current] = m
  BY <1>1, <1>4, <1>5 DEF SyncType, Current
<1>7. SyncType'
  BY <1>1, <1>4, <1>6 DEF SyncType
<1>8. InSync'
  BY <1>4, <1>6 DEF InSync, Between, Current, Body
<1>9. Returned'
  <2>1. Len(out') <= Len(sent')
    BY <1>6
  <2> SUFFICES ASSUME NEW i \in 1..Len(out')
               PROVE  out'[i] = [from |-> [frame |-> i, offset |-> 0],
                                 to |-> [frame |-> i + 1, offset |-> 0],
                                 operation |-> sent'[i].operation, type |-> sent'[i].type]
    BY <2>1 DEF Returned
  <2>2. CASE i = Current
    BY <2>2, <1>6 DEF m
  <2>3. CASE i # Current
    <3>1. i \in 1..Len(out)
      BY <2>3, <1>2, <1>6 DEF Current
    <3> QED
      BY <3>1, <1>1, <1>6 DEF Returned
  <2> QED
    BY <2>2, <2>3
<1> QED
  BY <1>7, <1>8, <1>9 DEF SyncInv

(* The unsigned difference is the size of the frame's type. *)
LEMMA TypeLengthInSync ==
  ASSUME sent[Current] \in Frames,
         length = LengthOf(sent[Current]),
         operationLength = sent[Current].operation
  PROVE  TypeLength = sent[Current].type
<1> DEFINE op == sent[Current].operation
           ty == sent[Current].type
<1>1. op \in Nat /\ ty \in Nat
  BY OperationSize, TypeSize
<1>2. length = 34 + op + ty /\ length <= 1024 /\ operationLength = op
  BY FrameLength DEF LengthOf
<1>3. ty < Word /\ Word \in Nat
  BY <1>1, <1>2, FramingAssumption DEF MaxLength
<1> HIDE DEF op, ty
<1>4. length - 34 - operationLength = ty
  BY <1>1, <1>2
<1>5. TypeLength = ty
  BY <1>1, <1>3, <1>4, Unwrapped DEF TypeLength
<1> QED
  BY <1>5 DEF ty

LEMMA GotOperationInv == SyncInv /\ GotOperation => SyncInv'
<1> SUFFICES ASSUME SyncInv, GotOperation PROVE SyncInv'
  OBVIOUS
<1>1. /\ UNCHANGED <<sent, closed, pos, length, operationLength, from>>
      /\ field = "operation" /\ need = 0
  BY DEF GotOperation, Complete
<1>2. InBody
  BY <1>1 DEF SyncInv, InSync, Body
<1>3. /\ Current <= Len(sent)
      /\ sent[Current] \in Frames
      /\ from = [frame |-> Current, offset |-> 0]
      /\ length = LengthOf(sent[Current])
      /\ pos = InFrame(FieldEnd)
      /\ operationLength = sent[Current].operation
  BY <1>1, <1>2, BodyComplete DEF InBody, Body
<1> DEFINE op == sent[Current].operation
           ty == sent[Current].type
<1>4. op \in Nat /\ ty \in Nat
  BY <1>3, OperationSize, TypeSize
<1>5. WireSize(sent[Current]) = 38 + op + ty /\ FieldEnd = 38 + op
  BY <1>1 DEF WireSize, FieldEnd
<1>6. TypeLength = ty
  BY <1>3, TypeLengthInSync
<1>7. CASE ty > 0
  <2>1. field' = "type" /\ at' = pos /\ need' = ty /\ out' = out
    BY <1>6, <1>7 DEF GotOperation, Expect
  <2>2. FieldSize' = ty /\ FieldEnd' = WireSize(sent[Current])
    BY <1>1, <2>1 DEF FieldSize, FieldEnd, Current, WireSize
  <2>3. FieldEnd' - FieldSize' = FieldEnd
    <3> HIDE DEF op, ty
    <3> QED
      BY <1>4, <1>5, <2>2
  <2> QED
    BY <1>1, <1>3, <1>7, <2>1, <2>2, <2>3, NextField DEF Body
<1>8. CASE ~(ty > 0)
  <2>1. ty = 0
    BY <1>4, <1>8
  <2>2. Parsed(0) /\ at' = at
    BY <1>6, <1>8 DEF GotOperation
  <2>3. ~(FieldEnd < WireSize(sent[Current]))
    <3> HIDE DEF op, ty
    <3> QED
      BY <1>4, <1>5, <2>1
  <2>4. pos = [frame |-> Current + 1, offset |-> 0]
    BY <1>3, <2>3 DEF InFrame
  <2> QED
    BY <1>1, <1>3, <2>1, <2>2, <2>4, ParsedInv
<1> QED
  BY <1>7, <1>8

LEMMA GotTypeInv == SyncInv /\ GotType => SyncInv'
<1> SUFFICES ASSUME SyncInv, GotType PROVE SyncInv'
  OBVIOUS
<1>1. /\ UNCHANGED <<sent, closed, pos, at, length, operationLength, from>>
      /\ field = "type" /\ need = 0
      /\ Parsed(TypeLength)
  BY DEF GotType, Complete
<1>2. InBody
  BY <1>1 DEF SyncInv, InSync, Body
<1>3. /\ Current <= Len(sent)
      /\ sent[Current] \in Frames
      /\ from = [frame |-> Current, offset |-> 0]
      /\ length = LengthOf(sent[Current])
      /\ pos = InFrame(FieldEnd)
      /\ operationLength = sent[Current].operation
  BY <1>1, <1>2, BodyComplete DEF InBody, Body
<1>4. FieldEnd = WireSize(sent[Current]) /\ WireSize(sent[Current]) \in Nat
  BY <1>1, <1>3, WireSizeBound DEF FieldEnd
<1>5. TypeLength = sent[Current].type
  BY <1>3, TypeLengthInSync
<1>6. pos = [frame |-> Current + 1, offset |-> 0]
  BY <1>3, <1>4 DEF InFrame
<1> QED
  BY <1>1, <1>3, <1>5, <1>6, ParsedInv

-----------------------------------------------------------------------------
(* A timeout before the first byte of a frame leaves the reader in sync. *)
LEMMA ReadTimeoutInv == SyncInv /\ ReadTimeout /\ ~cut' => SyncInv'
<1> SUFFICES ASSUME SyncInv, ReadTimeout, ~cut'
             PROVE  SyncInv'
  OBVIOUS
<1>1. /\ UNCHANGED <<sent, closed, pos, at, length, operationLength, from, out>>
      /\ field \notin {"return", "eof"}
      /\ field' = "return" /\ need' = 0
      /\ pos = from
  BY DEF ReadTimeout, Reading, Return
<1>2. from = [frame |-> Current, offset |-> 0]
  BY <1>1 DEF SyncInv, InSync
<1>3. Between'
  BY <1>1, <1>2 DEF Between, Current
<1>4. InSync'
  BY <1>1, <1>3 DEF InSync, Body
<1>5. SyncType' /\ Returned'
  BY <1>1 DEF SyncInv, SyncType, Returned
<1> QED
  BY <1>4, <1>5 DEF SyncInv

(* Every step keeps the reader in sync, unless it cuts a frame. *)
LEMMA SyncNext ==
  ASSUME SyncInv, [Next]_vars, ~cut'
  PROVE  SyncInv'
<1>1. CASE PeerWrite
  BY <1>1, PeerWriteInv
<1>2. CASE PeerClose
  BY <1>2, PeerCloseInv
<1>3. CASE Read
  BY <1>3, ReadInv
<1>4. CASE ReadEof
  BY <1>4, ReadEofInv
<1>5. CASE ReadTimeout
  BY <1>5, ReadTimeoutInv
<1>6. CASE Call
  BY <1>6, CallInv
<1>7. CASE GotLength
  BY <1>7, GotLengthInv
<1>8. CASE GotSrc
  BY <1>8, GotSrcInv
<1>9. CASE GotDst
  BY <1>9, GotDstInv
<1>10. CASE GotOperationLength
  BY <1>10, GotOperationLengthInv
<1>11. CASE GotOperation
  BY <1>11, GotOperationInv
<1>12. CASE GotType
  BY <1>12, GotTypeInv
<1>13. CASE UNCHANGED vars
  <2>1. UNCHANGED <<sent, closed, pos, field, at, need, length, operationLength, from, out>>
    BY <1>13 DEF vars, readVars
  <2>2. SyncType' /\ Returned'
    BY <2>1 DEF SyncInv, SyncType, Returned
  <2>3. InSync'
    BY <2>1 DEF SyncInv, InSync, Between, InLength, InBody, InFrame, FieldSize, FieldEnd, Current, Body
  <2> QED
    BY <2>2, <2>3 DEF SyncInv
<1> QED
  BY <1>1, <1>2, <1>3, <1>4, <1>5, <1>6, <1>7, <1>8, <1>9, <1>10, <1>11, <1>12, <1>13
     DEF Next, ReadBytes, GetMessageFromSocket, Over

(* What the invariant says of the frames returned, of the size asked of    *)
(* ReadBytes, and of the end of the stream.                                *)
LEMMA SyncImplies ==
  ASSUME SyncInv
  PROVE  FramesInOrder /\ NeedBounded /\ NothingLeftBehind
<1>1. SyncType /\ InSync /\ Returned
  BY DEF SyncInv
<1>2. FramesInOrder
  BY <1>1 DEF FramesInOrder, Returned
<1>3. need <= 1024
  <2>1. CASE field \in {"return", "eof"}
    BY <2>1, <1>1 DEF InSync, Between
  <2>2. CASE field = "length"
    BY <2>2, <1>1 DEF InSync, InLength
  <2>3. CASE field \in Body
    <3>1. Current <= Len(sent) /\ need \in 0..FieldSize
      BY <2>3, <1>1 DEF InSync, InBody
    <3>2. sent[Current] \in Frames
      BY <3>1, <1>1 DEF SyncType, Current
    <3> DEFINE op == sent[Current].operation
               ty == sent[Current].type
    <3>3. /\ op \in Nat /\ ty \in Nat
          /\ 34 + op + ty <= 1024
      BY <3>2, OperationSize, TypeSize, FrameLength DEF LengthOf
    <3>4. FieldSize = 16 \/ FieldSize = 2 \/ FieldSize = op \/ FieldSize = ty
      BY <2>3 DEF FieldSize, Body
    <3> HIDE DEF op, ty
    <3> QED
      BY <3>1, <3>3, <3>4
  <2> QED
    BY <2>1, <2>2, <2>3, <1>1 DEF SyncType, Body
<1>4. NothingLeftBehind
  BY <1>1 DEF NothingLeftBehind, InSync, Between
<1> QED
  BY <1>2, <1>3, <1>4 DEF NeedBounded, MaxLength

(* A frame that was cut stays cut. *)
LEMMA CutStays == ASSUME cut, [Next]_vars PROVE cut'
  BY DEF Next, PeerWrite, PeerClose, ReadBytes, Read, ReadEof, ReadTimeout,
         GetMessageFromSocket, Call, GotLength, GotSrc, GotDst, GotOperationLength,
         GotOperation, GotType, Over, vars

LEMMA SyncedUntilCut == Spec => []InSyncUntilCut
<1>1. Init => InSyncUntilCut
  BY SyncInit DEF InSyncUntilCut
<1>2. InSyncUntilCut /\ [Next]_vars => InSyncUntilCut'
  BY SyncNext, CutStays DEF InSyncUntilCut
<1> QED
  BY <1>1, <1>2, PTL DEF Spec

(* For all sizes of frames and every way the stream is split: until a      *)
(* deadline passes in the middle of a frame, GetMessageFromSocket returns  *)
(* the frames that were written, whole and in order.                       *)
THEOREM Framed == Spec => []FramesInOrder
<1>1. InSyncUntilCut => FramesInOrder
  BY SyncImplies DEF InSyncUntilCut, FramesInOrder
<1> QED
  BY <1>1, SyncedUntilCut, PTL

(* Until then ReadBytes is never asked for more than a frame may hold:     *)
(* operationTypeLength, a difference of unsigned words, does not wrap.     *)
THEOREM SizesBounded == Spec => []NeedBounded
<1>1. InSyncUntilCut => NeedBounded
  BY SyncImplies DEF InSyncUntilCut, NeedBounded
<1> QED
  BY <1>1, SyncedUntilCut, PTL

(* A loop that ends on EOF has returned every frame that was written       *)
(* before the close, if no deadline has cut one.                           *)
THEOREM EndComplete == Spec => []NothingLeftBehind
<1>1. InSyncUntilCut => NothingLeftBehind
  BY SyncImplies DEF InSyncUntilCut, NothingLeftBehind
<1> QED
  BY <1>1, SyncedUntilCut, PTL

-----------------------------------------------------------------------------
(* Once a deadline has cut a frame nothing of the above is left, but the   *)
(* reader still knows that the bytes it takes for a number were written.   *)
NumbersWritten ==
  /\ field \notin {"return", "eof"} => at.frame <= pos.frame
  /\ field = "length" => need <= 4 /\ (need < 4 => at.frame <= Len(sent))
  /\ field = "operationLength" => need <= 2 /\ (need < 2 => at.frame <= Len(sent))

LEMMA AdvanceType ==
  ASSUME sent \in Seq(Frames), pos \in Place, pos.frame <= Len(sent), NEW n \in Nat
  PROVE  Advance(pos, n) \in Place /\ pos.frame <= Advance(pos, n).frame
BY DEF Advance, Place

LEMMA ReadNumber ==
  ASSUME sent \in Seq(Frames), at \in Place, at.frame <= Len(sent), NEW o \in Nat
  PROVE  /\ NumberAt(o, LengthOf(sent[at.frame])) \subseteq Nat
         /\ NumberAt(o, sent[at.frame].operation) \subseteq Nat
<1>1. sent[at.frame] \in Frames
  BY DEF Place
<1>2. Numbers \subseteq Nat
  BY FramingAssumption
<1>3. LengthOf(sent[at.frame]) \in Nat /\ sent[at.frame].operation \in Nat
  BY <1>1, FrameLength, OperationSize
<1> QED
  BY <1>2, <1>3 DEF NumberAt

LEMMA TypeLengthType ==
  ASSUME length \in Nat, operationLength \in Nat PROVE TypeLength \in Nat
BY FramingAssumption DEF TypeLength, MaxLength

Resting == {"none", "message", "timeout", "error", "eof"}

LEMMA ReturnType ==
  ASSUME NEW r \in Resting, Return(r)
  PROVE  /\ field' \in {"return", "eof"}
         /\ need' = 0
         /\ result' \in Resting
BY DEF Return, Resting

LEMMA ParsedType ==
  ASSUME NEW type \in Nat, TypeOK, Parsed(type)
  PROVE  /\ field' \in {"return", "eof"}
         /\ need' = 0
         /\ result' \in Resting
         /\ out' \in Seq([from : Place, to : Place, operation : Nat, type : Nat])
<1> DEFINE Message == [from : Place, to : Place, operation : Nat, type : Nat]
<1>1. out \in Seq(Message) /\ from \in Place /\ pos \in Place /\ operationLength \in Nat
  BY DEF TypeOK
<1>2. CASE Return("message") /\ out' = Append(out, [from |-> from, to |-> pos,
                                    operation |-> operationLength, type |-> type])
  <2>1. [from |-> from, to |-> pos, operation |-> operationLength, type |-> type] \in Message
    BY <1>1
  <2>2. out' \in Seq(Message)
    BY <1>1, <1>2, <2>1
  <2> QED
    BY <1>2, <2>2, ReturnType DEF Resting
<1>3. CASE Return("error") /\ out' = out
  BY <1>1, <1>3, ReturnType DEF Resting
<1> QED
  BY <1>2, <1>3 DEF Parsed

LEMMA TypeStart == Init => TypeOK /\ NumbersWritten
<1> SUFFICES ASSUME Init PROVE TypeOK /\ NumbersWritten
  OBVIOUS
<1>1. SyncType
  BY SyncInit DEF SyncInv
<1>2. cut \in BOOLEAN
  BY DEF Init
<1>3. TypeOK
  BY <1>1, <1>2 DEF SyncType, Init, TypeOK
<1> QED
  BY <1>3 DEF Init, NumbersWritten

LEMMA ReadType ==
  ASSUME TypeOK, NumbersWritten, ReadBytes
  PROVE  TypeOK' /\ NumbersWritten'
<1>1. CASE Read
  <2> PICK n \in 1..need : pos' = Advance(pos, n) /\ need' = need - n
    BY <1>1 DEF Read
  <2>1. /\ UNCHANGED <<sent, closed, cut, field, at, length, operationLength, from, out, result>>
        /\ field \notin {"return", "eof"}
        /\ need > 0
        /\ pos.frame <= Len(sent)
    BY <1>1 DEF Read, Reading, Drained, TypeOK, Place
  <2>2. pos' \in Place /\ pos.frame <= pos'.frame
    BY <2>1, AdvanceType DEF TypeOK
  <2>3. need' \in Nat /\ need' < need
    BY <2>1 DEF TypeOK
  <2>4. TypeOK'
    BY <2>1, <2>2, <2>3 DEF TypeOK
  <2>5. at.frame \in Nat /\ pos.frame \in Nat /\ pos'.frame \in Nat /\ Len(sent) \in Nat /\ need \in Nat
    BY <2>2 DEF TypeOK, Place
  <2>6. at.frame <= pos.frame
    BY <2>1 DEF NumbersWritten
  <2>7. NumbersWritten'
    BY <2>1, <2>2, <2>3, <2>5, <2>6 DEF NumbersWritten
  <2> QED
    BY <2>4, <2>7
<1>2. CASE ReadEof \/ ReadTimeout
  <2>1. /\ UNCHANGED <<sent, closed, pos, at, length, operationLength, from, out>>
        /\ cut' \in BOOLEAN
    BY <1>2 DEF ReadEof, ReadTimeout, TypeOK
  <2>2. field' \in {"return", "eof"} /\ need' = 0 /\ result' \in Resting
    BY <1>2, ReturnType DEF ReadEof, ReadTimeout, Resting
  <2>3. TypeOK'
    BY <2>1, <2>2 DEF TypeOK, Resting
  <2> QED
    BY <2>2, <2>3 DEF NumbersWritten
<1> QED
  BY <1>1, <1>2 DEF ReadBytes

(* The steps of the call that only start the next field *)
LEMMA ExpectType ==
  ASSUME TypeOK, UNCHANGED <<sent, closed, cut, pos, length, operationLength, out, result>>,
         from' \in Place,
         NEW f \in {"length", "src", "dst", "operationLength", "operation", "type"},
         NEW size \in Nat, Expect(f, size),
         f = "length" => size = 4, f = "operationLength" => size = 2
  PROVE  TypeOK' /\ NumbersWritten'
<1>1. TypeOK'
  BY DEF TypeOK, Expect
<1>2. pos.frame \in Nat
  BY DEF TypeOK, Place
<1>3. NumbersWritten'
  BY <1>2 DEF NumbersWritten, Expect
<1> QED
  BY <1>1, <1>3

LEMMA CallType ==
  ASSUME TypeOK, NumbersWritten, GetMessageFromSocket
  PROVE  TypeOK' /\ NumbersWritten'
<1>1. CASE Call
  BY <1>1, ExpectType DEF Call, TypeOK
<1>2. CASE GotSrc \/ GotDst
  BY <1>2, ExpectType DEF GotSrc, GotDst, TypeOK
<1>3. CASE GotLength
  <2>1. at.frame <= Len(sent)
    BY <1>3 DEF GotLength, Complete, NumbersWritten
  <2>2. length' \in Nat
    BY <1>3, <2>1, ReadNumber DEF GotLength, TypeOK
  <2>3. CASE length' > MaxLength
    <3>1. field' \in {"return", "eof"} /\ need' = 0 /\ result' \in Resting
      BY <1>3, <2>3, ReturnType DEF GotLength, Resting
    <3>2. TypeOK'
      BY <1>3, <2>2, <2>3, <3>1 DEF GotLength, TypeOK, Resting
    <3> QED
      BY <3>1, <3>2 DEF NumbersWritten
  <2>4. CASE ~(length' > MaxLength)
    <3>1. TypeOK'
      BY <1>3, <2>2, <2>4 DEF GotLength, TypeOK, Expect
    <3>2. pos.frame \in Nat
      BY DEF TypeOK, Place
    <3>3. NumbersWritten'
      BY <1>3, <2>4, <3>2 DEF GotLength, NumbersWritten, Expect
    <3> QED
      BY <3>1, <3>3
  <2> QED
    BY <2>3, <2>4
<1>4. CASE GotOperationLength
  <2>1. at.frame <= Len(sent)
    BY <1>4 DEF GotOperationLength, Complete, NumbersWritten
  <2>2. operationLength' \in Nat
    BY <1>4, <2>1, ReadNumber DEF GotOperationLength, TypeOK
  <2>3. CASE operationLength' \notin 1..MaxLength
    <3>1. field' \in {"return", "eof"} /\ need' = 0 /\ result' \in Resting
      BY <1>4, <2>3, ReturnType DEF GotOperationLength, Resting
    <3>2. TypeOK'
      BY <1>4, <2>2, <2>3, <3>1 DEF GotOperationLength, TypeOK, Resting
    <3> QED
      BY <3>1, <3>2 DEF NumbersWritten
  <2>4. CASE operationLength' \in 1..MaxLength
    <3>1. TypeOK'
      BY <1>4, <2>2, <2>4 DEF GotOperationLength, TypeOK, Expect
    <3>2. pos.frame \in Nat
      BY DEF TypeOK, Place
    <3>3. NumbersWritten'
      BY <1>4, <2>4, <3>2 DEF GotOperationLength, NumbersWritten, Expect
    <3> QED
      BY <3>1, <3>3
  <2> QED
    BY <2>3, <2>4
<1>5. CASE GotOperation
  <2>1. TypeLength \in Nat
    BY TypeLengthType DEF TypeOK
  <2>2. CASE TypeLength > 0
    <3>1. /\ Expect("type", TypeLength)
          /\ UNCHANGED <<sent, closed, cut, pos, length, operationLength, from, out, result>>
      BY <1>5, <2>2 DEF GotOperation
    <3>2. from' \in Place
      BY <3>1 DEF TypeOK
    <3> QED
      BY <2>1, <3>1, <3>2, ExpectType
  <2>3. CASE ~(TypeLength > 0)
    <3>1. Parsed(0) /\ UNCHANGED <<at, sent, closed, cut, pos, length, operationLength, from>>
      BY <1>5, <2>3 DEF GotOperation
    <3>2. /\ field' \in {"return", "eof"} /\ need' = 0 /\ result' \in Resting
          /\ out' \in Seq([from : Place, to : Place, operation : Nat, type : Nat])
      BY <3>1, ParsedType
    <3>3. TypeOK'
      BY <3>1, <3>2 DEF TypeOK, Resting
    <3> QED
      BY <3>2, <3>3 DEF NumbersWritten
  <2> QED
    BY <2>2, <2>3
<1>6. CASE GotType
  <2>1. TypeLength \in Nat
    BY TypeLengthType DEF TypeOK
  <2>2. Parsed(TypeLength) /\ UNCHANGED <<at, sent, closed, cut, pos, length, operationLength, from>>
    BY <1>6 DEF GotType
  <2>3. /\ field' \in {"return", "eof"} /\ need' = 0 /\ result' \in Resting
        /\ out' \in Seq([from : Place, to : Place, operation : Nat, type : Nat])
    BY <2>1, <2>2, ParsedType
  <2>4. TypeOK'
    BY <2>2, <2>3 DEF TypeOK, Resting
  <2> QED
    BY <2>3, <2>4 DEF NumbersWritten
<1> QED
  BY <1>1, <1>2, <1>3, <1>4, <1>5, <1>6 DEF GetMessageFromSocket

(* Also when a deadline has cut a frame and numbers are read at the wrong  *)
(* places, the reader's state is one it can go on from: no place, size or  *)
(* length is negative or undefined.                                        *)
THEOREM TypeCorrect == Spec => []TypeOK
<1>1. TypeOK /\ NumbersWritten /\ [Next]_vars => TypeOK' /\ NumbersWritten'
  <2> SUFFICES ASSUME TypeOK, NumbersWritten, [Next]_vars
               PROVE  TypeOK' /\ NumbersWritten'
    OBVIOUS
  <2>1. CASE PeerWrite
    <3>1. /\ sent' \in Seq(Frames) /\ Len(sent') = Len(sent) + 1 /\ Len(sent) \in Nat
          /\ UNCHANGED <<closed, cut, pos, readVars>>
      BY <2>1 DEF PeerWrite, TypeOK
    <3>2. TypeOK'
      BY <3>1 DEF TypeOK, readVars
    <3>3. at.frame \in Nat
      BY DEF TypeOK, Place
    <3>4. NumbersWritten'
      BY <3>1, <3>3 DEF NumbersWritten, readVars
    <3> QED
      BY <3>2, <3>4
  <2>2. CASE PeerClose \/ UNCHANGED vars
    BY <2>2 DEF PeerClose, vars, readVars, TypeOK, NumbersWritten
  <2> QED
    BY <2>1, <2>2, ReadType, CallType DEF Next, Over
<1> QED
  BY <1>1, TypeStart, PTL DEF Spec
=============================================================================
