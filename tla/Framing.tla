------------------------------- MODULE Framing -------------------------------
(***************************************************************************)
(* How a frame is taken from a TCP stream: GetMessageFromSocket and        *)
(* ReadBytes of pkg/comfoconnect/comfoconnect.go, called in a loop by one  *)
(* goroutine until the peer has closed the connection.                     *)
(*                                                                         *)
(* A frame is a length, a source, a destination, the length of the         *)
(* operation, the operation and its type.  Only sizes are modelled.  A     *)
(* place in the stream is the number of the frame and an offset in it.     *)
(* One Read of the socket returns at least one byte and may return fewer   *)
(* than it was asked for; no Read is made to cross the end of a frame,     *)
(* which two of them may always do instead.                                *)
(***************************************************************************)
EXTENDS Integers, Sequences

CONSTANTS
  Frames,      \* the sizes of the operation and its type that the peer sends
  MaxFrames,   \* bound: frames the peer writes
  Numbers,     \* what a number may be that is read at the wrong place
  Word         \* 2^32: lengths are computed as unsigned words of 32 bits

MaxLength == 1024

ASSUME FramingAssumption ==
  /\ Word \in Nat
  /\ MaxLength < Word
  /\ MaxFrames \in Nat
  /\ Numbers \subseteq 0..(Word - 1)
  /\ Frames \subseteq [operation : 1..MaxLength, type : Nat]
  /\ \A f \in Frames : 34 + f.operation + f.type <= MaxLength

VARIABLES
  sent,      \* the frames the peer has written
  closed,    \* has the peer closed the connection?
  cut,       \* has a deadline passed in the middle of a frame?
  pos,       \* the place of the next byte that a Read returns
  field,     \* the field that is being read; "return" between two calls,
             \* "eof" once the loop has ended
  at,        \* the place where that field started
  need,      \* size in ReadBytes: how many bytes of the field are missing
  length,    \* the length that was read
  operationLength, \* the operation's length that was read
  from,      \* the place where the call started
  out,       \* the messages returned, each with the bytes it was read from
  result     \* of the last call: none, message, timeout, error or eof

readVars == <<field, at, need, length, operationLength, from, out, result>>
vars == <<sent, closed, cut, pos, readVars>>

Start == [frame |-> 1, offset |-> 0]
Place == [frame : Nat \ {0}, offset : Nat]

WireSize(f) == 38 + f.operation + f.type

TypeOK ==
  /\ sent \in Seq(Frames)
  /\ closed \in BOOLEAN
  /\ cut \in BOOLEAN
  /\ pos \in Place
  /\ field \in {"length", "src", "dst", "operationLength", "operation", "type",
                "return", "eof"}
  /\ at \in Place
  /\ need \in Nat
  /\ length \in Nat
  /\ operationLength \in Nat
  /\ from \in Place
  /\ out \in Seq([from : Place, to : Place, operation : Nat, type : Nat])
  /\ result \in {"none", "message", "timeout", "error", "eof"}

Init ==
  /\ sent = <<>>
  /\ closed = FALSE
  /\ cut = FALSE
  /\ pos = Start
  /\ field = "return"
  /\ at = Start
  /\ need = 0
  /\ length = 0
  /\ operationLength = 0
  /\ from = Start
  /\ out = <<>>
  /\ result = "none"

-----------------------------------------------------------------------------
(* The peer (outside the code) writes whole frames and may close. *)

PeerWrite ==
  /\ ~closed
  /\ Len(sent) < MaxFrames
  /\ \E f \in Frames : sent' = Append(sent, f)
  /\ UNCHANGED <<closed, cut, pos, readVars>>

PeerClose ==
  /\ ~closed
  /\ closed' = TRUE
  /\ UNCHANGED <<sent, cut, pos, readVars>>

-----------------------------------------------------------------------------
(* ReadBytes: asked for size bytes, it reads until it has them all.  An    *)
(* error of a Read, and a deadline that has passed is one, ends it; what   *)
(* it has read so far is dropped.                                          *)

Reading == field \notin {"return", "eof"} /\ need > 0

Drained == pos.frame > Len(sent)

Advance(place, n) ==
  IF place.offset + n < WireSize(sent[place.frame])
    THEN [frame |-> place.frame, offset |-> place.offset + n]
    ELSE [frame |-> place.frame + 1, offset |-> 0]

(* Mutant: a short read is taken for all that was asked for. *)
ReadOnce ==
  /\ Reading
  /\ ~Drained
  /\ \E n \in 1..need :
       /\ pos.offset + n <= WireSize(sent[pos.frame])
       /\ pos' = Advance(pos, n)
       /\ need' = 0
  /\ UNCHANGED <<sent, closed, cut, field, at, length, operationLength, from, out, result>>

(* Mutant: one buffer for all reads of a field, never cut to what is left. *)
ReadTooMany ==
  /\ Reading
  /\ ~Drained
  /\ \E n \in 1..MaxLength :
       /\ pos.offset + n <= WireSize(sent[pos.frame])
       /\ pos' = Advance(pos, n)
       /\ need' = need - n
  /\ UNCHANGED <<sent, closed, cut, field, at, length, operationLength, from, out, result>>

Read ==
  /\ Reading
  /\ ~Drained
  /\ \E n \in 1..need :
       /\ pos.offset + n <= WireSize(sent[pos.frame])
       /\ pos' = Advance(pos, n)
       /\ need' = need - n
  /\ UNCHANGED <<sent, closed, cut, field, at, length, operationLength, from, out, result>>

(* GetMessageFromSocket returns r; the caller's loop ends on EOF only. *)
Return(r) ==
  /\ result' = r
  /\ field' = IF r = "eof" THEN "eof" ELSE "return"
  /\ need' = 0

(* Mutant: the end of the stream is taken for a read of no bytes. *)
ReadEofAsNothing ==
  /\ Reading
  /\ Drained
  /\ closed
  /\ UNCHANGED vars

(* Every error is wrapped with errors.Wrap, so that errors.Cause of what   *)
(* the call returns is io.EOF in whichever field the stream ends.          *)
ReadEof ==
  /\ Reading
  /\ Drained
  /\ closed
  /\ Return("eof")
  /\ UNCHANGED <<sent, closed, cut, pos, at, length, operationLength, from, out>>

(* The callers set a deadline before each call, for all of its reads. *)
ReadTimeout ==
  /\ Reading
  /\ Return("timeout")
  /\ cut' = (cut \/ pos # from)
  /\ UNCHANGED <<sent, closed, pos, at, length, operationLength, from, out>>

-----------------------------------------------------------------------------
(* GetMessageFromSocket, once ReadBytes has all the bytes of a field *)

Complete(f) == field = f /\ need = 0

Expect(f, size) ==
  /\ field' = f
  /\ at' = pos
  /\ need' = size

(* The number in the bytes from place at: what the peer wrote there, when  *)
(* it is the place of that number in a frame, and anything otherwise.      *)
NumberAt(offset, value) == IF at.offset = offset THEN {value} ELSE Numbers

LengthOf(f) == 34 + f.operation + f.type

Call ==
  /\ field = "return"
  /\ from' = pos
  /\ Expect("length", 4)
  /\ UNCHANGED <<sent, closed, cut, pos, length, operationLength, out, result>>

GotLength ==
  /\ Complete("length")
  /\ length' \in NumberAt(0, LengthOf(sent[at.frame]))
  /\ IF length' > MaxLength
       THEN Return("error") /\ UNCHANGED at
       ELSE Expect("src", 16) /\ UNCHANGED result
  /\ UNCHANGED <<sent, closed, cut, pos, operationLength, from, out>>

GotSrc ==
  /\ Complete("src")
  /\ Expect("dst", 16)
  /\ UNCHANGED <<sent, closed, cut, pos, length, operationLength, from, out, result>>

GotDst ==
  /\ Complete("dst")
  /\ Expect("operationLength", 2)
  /\ UNCHANGED <<sent, closed, cut, pos, length, operationLength, from, out, result>>

GotOperationLength ==
  /\ Complete("operationLength")
  /\ operationLength' \in NumberAt(36, sent[at.frame].operation)
  /\ IF operationLength' \notin 1..MaxLength
       THEN Return("error") /\ UNCHANGED at
       ELSE Expect("operation", operationLength') /\ UNCHANGED result
  /\ UNCHANGED <<sent, closed, cut, pos, length, from, out>>

(* Mutant: the two bytes of the operation's length are not counted. *)
TypeLengthOfRest == (length - 32 - operationLength) % Word

(* Mutant: the length is taken to count its own four bytes. *)
TypeLengthCountsItself == (length - 38 - operationLength) % Word

(* operationTypeLength, a difference of unsigned words *)
TypeLength == (length - 34 - operationLength) % Word

(* The two Unmarshal calls: they succeed for a frame that was read whole,  *)
(* and may fail for bytes taken from elsewhere.                            *)
Whole(type) ==
  /\ from.offset = 0
  /\ from.frame <= Len(sent)
  /\ pos = [frame |-> from.frame + 1, offset |-> 0]
  /\ operationLength = sent[from.frame].operation
  /\ type = sent[from.frame].type

Parsed(type) ==
  \/ /\ Return("message")
     /\ out' = Append(out, [from |-> from, to |-> pos,
                            operation |-> operationLength, type |-> type])
  \/ /\ ~Whole(type)
     /\ Return("error")
     /\ UNCHANGED out

GotOperation ==
  /\ Complete("operation")
  /\ IF TypeLength > 0
       THEN Expect("type", TypeLength) /\ UNCHANGED <<out, result>>
       ELSE Parsed(0) /\ UNCHANGED at
  /\ UNCHANGED <<sent, closed, cut, pos, length, operationLength, from>>

GotType ==
  /\ Complete("type")
  /\ Parsed(TypeLength)
  /\ UNCHANGED <<sent, closed, cut, pos, at, length, operationLength, from>>

GetMessageFromSocket ==
  \/ Call \/ GotLength \/ GotSrc \/ GotDst
  \/ GotOperationLength \/ GotOperation \/ GotType

ReadBytes == Read \/ ReadEof \/ ReadTimeout

(* The loop has ended. *)
Over == field = "eof" /\ closed /\ UNCHANGED vars

Next == PeerWrite \/ PeerClose \/ ReadBytes \/ GetMessageFromSocket \/ Over

(* The goroutine is scheduled, and a Read returns when there are bytes or  *)
(* the end of the stream.  A deadline lies hundreds of milliseconds ahead  *)
(* of the call, so that it cannot be first for ever when there is          *)
(* something to return (strong fairness).  The peer owes nothing.          *)
Fairness == SF_vars(Read) /\ SF_vars(ReadEof) /\ WF_vars(GetMessageFromSocket)

Spec == Init /\ [][Next]_vars /\ Fairness

-----------------------------------------------------------------------------
(* The frame being read *)
Current == Len(out) + 1

(* The place o bytes after the start of the frame being read *)
InFrame(o) ==
  IF o < WireSize(sent[Current])
    THEN [frame |-> Current, offset |-> o]
    ELSE [frame |-> Current + 1, offset |-> 0]

(* Where the reader is in the stream, field by field *)
Between ==
  /\ pos = [frame |-> Current, offset |-> 0]
  /\ need = 0
  /\ field = "eof" => closed /\ Len(out) = Len(sent)

InLength ==
  /\ need \in 0..4
  /\ at = from
  /\ need < 4 => Current <= Len(sent)
  /\ pos = [frame |-> Current, offset |-> 4 - need]

Body == {"src", "dst", "operationLength", "operation", "type"}

(* The field's size, and the offset in the frame at which it ends *)
FieldSize ==
  CASE field \in {"src", "dst"} -> 16
    [] field = "operationLength" -> 2
    [] field = "operation" -> sent[Current].operation
    [] field = "type" -> sent[Current].type

FieldEnd ==
  CASE field = "src" -> 20
    [] field = "dst" -> 36
    [] field = "operationLength" -> 38
    [] field = "operation" -> 38 + sent[Current].operation
    [] field = "type" -> WireSize(sent[Current])

InBody ==
  /\ Current <= Len(sent)
  /\ length = LengthOf(sent[Current])
  /\ need \in 0..FieldSize
  /\ at = [frame |-> Current, offset |-> FieldEnd - FieldSize]
  /\ pos = InFrame(FieldEnd - need)
  /\ field \in {"operation", "type"} => operationLength = sent[Current].operation
  /\ field = "type" => sent[Current].type > 0

InSync ==
  /\ field \in {"return", "eof"} => Between
  /\ field \notin {"return", "eof"} => from = [frame |-> Current, offset |-> 0]
  /\ field = "length" => InLength
  /\ field \in Body => InBody

Returned ==
  /\ Len(out) <= Len(sent)
  /\ \A i \in 1..Len(out) :
       out[i] = [from |-> [frame |-> i, offset |-> 0],
                 to |-> [frame |-> i + 1, offset |-> 0],
                 operation |-> sent[i].operation, type |-> sent[i].type]

SyncType ==
  /\ sent \in Seq(Frames)
  /\ out \in Seq([from : Place, to : Place, operation : Nat, type : Nat])
  /\ field \in {"length", "src", "dst", "operationLength", "operation", "type",
                "return", "eof"}
  /\ at \in Place
  /\ from \in Place
  /\ pos \in Place
  /\ need \in Nat
  /\ closed \in BOOLEAN

(* FramesInOrder made inductive: which byte of which frame the reader      *)
(* stands at in which field, as long as no deadline has cut a frame.       *)
SyncInv == SyncType /\ InSync /\ Returned

InSyncUntilCut == cut \/ SyncInv

-----------------------------------------------------------------------------
(* Until a deadline passes in the middle of a frame, each message returned *)
(* is one frame of the stream, from its first byte to its last and cut     *)
(* where the peer cut it, in order and without a gap, however the network  *)
(* splits the bytes and however many calls time out in between.            *)
FramesInOrder ==
  ~cut =>
    /\ Len(out) <= Len(sent)
    /\ \A i \in 1..Len(out) :
         out[i] = [from |-> [frame |-> i, offset |-> 0],
                   to |-> [frame |-> i + 1, offset |-> 0],
                   operation |-> sent[i].operation, type |-> sent[i].type]

(* Until then no call asks for more than a frame may hold: the unsigned    *)
(* difference that is the type's length never wraps.                       *)
NeedBounded == ~cut => need <= MaxLength

(* When the loop ends on EOF, and no deadline has cut a frame, every frame *)
(* that the peer wrote before it closed has been returned, the last one    *)
(* included.                                                               *)
NothingLeftBehind == field = "eof" /\ ~cut => Len(out) = Len(sent)

(* However a deadline cuts the calls, and whatever they then take for a    *)
(* length, the loop sees that the peer has closed.                         *)
CloseIsSeen == closed ~> field = "eof"
=============================================================================
