-------------------------------- MODULE Rpdo --------------------------------
(***************************************************************************)
(* pkg/comfoconnect/rpdo.go: the number that the metrics show for the      *)
(* bytes of a measurement (a CnRpdoNotification), and the table of         *)
(* cmd/client/client.go with the type that each sensor is asked for.       *)
(*                                                                         *)
(* A sensor is known by its number (ppid or pdid).  Its description, the   *)
(* second label of the metric, is a function of the number and left out.   *)
(***************************************************************************)
EXTENDS Integers, Sequences

Byte == 0..255

-----------------------------------------------------------------------------
(* The converters: RpdoType0 to RpdoType6, by the number in their name.    *)
(* A converter that reads past the end of the bytes panics; binary.Read,   *)
(* which RpdoType6 uses, reports an error instead and leaves a zero.       *)

ShortFor(type, data) ==
  CASE type = 1 -> Len(data) < 1
    [] type = 2 -> Len(data) < 2
    [] type = 3 -> Len(data) < 4
    [] OTHER    -> FALSE

(* RpdoType0 tells a missing slice from one that is there, and protobuf    *)
(* insists on the field: whatever the bytes are, they are there.           *)
Type0(data) == 1

(* Mutant: the second byte is the low one. *)
Type1BigEndian(data) ==
  IF Len(data) > 1 THEN data[1] * 256 + data[2] ELSE data[1]

(* The first byte is the low one; a third is not looked at. *)
Type1(data) == data[1] + (IF Len(data) > 1 THEN data[2] * 256 ELSE 0)

(* binary.BigEndian: the first byte is the high one. *)
Type2(data) == data[1] * 256 + data[2]

Type3(data) == (Type2(data) * 256 + data[3]) * 256 + data[4]

ToInt16(n) == IF n < 32768 THEN n ELSE n - 65536

Type6(data) == IF Len(data) < 2 THEN 0 ELSE ToInt16(Type2(data))

Tofloat64(type, data) ==
  CASE type = 0 -> Type0(data)
    [] type = 1 -> Type1(data)
    [] type = 2 -> Type2(data)
    [] type = 3 -> Type3(data)
    [] type = 6 -> Type6(data)

-----------------------------------------------------------------------------
(* NewPpid: the converter of a sensor.  No sensor has RpdoType2. *)

Countdowns == {81, 82, 85, 86, 87, 89, 90}

SignedSensors == {278, 416, 417}

PresenceSensors == {402, 419, 785}

NewPpid(ppid) ==
  CASE ppid \in Countdowns      -> 3
    [] ppid \in SignedSensors   -> 6
    [] ppid \in PresenceSensors -> 0
    [] OTHER                    -> 1

-----------------------------------------------------------------------------
(* main of cmd/client: the sensors it asks for, by type *)

AskedFor ==
  [type \in {0, 1, 2, 3, 6, 8} |->
     CASE type = 0 -> {210, 211, 386, 402, 419}
       [] type = 1 -> {16, 33, 37, 42, 49, 53} \cup 56..58 \cup 65..67
                      \cup {70, 71, 73, 74, 117, 118, 176, 208, 224, 225, 227, 228}
                      \cup 290..292 \cup {294} \cup 369..372 \cup {401, 418, 784}
       [] type = 2 -> 119..122 \cup 128..130 \cup 144..146 \cup {192}
                      \cup 213..219 \cup {226, 321, 325, 330}
       [] type = 3 -> Countdowns \cup {337, 338, 341, 345, 346}
       [] type = 6 -> {209, 212, 220, 221, 274, 275, 278, 384, 400, 416, 417, 802}
       [] type = 8 -> {230}]

-----------------------------------------------------------------------------
(* The unit (outside the code): how it writes a value of a type that has   *)
(* one byte (1) or two (2 without, 6 with a sign), the low byte first.     *)

LowFirst(n) == <<n % 256, n \div 256>>

Fits(type, value) ==
  CASE type = 1 -> 0 <= value /\ value < 256
    [] type = 2 -> 0 <= value /\ value < 65536
    [] type = 6 -> -32768 <= value /\ value < 32768

Measured(type, value) ==
  CASE type = 1 -> <<value>>
    [] type = 2 -> LowFirst(value)
    [] type = 6 -> LowFirst(value % 65536)
=============================================================================
