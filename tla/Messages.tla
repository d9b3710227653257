------------------------------ MODULE Messages ------------------------------
(***************************************************************************)
(* The messages of the ComfoConnect LAN protocol, as far as the bridge     *)
(* tells them apart (pkg/comfoconnect/comfoconnect.go).                    *)
(*                                                                         *)
(* A message is a record.  Its payload (the reference number and the       *)
(* protobuf body) is abstracted to its origin: the n-th message written by *)
(* actor `app'.  Its sixteen-byte source and destination are abstracted to *)
(* the identity of the actor they name; a connection stands for the uuid   *)
(* of the app at its other end.                                            *)
(***************************************************************************)
EXTENDS Integers, Sequences

CONSTANTS
  Conns,    \* the TCP connections apps open, named by their remote address
  Self,     \* the proxy's own uuid, and the origin of the messages it writes
  NoUuid    \* a nil uuid: zero bytes on the wire, where sixteen belong

ASSUME ActorsAssumption == Self \notin Conns /\ NoUuid \notin Conns \cup {Self}

Actors == Conns \cup {Self}

Uuids == Actors \cup {NoUuid}

(* GatewayOperation.OperationType *)
Kinds ==
  { "NoOperation", "SetAddressRequest", "RegisterAppRequest", "StartSessionRequest",
    "CloseSessionRequest", "ListRegisteredAppsRequest", "DeregisterAppRequest",
    "ChangePinRequest", "GetRemoteAccessIdRequest", "SetRemoteAccessIdRequest",
    "GetSupportIdRequest", "SetSupportIdRequest", "GetWebIdRequest",
    "SetWebIdRequest", "SetPushIdRequest", "DebugRequest", "UpgradeRequest",
    "SetDeviceSettingsRequest", "VersionRequest", "SetAddressConfirm",
    "RegisterAppConfirm", "StartSessionConfirm", "CloseSessionConfirm",
    "ListRegisteredAppsConfirm", "DeregisterAppConfirm", "ChangePinConfirm",
    "GetRemoteAccessIdConfirm", "SetRemoteAccessIdConfirm", "GetSupportIdConfirm",
    "SetSupportIdConfirm", "GetWebIdConfirm", "SetWebIdConfirm", "SetPushIdConfirm",
    "DebugConfirm", "UpgradeConfirm", "SetDeviceSettingsConfirm", "VersionConfirm",
    "GatewayNotification", "KeepAlive", "FactoryReset", "CnTimeRequest",
    "CnTimeConfirm", "CnNodeRequest", "CnNodeNotification", "CnRmiRequest",
    "CnRmiResponse", "CnRmiAsyncRequest", "CnRmiAsyncConfirm", "CnRmiAsyncResponse",
    "CnRpdoRequest", "CnRpdoConfirm", "CnRpdoNotification", "CnAlarmNotification",
    "CnFupReadRegisterRequest", "CnFupReadRegisterConfirm",
    "CnFupProgramBeginRequest", "CnFupProgramBeginConfirm", "CnFupProgramRequest",
    "CnFupProgramConfirm", "CnFupProgramEndRequest", "CnFupProgramEndConfirm",
    "CnFupReadRequest", "CnFupReadConfirm", "CnFupResetRequest", "CnFupResetConfirm" }

(* GetStructForType: the struct of a type has the type's name.  The zero   *)
(* value of the enumeration has none.                                      *)
GetStructForType(kind) == IF kind \in Kinds \ {"NoOperation"} THEN kind ELSE "nil"

-----------------------------------------------------------------------------
(* getResponseTypeForOperationType: the response type of each request      *)
(* type, the zero value of the enumeration for a type without one.         *)

ResponseTypeFor(kind) ==
  CASE kind = "SetAddressRequest"         -> "SetAddressConfirm"
    [] kind = "RegisterAppRequest"        -> "RegisterAppConfirm"
    [] kind = "StartSessionRequest"       -> "StartSessionConfirm"
    [] kind = "CloseSessionRequest"       -> "CloseSessionConfirm"
    [] kind = "ListRegisteredAppsRequest" -> "ListRegisteredAppsConfirm"
    [] kind = "DeregisterAppRequest"      -> "SetAddressConfirm"
    [] kind = "ChangePinRequest"          -> "ChangePinConfirm"
    [] kind = "GetRemoteAccessIdRequest"  -> "GetRemoteAccessIdConfirm"
    [] kind = "SetRemoteAccessIdRequest"  -> "SetRemoteAccessIdConfirm"
    [] kind = "GetSupportIdRequest"       -> "GetSupportIdConfirm"
    [] kind = "GetWebIdRequest"           -> "GetWebIdConfirm"
    [] kind = "SetWebIdRequest"           -> "SetWebIdConfirm"
    [] kind = "SetPushIdRequest"          -> "SetPushIdConfirm"
    [] kind = "DebugRequest"              -> "DebugConfirm"
    [] kind = "UpgradeRequest"            -> "UpgradeConfirm"
    [] kind = "SetDeviceSettingsRequest"  -> "SetDeviceSettingsConfirm"
    [] kind = "VersionRequest"            -> "VersionConfirm"
    [] kind = "CnTimeRequest"             -> "CnTimeConfirm"
    [] kind = "CnRmiRequest"              -> "CnRmiResponse"
    [] kind = "CnRmiAsyncRequest"         -> "CnRmiAsyncConfirm"
    [] kind = "CnRpdoRequest"             -> "CnRpdoConfirm"
    [] kind = "CnFupReadRegisterRequest"  -> "CnFupReadRegisterConfirm"
    [] kind = "CnFupProgramBeginRequest"  -> "CnFupProgramBeginConfirm"
    [] kind = "CnFupProgramRequest"       -> "CnFupProgramConfirm"
    [] kind = "CnFupProgramEndRequest"    -> "CnFupProgramEndConfirm"
    [] kind = "CnFupReadRequest"          -> "CnFupReadConfirm"
    [] kind = "CnFupResetRequest"         -> "CnFupResetConfirm"
    [] OTHER -> "NoOperation"

-----------------------------------------------------------------------------
(* What an app writes to the proxy and the proxy to the gateway. *)
Request == [app : Actors, n : Nat, kind : Kinds, src : Uuids]

(* What the gateway writes: its seq-th frame, answering request n of actor *)
(* app, or a notification (app = Self, n = 0).                             *)
GatewayFrame == [seq : Nat, kind : Kinds, app : Actors, n : Nat]

(* What the proxy writes to an app: a copy of the gateway's frame seq, or, *)
(* with seq = 0, an answer of its own.                                     *)
AppFrame == [seq : Nat, kind : Kinds, app : Actors, n : Nat, dst : Uuids]

(* Mutant: the answer loses the request's reference number. *)
CreateResponseWithoutReference(m) ==
  [seq |-> 0, kind |-> ResponseTypeFor(m.kind), app |-> m.app, n |-> 0, dst |-> m.src]

(* CreateResponse and CreateCustomResponse keep the request's reference    *)
(* number.  CreateResponse swaps source and destination, so that the       *)
(* answer is addressed to the app; CreateCustomResponse does not swap, so  *)
(* that the notifications it makes are addressed to whatever the request   *)
(* was addressed to, the proxy.                                            *)
CreateResponse(m) ==
  [seq |-> 0, kind |-> ResponseTypeFor(m.kind), app |-> m.app, n |-> m.n, dst |-> m.src]

CreateCustomResponse(m, kind) ==
  [seq |-> 0, kind |-> kind, app |-> m.app, n |-> m.n, dst |-> Self]

(* Mutant: the app's own uuid is left in place. *)
MasqueradeNothing(m) == m

(* Message.Src and Message.Dst overwritten on the way to the gateway, and  *)
(* Message.Dst on the way to an app (an app ignores who sent it).          *)
Masquerade(m) == [m EXCEPT !.src = Self]

AddressTo(f, uuid) ==
  [seq |-> f.seq, kind |-> f.kind, app |-> f.app, n |-> f.n, dst |-> uuid]

(* packMessage: the length in the header counts two uuids of sixteen bytes *)
(* and the two bytes of the operation's length, besides the bodies (left   *)
(* out here); what follows the header holds the uuids as they are.         *)
HeaderLength == 34

WireLength(dst) == 16 + (IF dst = NoUuid THEN 0 ELSE 16) + 2
=============================================================================
