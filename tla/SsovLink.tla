------------------------------- MODULE SsovLink -------------------------------
(***************************************************************************)
(* An SSOV message from tx_base_message of one vehicle to on_rx_msg_ext of *)
(* another: the message is built, framed by build_ssov_header, followed by *)
(* its CRC and handed to the device; over there the library hands over a   *)
(* vector of fields, of which rx_platooning_message gets those with the    *)
(* SSOV PSID, in whose buffers it converts the service id in place.        *)
(*                                                                         *)
(* A number of the host, a little-endian machine, is the sequence of its   *)
(* bytes in memory, the least first; a byte is the set of its ones. Of the *)
(* SSOV header a frame keeps eServiceId, the field a receiver looks at, of *)
(* the payload the low byte of unSeqNum and eDbV2XPtType.                  *)
(***************************************************************************)
EXTENDS PlatooningService, Crc32

CONSTANTS Service,   \* DB_V2X_SERVICE_ID_PLATOONING, a uint16_t: two bytes
          LvType,    \* eDB_V2X_PT_TYPE_LV and
          FvType,    \* eDB_V2X_PT_TYPE_FV, each a byte
          Foreign    \* packages other equipment puts on the air

VARIABLES tpc,      \* where the worker is in tx_base_message
          air,      \* the last package on the air, a sequence of fields
          package,  \* history: what a receiver was handed, as it was sent
          msg,      \* the vector of fields on_rx_msg_ext is given
          at,       \* the field it is at; 0 when it is not running
          outcome   \* history: what became of the field before that

rxVars == <<package, msg, at, outcome>>
linkVars == <<svars, tpc, cvars, air, rxVars>>

-----------------------------------------------------------------------------
(* BE<T>(v).value: htobe16, htobe32.                                       *)
BE(n) == [k \in 1 .. Len(n) |-> n[Len(n) + 1 - k]]

(* A uint16_t stored in a 32-bit field.                                    *)
Widen(n) == <<n[1], n[2], {}, {}>>

(* A uint32_t shifted right by 16.                                         *)
ShiftRight16(n) == <<n[3], n[4], {}, {}>>

(* The lowest byte of a number.                                            *)
LowByte(n) == {k \in 0 .. 7 : (n \div 2^k) % 2 = 1}

(* build_ssov_header: the eServiceId of a vehicle whose service is s.      *)
SsovHeader(s) == Widen(BE(s))

(* The frame of message m, ...                                             *)
Frame(m) == [eServiceId |-> SsovHeader(Service),
             number |-> LowByte(m.seq), type |-> FvType]

(* ... and the bytes of a frame.                                           *)
Bytes(f) == f.eServiceId \o <<f.number, f.type>>

(* Mutant of Converted: the low half of the number is kept.                *)
ConvertedLowHalf(f) == [f EXCEPT !.eServiceId = Widen(BE(@))]

(* rx_platooning_message: the frame once eServiceId is converted in it.    *)
Converted(f) == [f EXCEPT !.eServiceId = ShiftRight16(BE(@))]

HostService == {<<lo, hi>> : lo \in Byte, hi \in Byte}

(* A v2x_message_field_t. Beside its data and CRC, what its sender meant.  *)
Field == [ssov : BOOLEAN,   \* psid == EM_PT_SSOV
          service : HostService,
          type : Byte,
          data : [eServiceId : [1 .. 4 -> Byte], number : Byte, type : Byte],
          crc : Word]

(* Assumed of other equipment: it frames its SSOV fields with the header   *)
(* above, in full length. rx_platooning_message never looks at the length  *)
(* of what it reads; fields too short for a header are not modelled.       *)
Framed(field) ==
  field.data.eServiceId = SsovHeader(field.service) /\ field.data.type = field.type

Package == {p \in Seq(Field) : \A n \in 1 .. Len(p) : p[n].ssov => Framed(p[n])}

ASSUME LinkAssumption ==
  /\ Service \in HostService
  /\ FvType \in Byte
  /\ Foreign \subseteq Package

-----------------------------------------------------------------------------
LinkInit ==
  /\ Init
  /\ tpc = "idle"
  /\ CrcInit
  /\ air = <<>> /\ package = <<>> /\ msg = <<>>
  /\ at = 0
  /\ outcome = "none"

(* What the worker does when it is not sending: set_position, and the      *)
(* calls of tx_base_message that fail before there is anything to send.    *)
WorkerOther ==
  /\ tpc = "idle"
  /\ TxLv \/ TxUnavailable \/ \E p \in Positions : SetPosition(p)
  /\ UNCHANGED <<tpc, cvars, air, rxVars>>

(* tx_base_message builds message and frame and calls CLI_UTIL_GetCrc32.   *)
TxStart ==
  /\ tpc = "idle" /\ tpc' = "crc"
  /\ roll_type = "FV"
  /\ Call(Bytes(Frame(BuildFvMsg)))
  /\ UNCHANGED <<svars, air, rxVars>>

(* The loops of CLI_UTIL_GetCrc32.                                         *)
TxCrc ==
  /\ tpc = "crc"
  /\ NextByte \/ NextBit
  /\ UNCHANGED <<svars, tpc, air, rxVars>>

(* The CRC is appended and the request made. The numbers, which only this  *)
(* thread touches, are taken here, with the step of PlatooningService.     *)
TxEnd(code) ==
  /\ tpc = "crc" /\ tpc' = "idle"
  /\ Done
  /\ TxRequest(code)
  /\ air' = IF code > 0
            THEN <<[ssov |-> TRUE, service |-> Service, type |-> FvType,
                    data |-> Frame(BuildFvMsg), crc |-> Crc]>>
            ELSE air
  /\ UNCHANGED <<cvars, rxVars>>

(* The library of a receiver calls on_rx_msg_ext, any number of times, in  *)
(* as many cars, or never, with buffers of its own.                        *)
RxCall ==
  /\ at = 0 /\ at' = 1
  /\ package' \in Foreign \cup {air}
  /\ msg' = package'
  /\ UNCHANGED <<svars, tpc, cvars, air, outcome>>

(* Of on_rx_msg_ext's loop: a field with another PSID.                     *)
RxOther ==
  /\ at \in 1 .. Len(msg) /\ ~msg[at].ssov
  /\ outcome' = "ignored"
  /\ at' = at + 1
  /\ UNCHANGED <<svars, tpc, cvars, air, package, msg>>

(* rx_platooning_message: the service id is converted in place and tested; *)
(* then the type decides.                                                  *)
RxPlatooning ==
  /\ at \in 1 .. Len(msg) /\ msg[at].ssov
  /\ LET ssov == Converted(msg[at].data)
     IN  /\ msg' = [msg EXCEPT ![at].data = ssov]
         /\ outcome' = IF ssov.eServiceId # Widen(Service) THEN "rejected"
                       ELSE IF ssov.type = LvType THEN "LV"
                       ELSE IF ssov.type = FvType THEN "FV" ELSE "neither"
  /\ at' = at + 1
  /\ UNCHANGED <<svars, tpc, cvars, air, package>>

RxReturn ==
  /\ at = Len(msg) + 1
  /\ at' = 0
  /\ package' = <<>> /\ msg' = <<>> /\ outcome' = "none"
  /\ UNCHANGED <<svars, tpc, cvars, air>>

LinkNext ==
  \/ WorkerOther \/ TxStart \/ TxCrc
  \/ \E code \in TxCodes : TxEnd(code)
  \/ RxCall \/ RxOther \/ RxPlatooning \/ RxReturn

LinkSpec == LinkInit /\ [][LinkNext]_linkVars

-----------------------------------------------------------------------------
(* What the sender of a field meant to be done with it.                    *)
Meant(field) ==
  IF ~field.ssov THEN "ignored"
  ELSE IF field.service # Service THEN "rejected"
  ELSE IF field.type = LvType THEN "LV"
  ELSE IF field.type = FvType THEN "FV" ELSE "neither"

(* Whatever shares a package or the channel with it, a field is dispatched *)
(* as its sender meant it: the byte order build_ssov_header gives the id   *)
(* (platooning_service.cpp:363), a 16-bit conversion in a 32-bit field, is *)
(* the one rx_platooning_message undoes with a 32-bit conversion and a     *)
(* shift (:135), and no other service's id is mistaken for it, although    *)
(* the conversion overwrites the buffers the loop of on_rx_msg_ext is in.  *)
DispatchTruth ==
  [][ at' # at /\ at \in 1 .. Len(package)
      => outcome' = Meant(package[at]) ]_linkVars

=============================================================================
