------------------------------ MODULE MCSsovLink ------------------------------
(***************************************************************************)
(* SSOV messages for TLC. The service id has two different bytes, and one  *)
(* of the foreign services is its mirror image. The foreign packages have  *)
(* one to three fields, of other PSIDs, other services and types, in       *)
(* several orders.                                                         *)
(***************************************************************************)
EXTENDS SsovLink

MCPositions == {"here"}
MCSeqMod == 5
MCCntMod == 3

MCService == <<{0, 2}, {1}>>
MCLvType == {0}
MCFvType == {1}

(* A field of other equipment.                                             *)
MCField(psid, s, t) ==
  [ssov |-> psid, service |-> s, type |-> t, crc |-> {},
   data |-> [eServiceId |-> SsovHeader(s), number |-> {}, type |-> t]]

MCForeign == {
  <<MCField(FALSE, MCService, MCLvType), MCField(TRUE, MCService, MCLvType)>>,
  <<MCField(TRUE, BE(MCService), MCFvType)>>,
  <<MCField(TRUE, MCService, {0, 1}), MCField(TRUE, <<{}, {}>>, MCLvType),
    MCField(TRUE, MCService, MCFvType)>> }

(* The check value catalogues of CRCs give for CRC-32: of the nine digits  *)
(* "123456789" it is CBF43926. The standard's steps, as CrcReflected has   *)
(* them, in one function.                                                  *)
Bit(r) == IF 0 \in r THEN Standard!Xor(Standard!ShiftRight(r),
                                        Standard!ReversedPoly)
                     ELSE Standard!ShiftRight(r)

RegAfter[k \in 0 .. 72] ==
  IF k = 0 THEN Standard!Ones
  ELSE LET r == RegAfter[k - 1]
       IN  Bit(IF k % 8 # 1 THEN r
               ELSE Standard!Xor(r, LowByte(49 + k \div 8)))

ASSUME CheckValue ==
  Standard!Not(RegAfter[72]) =
    {k \in 0 .. 31 : IF k < 16 THEN (14630 \div 2^k) % 2 = 1
                               ELSE (52212 \div 2^(k - 16)) % 2 = 1}
=============================================================================
