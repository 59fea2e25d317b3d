---------------------------- MODULE SsovLinkProofs ----------------------------
(***************************************************************************)
(* Proofs about an SSOV message on its way from vehicle to vehicle. First  *)
(* about its CRC: CLI_UTIL_GetCrc32 computes the CRC-32 of IEEE 802.3 for  *)
(* every buffer. P_CLI_UTIL_ReverseUint32 is a mirror, a mirror exchanges  *)
(* the shift to the left for the one to the right and the polynomial for   *)
(* the reversed one, and so every step of the loop is one of the standard. *)
(*                                                                         *)
(* Then about the link: what is proved of platooning_service and of the    *)
(* CRC holds of them in it, and for every service id, every foreign        *)
(* package and every order of steps a field is dispatched as its sender    *)
(* meant it.                                                               *)
(***************************************************************************)
EXTENDS SsovLink, PlatooningServiceProofs

(* The lookup table mirrors four bits, ...                                 *)
LEMMA Reverse4Mirrors ==
  ASSUME NEW x
  PROVE  /\ 0 \in Reverse4(x) <=> 3 \in x
         /\ 1 \in Reverse4(x) <=> 2 \in x
         /\ 2 \in Reverse4(x) <=> 1 \in x
         /\ 3 \in Reverse4(x) <=> 0 \in x
         /\ Reverse4(x) \subseteq 0 .. 3
BY DEF Reverse4, Nibble, Number, Table, Weight

(* ... the two halves exchanged make the mirror image of a byte, ...       *)
LEMMA ReverseByteMirrors ==
  ASSUME NEW b \in Byte
  PROVE  /\ ReverseByte(b) \in Byte
         /\ \A k \in 0 .. 7 : k \in ReverseByte(b) <=> 7 - k \in b
<1>1. ReverseByte(b) \in Byte
  <2>1. Reverse4(Low(b)) \subseteq 0 .. 3 /\ Reverse4(High(b)) \subseteq 0 .. 3
    BY Reverse4Mirrors
  <2> QED  BY <2>1 DEF ReverseByte, Byte
<1>2. ASSUME NEW k \in 0 .. 3
      PROVE  k \in ReverseByte(b) <=> 7 - k \in b
  <2>1. k \in ReverseByte(b) <=> k \in Reverse4(High(b))
    BY Reverse4Mirrors DEF ReverseByte
  <2>2. \A n \in 0 .. 3 : n \in High(b) <=> n + 4 \in b
    BY DEF High, Byte
  <2>3. k \in Reverse4(High(b)) <=> 3 - k \in High(b)
    BY Reverse4Mirrors
  <2> QED  BY <2>1, <2>2, <2>3
<1>3. ASSUME NEW k \in 4 .. 7
      PROVE  k \in ReverseByte(b) <=> 7 - k \in b
  <2>1. k \in ReverseByte(b) <=> k - 4 \in Reverse4(Low(b))
    BY Reverse4Mirrors DEF ReverseByte
  <2>2. \A n \in 0 .. 3 : n \in Low(b) <=> n \in b
    BY DEF Low
  <2>3. k - 4 \in Reverse4(Low(b)) <=> 3 - (k - 4) \in Low(b)
    BY Reverse4Mirrors
  <2> QED  BY <2>1, <2>2, <2>3
<1> QED  BY <1>1, <1>2, <1>3

(* ... and the four bytes exchanged that of a word.                        *)
LEMMA ReverseUint32Mirrors ==
  ASSUME NEW x \in Word
  PROVE  /\ ReverseUint32(x) \in Word
         /\ \A k \in 0 .. 31 : k \in ReverseUint32(x) <=> 31 - k \in x
<1> DEFINE Part(m) == {k + 8 * (3 - m) : k \in ReverseByte(ByteOf(x, m))}
<1>1. ASSUME NEW m \in 0 .. 3
      PROVE  /\ ReverseByte(ByteOf(x, m)) \in Byte
             /\ \A k \in 0 .. 7 : k \in ReverseByte(ByteOf(x, m))
                                  <=> 7 - k + 8 * m \in x
  <2>1. ByteOf(x, m) \in Byte
    BY DEF ByteOf, Byte
  <2> QED  BY <2>1, ReverseByteMirrors DEF ByteOf
<1>2. ASSUME NEW m \in 0 .. 3, NEW k \in 0 .. 31
      PROVE  k \in Part(m) <=> k - 8 * (3 - m) \in 0 .. 7 /\ 31 - k \in x
  <2>1. k \in Part(m) <=> k - 8 * (3 - m) \in ReverseByte(ByteOf(x, m))
    BY <1>1 DEF Byte
  <2>2. k - 8 * (3 - m) \in 0 .. 7
        => (k - 8 * (3 - m) \in ReverseByte(ByteOf(x, m)) <=> 31 - k \in x)
    <3> SUFFICES ASSUME k - 8 * (3 - m) \in 0 .. 7
                 PROVE  k - 8 * (3 - m) \in ReverseByte(ByteOf(x, m))
                        <=> 31 - k \in x
      OBVIOUS
    <3>1. 7 - (k - 8 * (3 - m)) + 8 * m = 31 - k
      OBVIOUS
    <3> QED  BY <1>1, <3>1
  <2> QED  BY <1>1, <2>1, <2>2 DEF Byte
<1>3. ReverseUint32(x) = Part(0) \cup Part(1) \cup Part(2) \cup Part(3)
  BY DEF ReverseUint32
<1>4. \A m \in 0 .. 3 : Part(m) \subseteq 0 .. 31
  BY <1>1 DEF Byte
<1> HIDE DEF Part
<1>5. ReverseUint32(x) \in Word
  BY <1>3, <1>4 DEF Word
<1>6. \A k \in 0 .. 31 : k \in ReverseUint32(x) <=> 31 - k \in x
  BY <1>2, <1>3
<1> QED  BY <1>5, <1>6

-----------------------------------------------------------------------------
(* Two words with the same bits are the same word.                         *)
LEMMA SameBits ==
  ASSUME NEW x \in Word, NEW y \in Word,
         \A k \in 0 .. 31 : k \in x <=> k \in y
  PROVE  x = y
BY Zenon DEF Word

(* The mirror image of the initial register is that register.              *)
LEMMA MirrorOnes == ReverseUint32(Ones) = Ones
<1>1. Ones \in Word
  BY DEF Ones, Word
<1>2. \A k \in 0 .. 31 : k \in ReverseUint32(Ones) <=> k \in Ones
  BY <1>1, ReverseUint32Mirrors DEF Ones
<1> QED  BY <1>1, <1>2, ReverseUint32Mirrors, SameBits

(* Mirror images of exclusive ors, ...                                     *)
LEMMA MirrorXor ==
  ASSUME NEW x \in Word, NEW y \in Word
  PROVE  /\ Xor(x, y) \in Word
         /\ ReverseUint32(Xor(x, y))
              = Standard!Xor(ReverseUint32(x), ReverseUint32(y))
<1>1. Xor(x, y) \in Word
  BY DEF Xor, Word
<1>2. Standard!Xor(ReverseUint32(x), ReverseUint32(y)) \in Word
  BY ReverseUint32Mirrors DEF Standard!Xor, Word
<1>3. ASSUME NEW k \in 0 .. 31
      PROVE  k \in ReverseUint32(Xor(x, y))
             <=> k \in Standard!Xor(ReverseUint32(x), ReverseUint32(y))
  BY <1>1, ReverseUint32Mirrors DEF Xor, Standard!Xor
<1> QED  BY <1>1, <1>2, <1>3, ReverseUint32Mirrors, SameBits

(* ... complements, ...                                                    *)
LEMMA MirrorNot ==
  ASSUME NEW x \in Word
  PROVE  ReverseUint32(Not(x)) = Standard!Not(ReverseUint32(x))
<1>1. Not(x) \in Word
  BY DEF Not, Ones, Word
<1>2. Standard!Not(ReverseUint32(x)) \in Word
  BY DEF Standard!Not, Standard!Ones, Word
<1>3. ASSUME NEW k \in 0 .. 31
      PROVE  k \in ReverseUint32(Not(x)) <=> k \in Standard!Not(ReverseUint32(x))
  BY <1>1, ReverseUint32Mirrors DEF Not, Ones, Standard!Not, Standard!Ones
<1> QED  BY <1>1, <1>2, <1>3, ReverseUint32Mirrors, SameBits

(* ... shifts, ...                                                         *)
LEMMA MirrorShift ==
  ASSUME NEW x \in Word
  PROVE  /\ ShiftLeft(x) \in Word
         /\ ReverseUint32(ShiftLeft(x)) = Standard!ShiftRight(ReverseUint32(x))
<1>1. ShiftLeft(x) \in Word
  BY DEF ShiftLeft, Word
<1>2. ReverseUint32(x) \in Word
  BY ReverseUint32Mirrors
<1>3. Standard!ShiftRight(ReverseUint32(x)) \in Word
  BY <1>2 DEF Standard!ShiftRight, Word
<1>4. ASSUME NEW k \in 0 .. 31
      PROVE  k \in ReverseUint32(ShiftLeft(x))
             <=> k \in Standard!ShiftRight(ReverseUint32(x))
  <2>1. k \in ReverseUint32(ShiftLeft(x)) <=> 31 - k \in ShiftLeft(x)
    BY <1>1, ReverseUint32Mirrors
  <2>2. 31 - k \in ShiftLeft(x) <=> 30 - k \in x
    BY DEF ShiftLeft, Word
  <2>3. k \in Standard!ShiftRight(ReverseUint32(x)) <=> k + 1 \in ReverseUint32(x)
    BY <1>2 DEF Standard!ShiftRight, Word
  <2>4. CASE k < 31
    BY <2>1, <2>2, <2>3, <2>4, ReverseUint32Mirrors
  <2>5. CASE k = 31
    <3>1. 30 - k \notin x /\ k + 1 \notin ReverseUint32(x)
      BY <1>2, <2>5 DEF Word
    <3> QED  BY <2>1, <2>2, <2>3, <3>1
  <2> QED  BY <2>4, <2>5
<1> QED  BY <1>1, <1>3, <1>4, ReverseUint32Mirrors, SameBits

(* ... of the polynomial, ...                                              *)
LEMMA MirrorPoly == Poly \in Word /\ ReverseUint32(Poly) = Standard!ReversedPoly
<1>1. Poly \in Word
  BY DEF Poly, Word
<1>2. Standard!ReversedPoly \in Word
  BY DEF Standard!ReversedPoly, Word
<1>3. ASSUME NEW k \in 0 .. 31
      PROVE  k \in ReverseUint32(Poly) <=> k \in Standard!ReversedPoly
  BY <1>1, ReverseUint32Mirrors DEF Poly, Standard!ReversedPoly
<1> QED  BY <1>1, <1>2, <1>3, ReverseUint32Mirrors, SameBits

(* ... and of the byte the code puts, reversed, at the high end.           *)
LEMMA MirrorByte ==
  ASSUME NEW b \in Byte
  PROVE  /\ {k + 24 : k \in ReverseByte(b)} \in Word
         /\ ReverseUint32({k + 24 : k \in ReverseByte(b)}) = b
<1> DEFINE High8 == {k + 24 : k \in ReverseByte(b)}
<1>1. High8 \in Word /\ b \in Word
  BY ReverseByteMirrors DEF Byte, Word
<1>2. ASSUME NEW k \in 0 .. 31
      PROVE  k \in ReverseUint32(High8) <=> k \in b
  <2>1. k \in ReverseUint32(High8) <=> 31 - k \in High8
    BY <1>1, ReverseUint32Mirrors
  <2>2. 31 - k \in High8 <=> 7 - k \in ReverseByte(b)
    BY ReverseByteMirrors DEF Byte
  <2>3. 7 - k \in ReverseByte(b) <=> k \in b
    BY ReverseByteMirrors DEF Byte
  <2> QED  BY <2>1, <2>2, <2>3
<1> HIDE DEF High8
<1>3. ReverseUint32(High8) = b
  BY <1>1, <1>2, ReverseUint32Mirrors, SameBits
<1> QED  BY <1>1, <1>3 DEF High8

-----------------------------------------------------------------------------
(* What the steps rely on: the register is a word, the buffer bytes.       *)
RegisterOK == unCrc \in Word /\ pBuf \in Seq(Byte) /\ i \in Nat

LEMMA RegisterStep ==
  ASSUME RegisterOK, [CrcNext]_cvars
  PROVE  RegisterOK'
<1>1. ASSUME NEW b \in Seq(Byte), Call(b)
      PROVE  RegisterOK'
  BY <1>1 DEF RegisterOK, Call, Ones, Word
<1>2. CASE NextByte
  <2>1. pBuf[i + 1] \in Byte
    BY <1>2 DEF RegisterOK, NextByte
  <2>2. unCrc' \in Word
    BY <1>2, <2>1, MirrorByte, MirrorXor DEF RegisterOK, NextByte
  <2> QED  BY <1>2, <2>2 DEF RegisterOK, NextByte
<1>3. CASE NextBit
  BY <1>3, MirrorShift, MirrorXor, MirrorPoly DEF RegisterOK, NextBit
<1>4. CASE UNCHANGED cvars
  BY <1>4 DEF RegisterOK, cvars
<1> QED  BY <1>1, <1>2, <1>3, <1>4 DEF CrcNext

LEMMA RegisterCorrect == CrcLoop => []RegisterOK
<1>1. CrcInit => RegisterOK
  BY DEF CrcInit, RegisterOK, Ones, Word
<1>2. RegisterOK /\ [CrcNext]_cvars => RegisterOK'
  BY RegisterStep
<1> QED  BY <1>1, <1>2, PTL DEF CrcLoop

(* A byte of the code is a byte of the standard.                           *)
LEMMA ByteStep ==
  ASSUME RegisterOK, NextByte
  PROVE  Standard!TakeByte
<1>1. pBuf[i + 1] \in Byte
  BY DEF RegisterOK, NextByte
<1>2. ReverseUint32(unCrc') = Standard!Xor(ReverseUint32(unCrc), pBuf[i + 1])
  BY <1>1, MirrorByte, MirrorXor DEF RegisterOK, NextByte
<1> QED  BY <1>2 DEF NextByte, Standard!TakeByte

(* A bit of the code is a bit of the standard.                             *)
LEMMA BitStep ==
  ASSUME RegisterOK, NextBit
  PROVE  Standard!TakeBit
<1>1. 31 \in unCrc <=> 0 \in ReverseUint32(unCrc)
  <2>1. \A k \in 0 .. 31 : k \in ReverseUint32(unCrc) <=> 31 - k \in unCrc
    BY ReverseUint32Mirrors DEF RegisterOK
  <2>2. 0 \in ReverseUint32(unCrc) <=> 31 - 0 \in unCrc
    BY <2>1
  <2> QED  BY <2>2
<1>2. ReverseUint32(unCrc') =
        IF 0 \in ReverseUint32(unCrc)
        THEN Standard!Xor(Standard!ShiftRight(ReverseUint32(unCrc)),
                          Standard!ReversedPoly)
        ELSE Standard!ShiftRight(ReverseUint32(unCrc))
  BY <1>1, MirrorShift, MirrorXor, MirrorPoly DEF RegisterOK, NextBit
<1> QED  BY <1>2 DEF NextBit, Standard!TakeBit

(* For all buffers, the loops of CLI_UTIL_GetCrc32 implement the standard  *)
(* algorithm for CRC-32.                                                   *)
THEOREM CrcRefinement == CrcLoop => CrcSpec
<1>1. CrcInit => Standard!Init
  BY MirrorOnes DEF CrcInit, Standard!Init, Ones, Standard!Ones
<1>2. RegisterOK /\ [CrcNext]_cvars
      => [Standard!Call \/ Standard!TakeByte \/ Standard!TakeBit]_(Standard!cvars)
  <2> SUFFICES ASSUME RegisterOK, [CrcNext]_cvars
               PROVE  \/ Standard!Call \/ Standard!TakeByte \/ Standard!TakeBit
                      \/ UNCHANGED Standard!cvars
    OBVIOUS
  <2>1. ASSUME NEW b \in Seq(Byte), Call(b)
        PROVE  Standard!Call
    BY <2>1, MirrorOnes
       DEF Call, Done, Standard!Call, Standard!Done, Standard!Byte, Byte,
           Ones, Standard!Ones
  <2>2. UNCHANGED cvars => UNCHANGED Standard!cvars
    BY DEF cvars, Standard!cvars
  <2> QED  BY <2>1, <2>2, ByteStep, BitStep DEF CrcNext
<1> QED  BY <1>1, <1>2, RegisterCorrect, PTL DEF CrcLoop, CrcSpec, Standard!Spec

(* For all buffers, what CLI_UTIL_GetCrc32 returns is the CRC-32.          *)
THEOREM CrcCorrect == CrcLoop => []CrcIsStandard
<1>1. RegisterOK => CrcIsStandard
  BY MirrorNot DEF RegisterOK, CrcIsStandard, Crc, Standard!Crc
<1> QED  BY <1>1, RegisterCorrect, PTL

-----------------------------------------------------------------------------
(* build_ssov_header puts the bytes of the id in the other order, ...      *)
LEMMA HeaderBytes ==
  ASSUME NEW lo \in Byte, NEW hi \in Byte
  PROVE  SsovHeader(<<lo, hi>>) = <<hi, lo, {}, {}>>
<1>1. /\ BE(<<lo, hi>>)[1] = hi
      /\ BE(<<lo, hi>>)[2] = lo
  BY DEF BE
<1> QED  BY <1>1 DEF SsovHeader, Widen

(* ... and the conversion in rx_platooning_message puts them back.         *)
LEMMA ConvertBytes ==
  ASSUME NEW a, NEW b, NEW c, NEW d
  PROVE  ShiftRight16(BE(<<a, b, c, d>>)) = <<b, a, {}, {}>>
<1>1. /\ BE(<<a, b, c, d>>)[3] = b
      /\ BE(<<a, b, c, d>>)[4] = a
  BY DEF BE
<1> QED  BY <1>1 DEF ShiftRight16

(* For every service id, what a receiver reads is what the sender wrote.   *)
THEOREM RoundTrip ==
  ASSUME NEW s \in HostService
  PROVE  ShiftRight16(BE(SsovHeader(s))) = Widen(s)
<1>1. PICK lo \in Byte, hi \in Byte : s = <<lo, hi>>
  BY DEF HostService
<1>2. ShiftRight16(BE(SsovHeader(s))) = <<lo, hi, {}, {}>>
  BY <1>1, HeaderBytes, ConvertBytes
<1> QED  BY <1>1, <1>2 DEF Widen

(* No service id is mistaken for another.                                  *)
LEMMA WidenInjective ==
  ASSUME NEW s \in HostService, NEW t \in HostService, Widen(s) = Widen(t)
  PROVE  s = t
<1>1. PICK lo \in Byte, hi \in Byte : s = <<lo, hi>>
  BY DEF HostService
<1>2. PICK lo2 \in Byte, hi2 \in Byte : t = <<lo2, hi2>>
  BY DEF HostService
<1>3. Widen(s)[1] = lo /\ Widen(s)[2] = hi
  BY <1>1 DEF Widen
<1>4. Widen(t)[1] = lo2 /\ Widen(t)[2] = hi2
  BY <1>2 DEF Widen
<1> QED  BY <1>1, <1>2, <1>3, <1>4

(* The conversion is in place, and no second one finds the id again unless *)
(* its two bytes are the same: a buffer rx_platooning_message has seen is  *)
(* lost for every other reader (platooning_service.cpp:135).               *)
THEOREM SecondParse ==
  ASSUME NEW lo \in Byte, NEW hi \in Byte, lo # hi
  PROVE  ShiftRight16(BE(ShiftRight16(BE(SsovHeader(<<lo, hi>>)))))
           # Widen(<<lo, hi>>)
<1>1. ShiftRight16(BE(SsovHeader(<<lo, hi>>))) = <<lo, hi, {}, {}>>
  BY HeaderBytes, ConvertBytes
<1>2. ShiftRight16(BE(<<lo, hi, {}, {}>>)) = <<hi, lo, {}, {}>>
  BY ConvertBytes
<1>3. Widen(<<lo, hi>>)[1] = lo
  BY DEF Widen
<1> QED  BY <1>1, <1>2, <1>3

-----------------------------------------------------------------------------
(* The two parts the link is composed of go on as they do alone.           *)
LEMMA LinkParts ==
  ASSUME LinkNext \/ UNCHANGED linkVars
  PROVE  [Next]_svars /\ (TxStart \/ [CrcNext]_cvars)
<1>1. CASE WorkerOther
  BY <1>1 DEF WorkerOther, Next, TxBaseMessage, TxCodes
<1>2. CASE TxStart
  BY <1>2 DEF TxStart
<1>3. CASE TxCrc
  BY <1>3 DEF TxCrc, CrcNext
<1>4. ASSUME NEW code \in TxCodes, TxEnd(code)
      PROVE  [Next]_svars /\ (TxStart \/ [CrcNext]_cvars)
  BY <1>4 DEF TxEnd, Next, TxBaseMessage
<1>5. CASE RxCall \/ RxOther \/ RxPlatooning \/ RxReturn
  BY <1>5 DEF RxCall, RxOther, RxPlatooning, RxReturn
<1>6. CASE UNCHANGED linkVars
  BY <1>6 DEF linkVars
<1> QED  BY <1>1, <1>2, <1>3, <1>4, <1>5, <1>6 DEF LinkNext

(* A message of platooning_service is six bytes.                           *)
LEMMA FrameBytes ==
  ASSUME NEW m
  PROVE  /\ SsovHeader(Service) \in [1 .. 4 -> Byte]
         /\ LowByte(m.seq) \in Byte
         /\ Bytes(Frame(m)) \in Seq(Byte)
<1>1. PICK lo \in Byte, hi \in Byte : Service = <<lo, hi>>
  BY LinkAssumption DEF HostService
<1>2. SsovHeader(Service) = <<hi, lo, {}, {}>>
  BY <1>1, HeaderBytes
<1>3. {} \in Byte
  BY DEF Byte
<1>4. SsovHeader(Service) \in Seq(Byte) /\ SsovHeader(Service) \in [1 .. 4 -> Byte]
  BY <1>2, <1>3
<1>5. LowByte(m.seq) \in Byte
  BY DEF LowByte, Byte
<1>6. <<LowByte(m.seq), FvType>> \in Seq(Byte)
  BY <1>5, LinkAssumption
<1> QED  BY <1>4, <1>5, <1>6 DEF Bytes, Frame

(* The link runs platooning_service, its numbers taken at the end of a     *)
(* call: all that is proved of that service holds of it here.              *)
THEOREM LinkIsService == LinkSpec => Spec
<1>1. LinkInit => Init
  BY DEF LinkInit
<1>2. [LinkNext]_linkVars => [Next]_svars
  BY LinkParts
<1> QED  BY <1>1, <1>2, PTL DEF LinkSpec, Spec

(* A receiver of the link, too, reads lost messages off the gaps in both   *)
(* counters, whatever happens between a message and its frame.             *)
THEOREM LinkGapsCorrect == LinkSpec => SeqGapCountsFailures /\ ContGapCountsFailures
BY LinkIsService, SeqGapCorrect, ContGapCorrect, PTL

(* The link runs CLI_UTIL_GetCrc32.                                        *)
LEMMA LinkIsCrcLoop == LinkSpec => CrcLoop
<1>1. LinkInit => CrcInit
  BY DEF LinkInit
<1>2. TxStart => CrcNext
  BY FrameBytes DEF TxStart, CrcNext
<1>3. [LinkNext]_linkVars => [CrcNext]_cvars
  BY <1>2, LinkParts
<1> QED  BY <1>1, <1>3, PTL DEF LinkSpec, CrcLoop

(* In the link, too, the CRC loops implement the standard's algorithm, ... *)
THEOREM LinkCrcCorrect == LinkSpec => CrcSpec
BY LinkIsCrcLoop, CrcRefinement, PTL

(* ... and what is appended to a frame is its CRC-32.                      *)
THEOREM LinkCrcIsStandard == LinkSpec => []CrcIsStandard
BY LinkIsCrcLoop, CrcCorrect, PTL

-----------------------------------------------------------------------------
(* What is on the air and what a receiver was handed is framed, by this    *)
(* vehicle because of Frame and by others as LinkAssumption has it; the    *)
(* receiver's vector keeps its fields while ids are converted in place.    *)
LinkType ==
  /\ tpc \in {"idle", "crc"}
  /\ air \in Package
  /\ package \in Package
  /\ msg \in Seq(Field)
  /\ at \in 0 .. Len(msg) + 1
  /\ outcome \in {"none", "ignored", "rejected", "LV", "FV", "neither"}

(* The fields the receiver has still to look at are as they were sent.     *)
Untouched == /\ Len(msg) = Len(package)
             /\ \A n \in at .. Len(msg) : n >= 1 => msg[n] = package[n]

LinkInv == LinkType /\ (at # 0 => Untouched)

(* What tx_base_message puts on the air is framed.                         *)
LEMMA AirFramed ==
  ASSUME NEW code \in TxCodes, TxEnd(code), RegisterOK, air \in Package
  PROVE  air' \in Package
<1> DEFINE f == [ssov |-> TRUE, service |-> Service, type |-> FvType,
                 data |-> Frame(BuildFvMsg), crc |-> Crc]
<1>1. Crc \in Word
  <2>1. Not(unCrc) \in Word
    BY DEF RegisterOK, Not, Ones, Word
  <2> QED  BY <2>1, ReverseUint32Mirrors DEF Crc
<1>2. Frame(BuildFvMsg) \in
        [eServiceId : [1 .. 4 -> Byte], number : Byte, type : Byte]
  BY FrameBytes, LinkAssumption DEF Frame
<1>3. f \in Field
  BY <1>1, <1>2, LinkAssumption DEF Field
<1>4. Framed(f)
  BY DEF Framed, Frame
<1> HIDE DEF f
<1>5. <<f>> \in Package
  BY <1>3, <1>4 DEF Package
<1>6. air' = <<f>> \/ air' = air
  BY DEF TxEnd, f
<1> QED  BY <1>5, <1>6

LEMMA LinkInvStep ==
  ASSUME LinkInv, RegisterOK, [LinkNext]_linkVars
  PROVE  LinkInv'
<1>1. CASE WorkerOther \/ TxStart \/ TxCrc \/ UNCHANGED linkVars
  <2>1. UNCHANGED <<air, rxVars>> /\ tpc' \in {"idle", "crc"}
    BY <1>1 DEF LinkInv, LinkType, WorkerOther, TxStart, TxCrc, linkVars
  <2> QED  BY <2>1 DEF LinkInv, LinkType, Untouched, rxVars
<1>2. ASSUME NEW code \in TxCodes, TxEnd(code)
      PROVE  LinkInv'
  <2>1. UNCHANGED rxVars /\ tpc' = "idle"
    BY <1>2 DEF TxEnd
  <2>2. air' \in Package
    BY <1>2, AirFramed DEF LinkInv, LinkType
  <2> QED  BY <2>1, <2>2 DEF LinkInv, LinkType, Untouched, rxVars
<1>3. CASE RxCall
  <2>1. package' \in Package
    BY <1>3, LinkAssumption DEF RxCall, LinkInv, LinkType
  <2>2. msg' \in Seq(Field)
    BY <1>3, <2>1 DEF RxCall, Package
  <2>3. at' \in 0 .. Len(msg') + 1
    BY <1>3, <2>2 DEF RxCall
  <2>4. LinkType'
    BY <1>3, <2>1, <2>2, <2>3 DEF RxCall, LinkInv, LinkType
  <2> QED  BY <1>3, <2>4 DEF RxCall, LinkInv, Untouched
<1>4. CASE RxOther
  <2>1. LinkType'
    BY <1>4 DEF RxOther, LinkInv, LinkType
  <2> QED  BY <1>4, <2>1 DEF RxOther, LinkInv, LinkType, Untouched
<1>5. CASE RxPlatooning
  <2> DEFINE ssov == Converted(msg[at].data)
  <2>1. msg[at] \in Field /\ at \in 1 .. Len(msg) /\ msg \in Seq(Field)
    BY <1>5 DEF RxPlatooning, LinkInv, LinkType
  <2>2. ShiftRight16(BE(msg[at].data.eServiceId)) \in [1 .. 4 -> Byte]
    <3>1. msg[at] = package[at] /\ package \in Package
          /\ at \in 1 .. Len(package)
      BY <1>5 DEF RxPlatooning, LinkInv, LinkType, Untouched
    <3>2. Framed(package[at]) /\ package[at].service \in HostService
      <4>1. package[at].ssov
        BY <1>5, <3>1 DEF RxPlatooning
      <4>2. package[at] \in Field /\ Framed(package[at])
        BY <3>1, <4>1 DEF Package
      <4> QED  BY <4>2 DEF Field
    <3>3. PICK lo \in Byte, hi \in Byte : package[at].service = <<lo, hi>>
      BY <3>2 DEF HostService
    <3>4. ShiftRight16(BE(msg[at].data.eServiceId)) = <<lo, hi, {}, {}>>
      BY <3>1, <3>2, <3>3, HeaderBytes, ConvertBytes DEF Framed
    <3>5. {} \in Byte
      BY DEF Byte
    <3> QED  BY <3>4, <3>5
  <2>3. [msg[at] EXCEPT !.data = ssov] \in Field
    BY <2>1, <2>2 DEF Field, Converted
  <2>4. msg' = [msg EXCEPT ![at] = [msg[at] EXCEPT !.data = ssov]]
    BY <1>5 DEF RxPlatooning
  <2> HIDE DEF ssov
  <2>5. /\ msg' \in Seq(Field)
        /\ Len(msg') = Len(msg)
        /\ \A n \in at + 1 .. Len(msg) : msg'[n] = msg[n]
    BY <2>1, <2>3, <2>4
  <2>6. LinkType'
    BY <1>5, <2>1, <2>5 DEF RxPlatooning, LinkInv, LinkType
  <2>7. Untouched'
    BY <1>5, <2>1, <2>5 DEF RxPlatooning, LinkInv, Untouched
  <2> QED  BY <2>6, <2>7 DEF LinkInv
<1>6. CASE RxReturn
  <2>1. <<>> \in Package
    BY DEF Package
  <2> QED  BY <1>6, <2>1 DEF RxReturn, LinkInv, LinkType, Package
<1> QED  BY <1>1, <1>2, <1>3, <1>4, <1>5, <1>6 DEF LinkNext

LEMMA LinkInvCorrect == LinkSpec => []LinkInv
<1>1. LinkInit => LinkInv
  BY DEF LinkInit, LinkInv, LinkType, Package
<1>2. LinkInv /\ RegisterOK /\ [LinkNext]_linkVars => LinkInv'
  BY LinkInvStep
<1> QED  BY <1>1, <1>2, LinkIsCrcLoop, RegisterCorrect, PTL DEF LinkSpec

(* Whatever the service id, the packages of other equipment, all of it     *)
(* framed, and the order of steps, a field is dispatched as its sender     *)
(* meant it.                                                               *)
THEOREM DispatchCorrect == LinkSpec => DispatchTruth
<1>1. LinkInv /\ [LinkNext]_linkVars
      => [at' # at /\ at \in 1 .. Len(package)
          => outcome' = Meant(package[at])]_linkVars
  <2> SUFFICES ASSUME LinkInv, LinkNext, at' # at, at \in 1 .. Len(package)
               PROVE  outcome' = Meant(package[at])
    BY Zenon
  <2>1. RxOther \/ RxPlatooning
    BY DEF LinkNext, WorkerOther, TxStart, TxCrc, TxEnd, RxCall, RxReturn,
           rxVars, LinkInv, Untouched
  <2>2. msg[at] = package[at] /\ package[at] \in Field
        /\ (package[at].ssov => Framed(package[at]))
    BY DEF LinkInv, LinkType, Untouched, Package
  <2>3. CASE RxOther
    BY <2>2, <2>3 DEF RxOther, Meant
  <2>4. CASE RxPlatooning
    <3>1. package[at].ssov /\ Framed(package[at])
          /\ package[at].service \in HostService
      BY <2>2, <2>4 DEF RxPlatooning, Field
    <3>2. Converted(msg[at].data).eServiceId = Widen(package[at].service)
      BY <2>2, <3>1, RoundTrip DEF Converted, Framed, Field
    <3>3. Converted(msg[at].data).type = package[at].type
      BY <2>2, <3>1 DEF Converted, Framed, Field
    <3>4. Widen(package[at].service) = Widen(Service)
          <=> package[at].service = Service
      BY <3>1, WidenInjective, LinkAssumption
    <3> QED  BY <2>4, <3>1, <3>2, <3>3, <3>4 DEF RxPlatooning, Meant
  <2> QED  BY <2>1, <2>3, <2>4
<1> QED  BY <1>1, LinkInvCorrect, PTL DEF LinkSpec, DispatchTruth

=============================================================================
