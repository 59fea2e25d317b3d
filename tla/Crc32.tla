-------------------------------- MODULE Crc32 --------------------------------
(***************************************************************************)
(* CLI_UTIL_GetCrc32 (utils.cpp), a loop over the bytes of a buffer with a *)
(* loop over the bits inside. The register takes a byte, reversed, at its  *)
(* high end and moves left; the result is reversed once more.              *)
(*                                                                         *)
(* Words and bytes are sets of bit positions, as in CrcReflected: ^ is     *)
(* Xor, ~ is Not, x << n moves each position up by n and drops those       *)
(* beyond the width, and | of words without a common bit is a union.       *)
(***************************************************************************)
EXTENDS Integers, Sequences

Word == SUBSET (0 .. 31)
Byte == SUBSET (0 .. 7)

Ones == 0 .. 31

Xor(x, y) == (x \ y) \cup (y \ x)

Not(x) == Ones \ x

ShiftLeft(x) == {k + 1 : k \in x \ {31}}

(* 0x04C11DB7                                                              *)
Poly == {0, 1, 2, 4, 5, 7, 8, 10, 11, 12, 16, 22, 23, 26}

(* A four-bit number as the set of its ones, and back.                    *)
Weight == <<1, 2, 4, 8>>

Nibble(n) == {k \in 0 .. 3 : (n \div Weight[k + 1]) % 2 = 1}

Number(x) == (IF 0 \in x THEN 1 ELSE 0) + (IF 1 \in x THEN 2 ELSE 0)
             + (IF 2 \in x THEN 4 ELSE 0) + (IF 3 \in x THEN 8 ELSE 0)

(* s_unReverse4bitTable, its first element at 1.                           *)
Table == <<0, 8, 4, 12, 2, 10, 6, 14, 1, 9, 5, 13, 3, 11, 7, 15>>

(* Mutant of Reverse4: the table is read one place off.                    *)
Reverse4OffByOne(x) == Nibble(Table[((Number(x) + 1) % 16) + 1])

Reverse4(x) == Nibble(Table[Number(x) + 1])

Low(b) == b \cap (0 .. 3)
High(b) == {k - 4 : k \in b \ (0 .. 3)}

ReverseByte(b) == {k + 4 : k \in Reverse4(Low(b))} \cup Reverse4(High(b))

(* The byte of word x that uint8_t(x >> 8 * m) keeps.                      *)
ByteOf(x, m) == {k \in 0 .. 7 : k + 8 * m \in x}

ReverseUint32(x) ==
  UNION {{k + 8 * (3 - m) : k \in ReverseByte(ByteOf(x, m))} : m \in 0 .. 3}

-----------------------------------------------------------------------------
VARIABLES pBuf,   \* the bytes
          i,      \* the bytes taken
          j,      \* the bits taken of the last of them; 8 between two bytes
          unCrc

cvars == <<pBuf, i, j, unCrc>>

CrcInit == pBuf = <<>> /\ i = 0 /\ j = 8 /\ unCrc = Ones

Done == i = Len(pBuf) /\ j = 8

(* Mutant of Crc: the last reversal is forgotten.                          *)
CrcAsIs == Not(unCrc)

(* What the call returns when it is Done.                                  *)
Crc == ReverseUint32(Not(unCrc))

Call(b) ==
  /\ Done
  /\ pBuf' = b
  /\ i' = 0 /\ j' = 8 /\ unCrc' = Ones

NextByte ==
  /\ j = 8 /\ i < Len(pBuf)
  /\ unCrc' = Xor(unCrc, {k + 24 : k \in ReverseByte(pBuf[i + 1])})
  /\ i' = i + 1 /\ j' = 0
  /\ UNCHANGED pBuf

NextBit ==
  /\ j < 8
  /\ unCrc' = IF 31 \in unCrc THEN Xor(ShiftLeft(unCrc), Poly)
                              ELSE ShiftLeft(unCrc)
  /\ j' = j + 1
  /\ UNCHANGED <<pBuf, i>>

CrcNext == (\E b \in Seq(Byte) : Call(b)) \/ NextByte \/ NextBit

CrcLoop == CrcInit /\ [][CrcNext]_cvars

-----------------------------------------------------------------------------
(* The register of the code is at every moment the mirror image of the     *)
(* register of the standard algorithm.                                     *)
Standard == INSTANCE CrcReflected WITH reg <- ReverseUint32(unCrc)

(* CLI_UTIL_GetCrc32 computes the CRC-32 of IEEE 802.3 (utils.cpp:67-89),  *)
(* step by step, ...                                                       *)
CrcSpec == Standard!Spec

(* ... and so what it returns, which reverses the complement and not the   *)
(* register, is that CRC.                                                  *)
CrcIsStandard == Done => Crc = Standard!Crc

=============================================================================
