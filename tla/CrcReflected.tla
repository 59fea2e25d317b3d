----------------------------- MODULE CrcReflected -----------------------------
(***************************************************************************)
(* What CLI_UTIL_GetCrc32 promises by its name: the CRC-32 of IEEE 802.3,  *)
(* in the form it is usually stated in. The register takes a byte at its   *)
(* low end and moves right, the polynomial is written in reverse, and the  *)
(* complement of the register is the CRC: nothing is ever reversed.        *)
(*                                                                         *)
(* A word, or a byte, is the set of the positions at which it has a one;   *)
(* position 0 is the lowest.                                               *)
(***************************************************************************)
EXTENDS Integers, Sequences

Word == SUBSET (0 .. 31)
Byte == SUBSET (0 .. 7)

Ones == 0 .. 31

Xor(x, y) == (x \ y) \cup (y \ x)

Not(x) == Ones \ x

ShiftRight(x) == {k - 1 : k \in x \ {0}}

(* 0xEDB88320                                                              *)
ReversedPoly == {5, 8, 9, 15, 19, 20, 21, 23, 24, 26, 27, 29, 30, 31}

VARIABLES pBuf,  \* the bytes
          i,     \* how many of them have been taken
          j,     \* how many bits of the last of these; 8 between two bytes
          reg    \* the register

cvars == <<pBuf, i, j, reg>>

Done == i = Len(pBuf) /\ j = 8

Crc == Not(reg)

Init == pBuf = <<>> /\ i = 0 /\ j = 8 /\ reg = Ones

Call ==
  /\ Done
  /\ pBuf' \in Seq(Byte)
  /\ i' = 0 /\ j' = 8 /\ reg' = Ones

TakeByte ==
  /\ j = 8 /\ i < Len(pBuf)
  /\ reg' = Xor(reg, pBuf[i + 1])
  /\ i' = i + 1 /\ j' = 0
  /\ UNCHANGED pBuf

TakeBit ==
  /\ j < 8
  /\ reg' = IF 0 \in reg THEN Xor(ShiftRight(reg), ReversedPoly)
                         ELSE ShiftRight(reg)
  /\ j' = j + 1
  /\ UNCHANGED <<pBuf, i>>

Spec == Init /\ [][Call \/ TakeByte \/ TakeBit]_cvars

=============================================================================
