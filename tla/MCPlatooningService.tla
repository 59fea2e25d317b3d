------------------------- MODULE MCPlatooningService -------------------------
(***************************************************************************)
(* platooning_service alone, its caller arbitrary: any position, any call  *)
(* of tx_base_message on a socket that is up or down. SeqMod stands for    *)
(* 2^32 and CntMod for 101; like them, MCSeqMod is no multiple of          *)
(* MCCntMod, so both wraps happen and do not coincide.                     *)
(***************************************************************************)
EXTENDS PlatooningService

CONSTANTS p1, p2

MCPositions == {p1, p2}
MCSeqMod == 7
MCCntMod == 3
=============================================================================
