---------------------------- MODULE MCObuHandler ----------------------------
(***************************************************************************)
(* obu_handler for TLC. MCSeqMod and MCCntMod keep the message numbers to  *)
(* a handful: they only have to move, and to wrap, as the link comes and   *)
(* goes. The positions are interchangeable.                                *)
(***************************************************************************)
EXTENDS ObuHandler, TLC

CONSTANTS p1, p2

MCPositions == {p1, p2}
MCSeqMod == 3
MCCntMod == 2
MCEarlyCap == 2

PositionSymmetry == Permutations(MCPositions)

(* For the liveness run, which cannot use symmetry: one position.          *)
MCOnePosition == {p1}
=============================================================================
