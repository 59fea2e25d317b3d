\* all interleavings of the three threads
SPECIFICATION Spec
CONSTANTS
  p1 = p1
  p2 = p2
  NoMsg = NoMsg
  Positions <- MCPositions
  SeqMod <- MCSeqMod
  CntMod <- MCCntMod
  EarlyCap <- MCEarlyCap
SYMMETRY PositionSymmetry
INVARIANTS
  TypeOK
  ConnectionSeen
  WorkerWaitsForTick
PROPERTIES
  OnlyActivateRaces
