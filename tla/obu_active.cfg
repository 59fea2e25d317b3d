\* state_level = 1 overwrites the 0 of a new connection: expected violation
SPECIFICATION Spec
CONSTANTS
  p1 = p1
  p2 = p2
  NoMsg = NoMsg
  Positions <- MCOnePosition
  SeqMod <- MCSeqMod
  CntMod <- MCCntMod
  EarlyCap <- MCEarlyCap
INVARIANTS
  ActiveIsRegistered
