\* tx_base_message returns true for a failed request: expected violation
SPECIFICATION Spec
CONSTANTS
  p1 = p1
  p2 = p2
  NoMsg = NoMsg
  Positions <- MCPositions
  SeqMod <- MCSeqMod
  CntMod <- MCCntMod
PROPERTIES
  TxResultTruth
