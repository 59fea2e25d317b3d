\* SSOV messages from one vehicle to another
SPECIFICATION LinkSpec
CONSTANTS
  NoMsg = NoMsg
  Positions <- MCPositions
  SeqMod <- MCSeqMod
  CntMod <- MCCntMod
  Service <- MCService
  LvType <- MCLvType
  FvType <- MCFvType
  Foreign <- MCForeign
INVARIANTS
  TypeOK
  CrcIsStandard
PROPERTIES
  SeqGapCountsFailures
  ContGapCountsFailures
  CrcSpec
  DispatchTruth
