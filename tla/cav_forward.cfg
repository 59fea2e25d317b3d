SPECIFICATION FairSpec
CONSTANTS
  MaxPoints = 2
  RawPoints <- MCRawPoints
  Scale = 10
  MsgSeqs = 3
  MaxSeq = 5
  MaxWire = 2
INVARIANTS
  TypeOK
PROPERTIES
  PlanArrives
  GapIsLoss
  EveryMessageIsRead
CHECK_DEADLOCK FALSE
