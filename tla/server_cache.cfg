\* one device: which message the cache keeps, and what the tables show of it
SPECIFICATION Spec
CONSTANTS
  r1 = r1
  Devices <- OneDevice
  Receivers <- OneReceiver
  Kinds <- BothKinds
  MaxTick = 1
  Stale = 1
  NoRow = NoRow
  NullRow = NullRow
  StartTime = 2
  MaxTime = 4
  QueueCap = 3
INVARIANTS
  TypeOK
  NewestSinceAccepted
  RowIsNewest
  StatusShowsLog
