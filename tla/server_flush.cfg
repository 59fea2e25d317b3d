\* two devices: flushes against reports, one of which is followed, and a
\* database that comes and goes and whose queue one flush can fill
SPECIFICATION ReportSpec
CONSTANTS
  Devices = {1, 2}
  Receivers = {r1}
  Kinds = {"FV"}
  MaxTick = 0
  Stale = 1
  NoRow = NoRow
  NullRow = NullRow
  StartTime = 2
  MaxTime = 2
  QueueCap = 2
PROPERTIES
  LostOnlyRefused
  ReportsReachLog
