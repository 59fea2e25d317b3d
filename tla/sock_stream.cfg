SPECIFICATION FairSpec
CONSTANTS
  Ids = {1, 2}
  MaxLength = 2
  Bytes = {0, 2}
  MaxFrames = 3
INVARIANTS
  TypeOK
  NothingHeldBack
PROPERTIES
  ChannelSpec
  EverySentIsHandled
CHECK_DEADLOCK FALSE
