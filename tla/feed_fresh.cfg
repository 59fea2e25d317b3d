\* positions from the d2x thread into messages
SPECIFICATION FairSpec
CONSTANT MaxSample = 3
INVARIANTS
  TypeOK
  SentIsFresh
PROPERTIES
  SentNeverGoesBack
  LastSampleSent
