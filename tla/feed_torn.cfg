\* a message mixes two samples: expected violation
SPECIFICATION Spec
CONSTANT MaxSample = 2
INVARIANTS
  SentIsMeasured
