\* no reconnection inside init's last instants
SPECIFICATION FairSteadySpec
CONSTANTS
  p1 = p1
  p2 = p2
  NoMsg = NoMsg
  Positions <- MCOnePosition
  SeqMod <- MCSeqMod
  CntMod <- MCCntMod
  EarlyCap <- MCEarlyCap
INVARIANTS
  ActiveIsRegistered
  AtMostOneEarlyMessage
PROPERTIES
  SessionSpec
  LinkBecomesActive
  KeepsSending
