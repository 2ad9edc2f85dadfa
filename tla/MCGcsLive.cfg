CONSTANTS
  Buttons = {}
  Modes = {}
  TxDepth = 4
  HbTx = 2
  HbWindow = 3
  HbTimeout = 4
  OthersPerTick = 1
SPECIFICATION FairSpec
INVARIANTS LiveIsRecent TimeoutReportedTwiceAtMost
PROPERTIES LinkRecovers PiLearnsPorts
