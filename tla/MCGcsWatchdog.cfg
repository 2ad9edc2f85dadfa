CONSTANTS
  Buttons = {}
  Modes = {}
  TxDepth = 2
  HbTx = 2
  HbWindow = 3
  HbTimeout = 4
  OthersPerTick = 0
SPECIFICATION FairSpec
PROPERTY WatchdogResetReported
