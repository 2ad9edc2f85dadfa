CONSTANTS
  Buttons = {b1}
  Modes = {"CONNECTED", "ACTIVE", "ERROR"}
  TxDepth = 2
  HbTx = 2
  HbWindow = 3
  HbTimeout = 4
  OthersPerTick = 0
SPECIFICATION Spec
INVARIANTS TypeOK ConnectedIsFresh LockStateMatchesKey
PROPERTY ConnectNeedsHeartbeat
