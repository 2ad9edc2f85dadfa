CONSTANTS
  N = 2
  Streamers = {}
  Kinds = {"PING", "SET_OUTPUT", "UNKNOWN"}
  CmdDepth = 1
  FifoDepth = 2
SPECIFICATION FairSpec
INVARIANTS TypeOK InStep
PROPERTIES RegistryIsHealth RegistryFollows
