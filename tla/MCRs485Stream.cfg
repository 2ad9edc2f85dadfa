CONSTANTS
  N = 2
  Streamers = {1}
  Kinds = {"STREAM_ON"}
  CmdDepth = 1
  FifoDepth = 2
SPECIFICATION FairSpec
PROPERTY RegistrySettles
