\* The frames on USB and on the RS-485 bus, one protocol per behaviour.
SPECIFICATION Spec
CONSTANTS
  Values = 4
  SOF = 2
  MaxPayload = 2
  BufSize = 7
  ExOr <- MCXor
  Frames <- MCFrames
  MaxLosses = 3
  Sides = {"pico", "pi"}
  Base = 16
  Bits = 4
  XorByte <- MCXor
  Poly = 3
  Sof = 11
  Me = 3
  Code <- MCCode
  BusFrames <- MCBusFrames
  Builds <- MCBuilds
  RxDepth <- MCRxDepth
  TxDepth <- MCTxDepth
  Stall = 2
  Gap = 1
  MaxDur = 1
  Errors = {1, 6}
  Strays = {11}
  MaxNoise = 1
  MaxHeat = 1
  MaxDeg = 12
  Pixels = 1
  Samples = {170, 171}
  Devices <- MCDevices
  AtBoot <- MCAtBoot
  Version = 1
  MinInterval = 1
  Silence = 3
  Fifo = 2
  MaxLag = 1
  Queries <- MCQueries
  Pokes <- MCPokes
  MaxTrouble = 1
  MaxAstray = 2
INVARIANTS TypeOK FramesArrive FrameTaken ReportsHardware AnswersOnce
