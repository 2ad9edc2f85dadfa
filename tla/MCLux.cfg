\* The light sensor in full sunlight, as far as its 16 bits go.
SPECIFICATION Spec
CONSTANTS
  NumPixels = 1
  Plans <- MCPlans
  Inputs = {"key"}
  Leds = {"led2", "led3"}
  Requests <- MCRequests
  QueueDepth = 1
  Lights = {65535}
  Pause = 2
  MaxEvents = 2
  Width = 7
  Height = 6
  XStart = 2
  YStart = 1
  Calls <- MCCalls
  Levels = {50}
  MaxChanges = 3
  MaxRx = 1
  Hotspots = {h1, h2}
  BadHotspot = bad
  Thresholds = {0, 22}
  MaxEdits = 2
INVARIANT LuxInRange
