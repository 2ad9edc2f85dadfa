\* The Pi, the operator's panel and the Pico as the Pi sees it.
SPECIFICATION Spec
CONSTANTS
  Groups <- MCGroups
  AdcCounts = {3000, 3188, 3189}
  Addresses = {1}
  Data <- MCData
  Sliders <- MCSliders
  MaxEvents = 2
  Room = 4
INVARIANTS TypeOK PanelFollows ModeMatchesSwitches
PROPERTIES LinkReopens TftSettles
