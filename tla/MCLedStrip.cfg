CONSTANTS
  PanelEnd = 2
  WorkEnd = 3
  MaxPixels = 3
  Severities = {ok, critical}
  Hues = {white}
  MaxCommands = 2
SPECIFICATION FairSpec
INVARIANTS TypeOK PanelInEveryTransfer
PROPERTIES TransfersComplete WarningsShown WorklightShown
