\* The screen, with one or two kinds of things changing in a behaviour.
SPECIFICATION Spec
CONSTANTS
  Groups <- MCGroups
  HostModes = {0, 1, 4, 5, 7}
  Batteries = {1000, 1004, 1009}
  Ports = {"rest", "held"}
  Addresses = {1, 2}
  Lengths = {3, 40}
  MaxChanges = 4
INVARIANTS TypeOK DetailUpToDate
PROPERTIES ModeSettles MainSettles
