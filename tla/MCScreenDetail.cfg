\* The cache of the details, called from two tasks.
SPECIFICATION Spec
CONSTANTS
  Groups <- MCDetailGroups
  HostModes = {0, 1, 4, 5, 7}
  Batteries = {1000, 1004, 1009}
  Ports = {"rest", "held"}
  Addresses = {1, 2}
  Lengths = {3, 40}
  MaxChanges = 4
INVARIANT CacheBelongs
