CONSTANTS
  Cpus = {cpu1}
  Addresses = {1, 2, 3}
  Pages <- MCPages
  Capacity = 1
  MaxFaults = 2
SPECIFICATION Spec
INVARIANT FaultsInRangeLogged
