CONSTANTS
  Writers = {}
  NoTask = NoTask
  AttackModes = {"metadata"}
  HarnessOrder = TRUE
  Sentinel = SAFE
  Corrupt = DEAD
  CounterMod = 2
SPECIFICATION FairSpec
PROPERTY ThreadsStop
