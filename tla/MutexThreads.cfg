CONSTANTS
  Writers = {w1}
  NoTask = NoTask
  AttackModes = {"write", "metadata"}
  HarnessOrder = FALSE
  Sentinel = SAFE
  Corrupt = DEAD
  CounterMod = 2
SPECIFICATION FairSpec
INVARIANTS NoLostWakeup OverlapNeedsMetadataAttack
PROPERTIES ViolationSound ThreadAProgress ThreadsStopUnlessRobbed RogueStops
