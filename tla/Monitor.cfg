CONSTANTS
  ScenarioArgs = {"all", "B", "D", "E", "F", "G", "X"}
  StartArgs = {"", "B", "D", "E", "F", "G", "X"}
  InsmodOutcomes = {TRUE, FALSE}
  RmmodOutcomes = {TRUE}
  VmapOutcomes = {TRUE, FALSE}
  ProtectOutcomes = {TRUE, FALSE}
  ProcOutcomes = {TRUE, FALSE}
  StateOutcomes = {TRUE, FALSE}
  LeftBy = {"F"}
SPECIFICATION MonFairSpec
INVARIANTS OwnershipExact UnloadOrderSafe CleanExit ActionHasItsModules VerdictsExplained DisplayFollows
PROPERTY HarnessEnds
