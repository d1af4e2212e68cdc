CONSTANTS
  Callers = {c1, c2}
  NoOwner = NoOwner
  Sentinel = SAFE
  ForeignValues = {BAD}
  AuthorizedValues = {SAFE}
  Zero = ZERO
  DirectOutcomes = {TRUE, FALSE}
  VmallocOutcomes = {TRUE, FALSE}
  VmapOutcomes = {TRUE, FALSE}
SPECIFICATION FairSpec
INVARIANTS TypeOK CallsSerialized FlagSound StatusCoherent ReturnValueHonest WindowWorks
PROPERTIES ReadOnlyFreeExplained CallsReturn
