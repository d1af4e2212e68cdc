CONSTANTS
  Callers = {c1, c2}
  NoOwner = NoOwner
  Sentinel = SAFE
  ForeignValues = {BAD}
  AuthorizedValues = {AUTH}
  Zero = ZERO
  DirectOutcomes = {FALSE}
  VmallocOutcomes = {TRUE}
  VmapOutcomes = {TRUE, FALSE}
SPECIFICATION Spec
INVARIANT BothAliasesLocked
