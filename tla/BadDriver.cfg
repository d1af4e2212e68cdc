CONSTANTS
  Callers = {c1}
  NoOwner = NoOwner
  Sentinel = SAFE
  BAD1 = BAD1
  BAD2 = BAD2
  BAD3 = BAD3
  ForeignValues <- MCForeignValues
  BadValue <- MCBadValue
  AuthorizedValues = {AUTH}
  Zero = ZERO
  DirectOutcomes = {FALSE}
  VmallocOutcomes = {TRUE}
  VmapOutcomes = {TRUE, FALSE}
  Attackers = {w1, w2}
  CounterMod = 2
  MaxAttacks = 2
SPECIFICATION BDSpec
INVARIANTS SteadyProtectionBlocks RaceReportSound ReportDescribesOneAttack
