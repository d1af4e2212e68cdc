CONSTANTS
  Lines = {l1, l2}
  Versions = {v1}
  MaxEvents = 2
  Rows = 3
  MaxRead = 4
  MaxLines = 2
SPECIFICATION FairSpec
INVARIANTS LinesWholeInOrder FrameFaithful
PROPERTIES ImplementsBoundedLog LinesArrive ShutdownCompletes
CHECK_DEADLOCK FALSE
