CONSTANTS
  Contexts = {c1, c2}
  Entries = {t1, t2, t3}
  Blank = Blank
  Capacity = 3
SPECIFICATION SGSpec
INVARIANTS SnapshotAtomic TeardownSound
PROPERTY ImplementsBoundedLog
