CONSTANTS
  Threads = {t1, t2, t3}
  Blocks = {b1, b2, b3, b4, b5}
  MaxEntries = 3
  None = None
SYMMETRY Symmetry
SPECIFICATION Spec
INVARIANTS
  TypeOK
  AllocBalance
  OwnedIsRecorded
