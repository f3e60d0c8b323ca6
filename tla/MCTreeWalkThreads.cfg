CONSTANTS
  Threads = {t1, t2}
  Callbacks = {cb1, cb2}
  Codes = {eio}
  EIO = eio
  EINVAL = eio
  Results <- MinusOneOnly
  SkipResults = {}
  Unwinds = FALSE
  MaxDepth = 2
  None = None
SYMMETRY SymmetryWithThreads
SPECIFICATION Spec
INVARIANTS
  DispatchToOwner

