CONSTANTS
  Threads = {t1}
  Callbacks = {cb1, cb2}
  Codes = {eio, einval}
  EIO = eio
  EINVAL = einval
  Results <- MinusOneOrSkip
  SkipResults <- SkipSubtree
  Unwinds = TRUE
  MaxDepth = 3
  None = None
SPECIFICATION Spec
INVARIANT
  WalkInv
PROPERTY ContractSpec
