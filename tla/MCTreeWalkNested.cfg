CONSTANTS
  Threads = {t1}
  Callbacks = {cb1, cb2}
  Codes = {eio, einval}
  EIO = eio
  EINVAL = einval
  Results <- MinusOneOnly
  SkipResults = {}
  Unwinds = FALSE
  MaxDepth = 3
  None = None
SYMMETRY Symmetry
SPECIFICATION Spec
INVARIANTS
  TypeOK
  PointersChained
  NothingDangles
  NoSpuriousError
  NativeFailureReported
  DispatchToOwner

