CONSTANTS
  Self = self
  Callbacks = {cb1, cb2}
  Codes = {eio, einval}
  EIO = eio
  EINVAL = einval
  Results <- MinusOneOnly
  MaxWalks = 2
  MaxCalls = 2
  CallOps <- OnePerClass
  None = None
SPECIFICATION Spec
INVARIANTS
  TypeOK
  DispatchToOwner
  NothingStale
PROPERTIES
  WalksKeepContract
  CallsKeepContract
