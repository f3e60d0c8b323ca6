CONSTANTS
  Codes = {eio, enoent}
  EIO = eio
  MaxDepth = 3
  None = None
SPECIFICATION Spec
INVARIANTS
  TypeOK
  NothingStale
PROPERTIES
  ContractSpec
