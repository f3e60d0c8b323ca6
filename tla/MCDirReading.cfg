CONSTANTS
  Streams = {careful, careless}
  Careful = {careful}
  Codes = {eio, ebadf}
  Length = 2
  MaxFailures = 3
  None = None
SPECIFICATION FairSpec
INVARIANTS
  TypeOK
  NothingSkipped
  EndIsTheEnd
  ErrorIsItsOwn
PROPERTY LoopEnds
