CONSTANTS
  Threads = {t1, t2, t3}
  Fds = {fd1, fd2}
  Pointers = {p1, p2}
  MaxLost = 1
  None = None
SYMMETRY Symmetry
SPECIFICATION Spec
INVARIANTS
  TypeOK
  DescriptorsBalance
  StreamsBalance
  NeverNegative
  OwnedIsThere
  OneStreamPerDescriptor
