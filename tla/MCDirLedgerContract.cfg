CONSTANTS
  Threads = {t1, t2}
  Fds = {fd1, fd2}
  Pointers = {p1, p2}
  MaxLost = 1
  None = None
SPECIFICATION Spec
PROPERTY ContractSpec
