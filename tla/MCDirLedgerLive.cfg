CONSTANTS
  Threads = {t1, t2}
  Fds = {fd1}
  Pointers = {p1}
  MaxLost = 1
  None = None
SPECIFICATION FairSpec
PROPERTY DebtsPaid
