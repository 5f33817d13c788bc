SPECIFICATION Spec
CONSTANTS
  Conns = {c1, c2}
  Fds = {f3, f4, f5}
INVARIANTS StopJoinsThreads
