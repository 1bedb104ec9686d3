SPECIFICATION LiveSpec
CONSTANTS
  Scheds = {s1, s2}
  Conns = {k1, k2}
  Fds = {f1}
  Listen = Listen
  None = None
  NiceOps = 1
  Slow = {}
  Moves = {"eof"}
  MaxFaults = 1
INVARIANTS
  DoneIsDone
  DescriptorsOwned
PROPERTIES
  Served
  Accepted
