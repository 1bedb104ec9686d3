SPECIFICATION LiveSpec
CONSTANTS
  Scheds = {s1}
  Conns = {k1}
  Fds = {f1}
  Listen = Listen
  None = None
  NiceOps = 2
  Slow = {k1}
  Moves = {"data", "eof", "reset", "signal"}
  MaxFaults = 0
PROPERTY
  StopsOnSignal
