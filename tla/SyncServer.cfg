SPECIFICATION Spec
CONSTANTS
  Scheds = {s1, s2}
  Conns = {k1, k2}
  Fds = {f1, f2}
  Listen = Listen
  None = None
  NiceOps = 2
  Slow = {k1, k2}
  Moves = {"data", "eof", "reset", "signal"}
  MaxFaults = 0
INVARIANTS
  TypeOK
  ResumedOnce
  WaitersMatch
  WaitersArmed
  DescriptorsOwned
PROPERTY
  AnswersRequest
SYMMETRY MCSymmetry
