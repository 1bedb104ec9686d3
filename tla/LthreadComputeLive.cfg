SPECIFICATION LiveSpec
CONSTANTS
  s1 = s1
  s2 = s2
  l1 = l1
  l2 = l2
  Scheds = {s1, s2}
  Lthreads = {l1, l2}
  Comps = {c1}
  None = None
  Root <- MCRoot
  MaxLogs = 2
PROPERTIES
  HandoffReturns
  AllExit
