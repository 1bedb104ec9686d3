SPECIFICATION Spec
CONSTANTS
  s1 = s1
  s2 = s2
  l1 = l1
  l2 = l2
  Scheds = {s1, s2}
  Lthreads = {l1, l2, l3}
  Comps = {c1, c2}
  None = None
  Root <- MCRoot
  MaxLogs = 1
INVARIANTS
  TypeOK
  OnePlace
  SwitchedOut
  RequestHeld
  DoneIsDone
  NoLostTrigger
PROPERTY
  HandoffPromise
SYMMETRY MCSymmetry
