SPECIFICATION Spec
CONSTANTS
  Threads = {t1, t2}
  Data = {d1, d2}
  Null = Null
  Junk = Junk
  InitSize = 2
  MaxSize = 4
  ReallocFails = TRUE
PROPERTY
  FifoSpec
