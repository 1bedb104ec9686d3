SPECIFICATION RuntimeSpec
CONSTANTS
  Threads = {t1, t2}
  Data = {d1, d2}
  Null = Null
  Junk = Junk
  InitSize = 3
  MaxSize = 6
  ReallocFails = TRUE
  Lthreads = {l1, l2, l3}
  Root = l1
  None = None
  IoLthreads = {i1, i2, i3}
  IoWorkers = 2
  Nobody = Nobody
  Pollers = {1, 2}
  FdsOf <- MCFdsOf
  Wants = {{"OUT"}, {"IN", "OUT"}}
  StreamLen = 4
  Newlines = {2}
  Lengths = {0, 1, 3}
  Iovs <- MCIovs
  Sleepers = {s1, s2}
  NoSleeper = NoSleeper
  Msecs = {1, 999, 1001}
  Work = {300, 700}
  Arrivals = {250100}
  Turns = 2
  Horizon = 1000
PROPERTY
  FifoUntilLost
INVARIANTS
  NobodyLost
  FreedForgotten
  IoHandedOver
  IoMissedOnly
  PollSound
  StreamsInOrder
  WakesOnTime
SYMMETRY MCSymmetry
\* after a failed realloc() the next push follows a NULL pointer,
\* a scheduler is done, all lthreads are freed
CHECK_DEADLOCK FALSE
