SPECIFICATION Spec
CONSTANTS
  Parts = {"set", "hashset", "prime", "hashmap", "cfuhash", "rbtree", "queues", "log", "agent", "line"}
  Keys = {1, 2, 3, 4}
  NoKey = NoKey
  KeyHash <- MCKeyHash
  InitialNodes = 4
  MaxNodes = 16
  Failing <- MCFailing
  Values = {2, 4, 5, 6, 7, 10}
  MaxSlots = 16
  MaxDeleted = 1
  Sizes <- MCSizes
  Data = {1}
  RowArgs <- MCRowArgs
  Splay = FALSE
  CfuData = {1, 2}
  CfuSize = 2
  Elems = {1, 2, 3, 4, 5, 6, 7, 8}
  Items = {i1, i2, i3, i4}
  HeadLink = HeadLink
  None = None
  MaxFd = 5
  LevelArgs = {0, 3, 7}
  Files <- MCFiles
  Empty = 4
  HashmapNodes = 2
  HostIps = {1, 3}
  MaxText = 5
INVARIANTS
  SetSound
  SetAlgebra
  HashsetSound
  MCNearestPrimeSound
  HashmapLinked
  HashmapWalk
  CfuhashSound
  RbBalanced
  QueuesLinked
  LogKeepsItsDescriptors
  LinesSplit
  ConfigIsFile
  StartsAsConfigured
\* the program ends
CHECK_DEADLOCK FALSE
