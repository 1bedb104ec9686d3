SPECIFICATION HashsetSpec
CONSTANTS
  Values = {2, 4, 5, 6, 7, 10}
  MaxSlots = 16
  MaxDeleted = 1
INVARIANT ZeroIfPresent
