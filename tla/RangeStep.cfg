\* Eight-bit ints: the stride -8 is to them what -2147483648 is to ints of 64 bits.
SPECIFICATION SlicingSpec
CONSTANTS
  IntBits = 8
  Elem = {1}
  MaxSeq = 0
  Calls = 3
  RangeArgs <- MCRangeArgs
  IndexArgs <- MCIndexArgs
INVARIANT CallerEnsuresStep
CHECK_DEADLOCK FALSE
