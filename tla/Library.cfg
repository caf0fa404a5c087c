\* All bulk operations, with equal keys, a deep key and an unhashable one; sequences of up
\* to three elements and ranges; numbers of both representations; up to two parameters.
SPECIFICATION LibrarySpec
CONSTANTS
  k1 = k1
  k1f = k1f
  k2 = k2
  k3 = k3
  kd = kd
  ku = ku
  v1 = v1
  v2 = v2
  NoneVal = NoneVal
  Class <- MCClass
  HashOf <- MCHashOf
  Value = {v1, v2}
  Key = {k1, k1f, k2, kd, ku}
  Unhashable = {ku}
  Deep = {kd}
  Ops = {"union", "pipe_assign", "update", "set_union", "set_update", "difference", "intersection", "symmetric_difference", "issuperset", "issubset"}
  MaxX = 3
  MaxY = 3
  IntBits = 16
  Elem = {1, 2}
  MaxSeq = 3
  Calls = 1
  RangeArgs <- MCRangeArgs
  IndexArgs <- MCIndexArgs
  CompareLimit = 3
  NaN = 9
  SmallBits = 3
  NoneArg = "None"
  Comparands <- MCComparands
  SortKeys <- MCSortKeys
  MaxKeys = 4
  Numerals <- MCNumerals
  Parameters <- MCParameters
  ArgValues = {"None", "int", "str"}
  ArgNames = {"a", "b", "c"}
  MaxParams = 2
  MaxNamed = 2
  KeyLists <- MCKeyLists
  MaxMembers = 2
  Tokens <- MCTokens
  MaxTokens = 5
INVARIANTS
  UnionExact
  AlgebraExact
  DiscardedOnlyIf
  SlicesExact
  ListsExact
  OrderExact
  IntsExact
  BindsExact
  JsonExact
CHECK_DEADLOCK FALSE
