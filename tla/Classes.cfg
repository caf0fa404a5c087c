\* Every hierarchy of four classes with at most two bases.
SPECIFICATION Spec
CONSTANTS
  MaxClasses = 4
  MaxBases = 2
  MaxInst = 1
  MaxAny = 3
  MaxCalls = 3
  MaxOdd = 1
  Members = {"none", "def", "static", "class", "var"}
INVARIANTS
  LinearizationExact
  ContextsMatchStack
  SuperIsNext
