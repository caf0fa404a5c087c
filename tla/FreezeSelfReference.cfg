\* A closure that refers to itself.
SPECIFICATION Spec
CONSTANTS
  MaxObj = 2
  MaxGlobals = 1
  MaxApart = 0
  MaxElems = 2
  Kinds = {"function", "cell"}
  GoStack = 4
INVARIANT DefensiveAgainstCycles
CHECK_DEADLOCK FALSE
