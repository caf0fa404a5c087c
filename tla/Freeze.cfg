\* Every kind of value: collections, closures, classes and instances.
SPECIFICATION Spec
CONSTANTS
  MaxObj = 4
  MaxGlobals = 2
  MaxApart = 0
  MaxElems = 1
  Kinds = {"list", "tuple", "function", "cell", "class", "instance", "bound", "super"}
  GoStack = 9
INVARIANTS
  OnlyReachableFrozen
  EndsUnlessFlagless
PROPERTIES
  PublishedImmutable
CHECK_DEADLOCK FALSE
