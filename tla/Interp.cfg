\* Two functions and built-ins calling each other over one collection, and recursive
\* functions with an OnMaxSteps callback; the thread is scheduled fairly.
SPECIFICATION FairSpec
CONSTANTS
  Coll = {"c"}
  Reason = {"stop"}
  TooMany = "too many steps"
  NoReason = "nil"
  Limits = {2}
  StepCap = 3
  Setups <- MCSetups
INVARIANTS
  TypeOK
  IterAccounting
  StepLimitHolds
  NoReentry
  StackBounded
  SpansExact
PROPERTIES
  NoUpdateUnderIteration
  CancelStops
