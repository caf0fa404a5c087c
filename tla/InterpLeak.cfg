\* UNPACK of too many values.
SPECIFICATION Spec
CONSTANTS
  Coll = {"c"}
  Reason = {"stop"}
  TooMany = "too many steps"
  NoReason = "nil"
  Limits = {2}
  StepCap = 3
  Setups <- JustPlain
INVARIANTS
  IteratorsReleased
