CONSTANTS
  MaxElems = 2
  MaxTrue = 3
  ArgLimit = 3
  Sources <- Decorated
SPECIFICATION Spec
INVARIANT DecoratorsAccepted
CHECK_DEADLOCK FALSE
