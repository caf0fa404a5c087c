\* A method that another one calls through its class uses super().
SPECIFICATION Spec
CONSTANTS
  MaxClasses = 2
  MaxBases = 1
  MaxInst = 1
  MaxAny = 2
  MaxCalls = 2
  MaxOdd = 0
  Members = {"none", "def"}
INVARIANT SuperFindsOwner
