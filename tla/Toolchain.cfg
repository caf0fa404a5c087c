CONSTANTS
  MaxElems = 2
  MaxTrue = 3
  ArgLimit = 3
  Sources <- Programs
SPECIFICATION Spec
INVARIANTS
  ReadsBackWritten
  RejectsExactly
  StackAsComputed
  CompiledMeansSource
PROPERTY SavingChangesNothing
CHECK_DEADLOCK FALSE
