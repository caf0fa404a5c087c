\* Every load graph of three modules, two clients; both caches, modules that fail by themselves or not.
SPECIFICATION FairSpec
CONSTANTS
  Thread = {t1, t2}
  Module = {a, b, c}
  None = None
  Cycle = Cycle
  MaxDeps = 2
  MaxLoads = 4
INVARIANTS
  EveryEntryHasOneLoader
  LoadedIsClosed
  AloneExact
PROPERTY AcyclicReturns
CHECK_DEADLOCK FALSE
