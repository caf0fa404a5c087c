\* Five keys of one chain, so that the table grows twice, or two iterations at a time.
\* Two slots per bucket and the ratio of load factor to bucket size of the code (6.5 / 8).
SPECIFICATION MCSpec
CONSTANTS
  k0 = k0
  k1 = k1
  k1f = k1f
  k3 = k3
  k5 = k5
  kd = kd
  ku = ku
  v1 = v1
  v2 = v2
  Class <- MCClass
  HashOf <- MCHashOf
  BucketSize = 2
  LoadNum = 13
  LoadDen = 8
  Key = {k0, k1, k1f, k3, k5, kd, ku}
  Value = {v1, v2}
  Unhashable = {ku}
  Deep = {kd}
  Iter = {1, 2}
  InitSizes = {1, 2}
INVARIANTS
  TypeOK
  IterCountExact
  IterPointersLive
  ListInOrder
  LookupFinds
  GrowCannotFail
PROPERTIES
  ImplementsOrderedMap
  InsertReturns
