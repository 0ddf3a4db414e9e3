CONSTANTS
  k0 = k0
  k1 = k1
  k2 = k2
  k3 = k3
  k4 = k4
  k5 = k5
  k6 = k6
  v0 = v0
  v1 = v1
  KeyObjects = {k0, k1, k2, k3, k4, k5, k6}
  ValueObjects = {v0, v1}
  Text <- MCText
  Shared = {k6}
  MaxFailures = 1
SPECIFICATION Spec
INVARIANTS
  TypeOK
  LookupsAgree
  IterationInOrder
  CountExact
  NoEmptyNodes
  RefsExact
PROPERTY ImplementsMap
CHECK_DEADLOCK FALSE
