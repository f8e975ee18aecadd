SPECIFICATION FairSpec
CONSTANTS
  k1 = k1
  k2 = k2
  NoItem = NoItem
  Keys = {k1, k2}
  Items <- MCItems
  KeyOf <- MCKeyOf
  Priority <- MCPriority
  Workers = {w1, w2}
  Callers = {c1, c2}
  GlobalCapacity = 3
  PerKeyCapacity = 2
INVARIANTS
  TypeOK
  NothingForgotten
  NoRuntimeError
PROPERTIES
  Serial
  AcceptedWorkEnds
  ShutdownEnds
CHECK_DEADLOCK FALSE
