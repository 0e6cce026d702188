\* Three addresses, one of them the globals map; one size, and thresholds so
\* low that almost every allocation collects.
CONSTANTS
  Objects = {o1, o2, o3}
  Null = Null
  Builtin = Builtin
  Meta = Meta
  UpvalueT = UpvalueT
  Sizes = {1}
  InitialThreshold = 2
  MaxThreshold = 2
  MaxStack = 2
  MaxRoots = 1
  MaxRefs = 1
SYMMETRY ObjectSymmetry
SPECIFICATION Spec
INVARIANTS
  Inv
  ReachableIsAllocated
  NoDanglingAccess
  ClassBeforeInstance
PROPERTIES
  CollectionExact
  ImplementsHeap
CHECK_DEADLOCK FALSE
