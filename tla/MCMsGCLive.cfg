\* Liveness, without symmetry; objects of two sizes, so that a wrong size shows, and
\* thresholds that let some allocations through without a collection.
CONSTANTS
  Objects = {o1, o2, o3}
  Null = Null
  Builtin = Builtin
  Meta = Meta
  UpvalueT = UpvalueT
  Sizes = {1, 2}
  InitialThreshold = 2
  MaxThreshold = 3
  MaxStack = 1
  MaxRoots = 0
  MaxRefs = 1
SPECIFICATION FairSpec
INVARIANT Accounting
CHECK_DEADLOCK FALSE
PROPERTY CollectionEnds
