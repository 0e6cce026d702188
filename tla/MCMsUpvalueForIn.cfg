\* A loop variable that a closure captures, as compileForIn drops it.
CONSTANTS
  Values = {fn}
  Fn = fn
  Nil = fn
  Upvalues = {u1, u2}
  Closures = {k1, k2}
  Cells <- CellNames
  NoCell = 0
  Null = Null
  MaxSlots = 4
  MaxFrames = 2
  MaxCaptured = 1
  ForIn = TRUE
  Errors = FALSE
SYMMETRY Interchangeable
SPECIFICATION Spec
INVARIANT NoDangling
