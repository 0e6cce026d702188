\* The shape of the open list: one value is enough for it.  Two upvalues, two
\* closures of one capture, calls two deep.
CONSTANTS
  Values = {fn}
  Fn = fn
  Nil = fn
  Upvalues = {u1, u2}
  Closures = {k1, k2}
  Cells <- CellNames
  NoCell = 0
  Null = Null
  MaxSlots = 4
  MaxFrames = 2
  MaxCaptured = 1
  ForIn = FALSE
  Errors = FALSE
SYMMETRY Interchangeable
SPECIFICATION Spec
INVARIANTS
  Inv
  NoDangling
