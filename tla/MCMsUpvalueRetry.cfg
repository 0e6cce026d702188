\* Runs that fail, and what they leave to the next one.
CONSTANTS
  Values = {fn}
  Fn = fn
  Nil = fn
  Upvalues = {u1, u2}
  Closures = {k1}
  Cells <- CellNames
  NoCell = 0
  Null = Null
  MaxSlots = 4
  MaxFrames = 2
  MaxCaptured = 1
  ForIn = FALSE
  Errors = TRUE
SPECIFICATION Spec
SYMMETRY Interchangeable
INVARIANT NoStaleEntries
