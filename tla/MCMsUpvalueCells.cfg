\* Two values, so that a variable that changes behind the program's back shows.
CONSTANTS
  Values = {fn, nil}
  Fn = fn
  Nil = nil
  Upvalues = {u1}
  Closures = {k1, k2}
  Cells <- CellNames
  NoCell = 0
  Null = Null
  MaxSlots = 4
  MaxFrames = 2
  MaxCaptured = 1
  ForIn = FALSE
  Errors = FALSE
SPECIFICATION Spec
SYMMETRY Interchangeable
PROPERTY ImplementsVariables
