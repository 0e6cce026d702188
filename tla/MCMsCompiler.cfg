CONSTANTS
  MaxLocals = 8
  MaxUpvalues = 4
  MaxPatches = 3
  MaxFilters = 2
  MaxCatches = 2
  MaxCount = 3
  MaxMethods = 2
  Nest = 2
  Divergences = FALSE
  AnyContinue = FALSE
  Programs <- MCPrograms
SPECIFICATION Spec
INVARIANTS
  StatementsBalanced
  FindsItsVariable
  JumpsArePatched
  RejectsTheIllegal
PROPERTIES
  CapturedAreClosed
