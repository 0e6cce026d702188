CONSTANTS
  MaxLocals = 8
  MaxUpvalues = 4
  MaxPatches = 3
  MaxFilters = 2
  MaxCatches = 2
  MaxCount = 3
  MaxMethods = 2
  Nest = 1
  Divergences = FALSE
  AnyContinue = TRUE
  Programs <- MCPrograms
SPECIFICATION Spec
INVARIANT StatementsBalanced
