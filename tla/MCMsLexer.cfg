CONSTANT Sources <- SmallSources
SPECIFICATION FairSpec
INVARIANTS
  Inv
  LinesEndStatements
PROPERTIES
  ImplementsScanner
  EndsUnlessBroken
CHECK_DEADLOCK FALSE
