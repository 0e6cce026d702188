CONSTANT Sources <- AllSources
SPECIFICATION FairSpec
INVARIANTS
  Inv
  ErrorNotEarly
  StatementsKept
PROPERTY ParsingEnds
CHECK_DEADLOCK FALSE
