CONSTANTS
  Nil = Nil
  Fn = Fn
  Class = Class
  Instance = Instance
  Nothing = Nothing
  NoDefaults = NoDefaults
  a = a
  b = b
  c = c
  Names = {a, b, c}
  Others = {}
  Signatures <- ParameterLists
  Pushed <- Literals
  PoolSize = 2
  MaxMalloc = 1
  MaxStack = 4
  ArgcLimit = 4
  AssignSelf = FALSE
  LongSpreads = FALSE
SPECIFICATION Spec
INVARIANTS
  PoolIsStack
  FlagsWhileWaiting
PROPERTY ImplementsActivations
