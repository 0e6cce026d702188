\* Maps: four keys, nil among them, and two values, in tables of 4, 8 and 16
\* slots.  Sets: three items in tables of 4 and 8.  Two lists of up to three
\* elements, three together, of two ints and nil.  Slices of up to four
\* elements, and ranges, with ints of four bits.
CONSTANTS
  k1 = k1
  k2 = k2
  k3 = k3
  v1 = v1
  v2 = v2
  o1 = o1
  o2 = o2
  SetNever = SetNever
  SetTombstone = SetTombstone
  Junk = Junk
  Nil = Nil
  Keys = {k1, k2, k3, Nil}
  Values = {v1, v2}
  HashOf <- Hashes
  NoKey = NoKey
  Absent = Absent
  MinCap = 4
  InitCaps = {0, 5}
  MaxCap = 16
  Overwrites = FALSE
SPECIFICATION PartSpec
INVARIANTS
  Inv
  IterationExact
  TablesSound
  AlgebraExact
  EqualHashEqual
  LoopsInOrder
  SlicesExact
  RangesExact
PROPERTIES
  ImplementsDict
  OperationsEnd
  ImplementsSets
  ImplementsSeqs
