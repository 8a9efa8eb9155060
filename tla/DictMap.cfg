SPECIFICATION Spec
CONSTANTS
  k1 = k1
  k2 = k2
  k3 = k3
  k4 = k4
  k5 = k5
  Key = {k1, k2, k3, k4, k5}
  Val = {v1, v2}
  Hash <- MCHash
  Entry = {e1, e2, e3, e4, e5}
  Null = Null
  DICT_INIT_SIZE = 1
SYMMETRY Symmetry
INVARIANTS
  IInv
  TypeOK
  WellPlaced
  CountExact
  LoadBounded
PROPERTIES
  ResizingSettles
  EntriesStay
  ImplementsMap
