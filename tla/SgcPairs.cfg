SPECIFICATION Spec
CONSTANTS
  Addr = {a1, a2, a3}
  Null = Null
  ObType = {"pair", "fixnum"}
  ObSize <- MCObSize
  VectorLength = 2
  MIN_HEAP_SIZE = 4
  MaxStack = 1
  MaxHeld = 1
SYMMETRY Symmetry
INVARIANTS
  TypeOK
  NoDangling
  MarksClean
  HeapSizeExact
  FatalOnlyWhenNoGarbage
