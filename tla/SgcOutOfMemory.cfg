SPECIFICATION Spec
CONSTANTS
  Addr = {a1, a2}
  Null = Null
  ObType = {"pair", "fixnum", "vector"}
  ObSize <- MCObSize
  VectorLength = 3
  MIN_HEAP_SIZE = 4
  MaxStack = 1
  MaxHeld = 1
INVARIANT
  OutOfMemoryIsReal
