SPECIFICATION FairSpec
CONSTANTS
  Addr = {a1, a2}
  Null = Null
  ObType = {"fixnum", "closure", "vector", "econt"}
  ObSize <- MCObSize
  VectorLength = 2
  MIN_HEAP_SIZE = 4
  MaxStack = 1
  MaxHeld = 2
INVARIANTS
  IInv
  NoDangling
PROPERTY
  ImplementsHeap
  CallsReturn
