SPECIFICATION Spec
CONSTANTS
  Cont = {k1, k2}
  Val = {v1}
  Null = Null
INVARIANT
  OutOfScopeRefused
