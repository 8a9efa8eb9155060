SPECIFICATION Spec
CONSTANTS
  Cont = {k1, k2, k3, k4}
  Val = {v1, v2}
  Null = Null
SYMMETRY Symmetry
INVARIANTS
  IInv
  ActiveInPlace
  StaleOnlyIfSkipped
PROPERTY
  ThrowDelivers
