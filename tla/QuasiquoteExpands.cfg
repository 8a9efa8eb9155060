SPECIFICATION Spec
CONSTANTS
  Nil = Nil
  quasiquote = quasiquote
  unquote = unquote
  unquote_splicing = unquote_splicing
  a = a
  b = b
  x = x
  none = none
  two = two
  Atom <- MCAtom
  Start <- MCStart
  Template <- MCTemplate
INVARIANTS
  Expands
  InOrder
  OriginalsIntact
  NextFollowsIter
