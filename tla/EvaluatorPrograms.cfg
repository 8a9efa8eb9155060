SPECIFICATION FairSpec
CONSTANTS
  Programs <- MCPrograms
  Files <- MCFiles
  Expressions <- MCExpressions
INVARIANTS
  IInv
  Computes
  ApplyLayout
  TailCallsTakeNoStack
  LocalsRooted
PROPERTIES
  FramesIntact
  Halts
