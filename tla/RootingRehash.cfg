SPECIFICATION Spec
CONSTANTS
  Null = Null
  Nil = Nil
  Junk = Junk
  Program <- Programs
  Known <- KnownFacts
  Running = {"hash_set", "hash_delete"}
INVARIANT
  NoWildVisit
