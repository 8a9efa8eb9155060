SPECIFICATION Spec
CONSTANTS
  Null = Null
  Nil = Nil
  Junk = Junk
  Program <- Programs
  Known <- KnownFacts
  Running = {"environ_wrap", "environ_bind", "symbol_intern", "list_copy",
             "list_to_vector", "vector_to_list", "macro", "lambda_syntax",
             "closure", "call_ec", "define", "quasiquote", "hash_set", "hash_delete",
             "hash_keys"}
INVARIANTS
  WildOnlyInRehash
  OperandsAlive
  NoDangling
  CallsVerified
  ResultIntact
